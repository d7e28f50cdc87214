-------------------------------- MODULE Tracker --------------------------------
(***************************************************************************)
(* One installation of the client: the tracking session of                 *)
(* src/src/tracker.c (tracker_session_init, _poll, _cleanup), the journal  *)
(* it writes, the idle clock it samples, and the server as far as the      *)
(* session sees it: heartbeats are accepted from one device, and a reply   *)
(* may be lost.                                                            *)
(*                                                                         *)
(* The session is one thread.  Its steps are separated wherever something  *)
(* else can come between: at every SQLite transaction and every HTTP call  *)
(* the process may die, time passes while a call blocks, and another       *)
(* komutracker process may discard rows of the same journal.               *)
(***************************************************************************)
EXTENDS EventStore

CONSTANTS
  AfkPoll,          \* options.afk_poll_seconds
  AfkTimeout,       \* options.afk_timeout_seconds
  RetryEvery,       \* EVENT_RETRY_SECONDS
  CheckpointEvery,  \* EVENT_CHECKPOINT_SECONDS
  PruneEvery,       \* the hour between two prunes
  Retention,        \* EVENT_RETENTION_SECONDS
  FlushBatch,       \* EVENT_FLUSH_BATCH
  Answers,          \* what can become of a request: "ok", "lost", "refused"
  Observing,        \* whether there is an observer
  Tray,             \* whether a tray shows the total: the desktop client's session
  DayLength,        \* from one midnight to the next
  MaxTime,          \* bound: the last tick
  MaxDevice,        \* bound: logins
  MaxProcesses,     \* bound: processes started
  MaxLate,          \* bound: how late a sleeping thread wakes, in ticks
  MaxFailures       \* bound: failed transactions and idle readings

ASSUME ConstantsAssumption ==
  /\ {AfkPoll, RetryEvery, CheckpointEvery, PruneEvery, Retention} \subseteq Nat
  /\ AfkTimeout \in Nat \ {0}    \* main rejects an AFK timeout of 0
  /\ FlushBatch \in Nat \ {0}
  /\ Answers \subseteq {"ok", "lost", "refused"}
  /\ {Observing, Tray} \subseteq BOOLEAN
  /\ DayLength \in Nat \ {0}
  /\ MaxDevice \in Nat \ {0}
  /\ {MaxTime, MaxProcesses, MaxLate, MaxFailures} \subseteq Nat

VARIABLES
  \* The journal file.
  rows,             \* the rows of heartbeat_events
  nextId,           \* the next AUTOINCREMENT id
  \* The tracking session.
  phase,            \* where its thread is
  device,           \* client->device_id: the credential the client holds
  afk,              \* session->afk
  buffer,           \* session->buffered_event, or NoEvent
  dirty,            \* session->buffered_event_dirty
  today,            \* session->tracked_today_*, and buffered_event_checkpoint_end
  hasPending,       \* session->event_store_has_pending
  bucketAvailable,  \* session->afk_bucket_available
  next,             \* the deadlines next_afk, next_event_flush, _checkpoint, _prune
  sample,           \* tracker_session_poll: the sample being recorded
  sending,          \* flush_pending_events: the row being uploaded, or NoRow
  sentCount,        \* flush_pending_events: rows uploaded in this batch
  \* The world.
  now, lastInput,   \* the clock and the moment of the user's last input
  valid,            \* the device the server accepts, 0 when none
  server,           \* the uploads the server accepted
  failures, processes,
  \* An observer of one observation, chosen at random.
  seen

journal  == <<rows, nextId>>
segment  == <<buffer, dirty, today>>
memory   == <<afk, segment, hasPending, bucketAvailable, next>>
locals   == <<sample, sending, sentCount>>
world    == <<now, lastInput, valid>>
outside  == <<world, server, processes>>
vars     == <<journal, phase, device, memory, locals, outside, failures, seen>>

Phase == {"off", "open", "wait", "sample", "marker", "save", "checkpoint",
          "bucket", "replay", "post", "mark", "live", "invalidate",
          "discard"}

\* The phases in which the thread sleeps or waits for an answer.
Blocked == {"off", "open", "wait", "bucket", "post", "live"}

NoEvent == [status |-> "none"]
NoRow   == [id |-> 0]
Nothing == [status |-> "none"]

Sample   == [afk : BOOLEAN, at : Nat, duration : Nat]
NoSample == [afk |-> FALSE, at |-> 0, duration |-> 0]
Deadlines   == [afk : Nat, flush : Nat, checkpoint : Nat, prune : Nat]
NoDeadlines == [afk |-> 0, flush |-> 0, checkpoint |-> 0, prune |-> 0]

\* The tray's total: the journal it was read from and when (the sum itself is
\* a function of these), and the end of the part of the segment in memory that
\* this journal holds.
Today == [valid : BOOLEAN, cached : SUBSET Row, at : Nat, upTo : Nat]
Uncached(t) == [valid |-> FALSE, cached |-> {}, at |-> 0, upTo |-> t]

\* What the server keeps of an upload: the device that sent it, the row it
\* came from and its interval.
Upload == [as : DeviceId, id : Nat \ {0}, from : DeviceId, status : Status,
           start : Nat, end : Nat]

\* An observation: what one call of buffer_afk_event recorded, when, and
\* whether a checkpoint has made it durable.
Observation == [device : DeviceId, status : Status, start : Nat, end : Nat,
                taken : Nat, durable : BOOLEAN]

StatusOf(isAfk) == IF isAfk THEN "afk" ELSE "not-afk"

Covers(r, o) ==
  r.device = o.device /\ r.status = o.status /\ r.start <= o.start /\ o.end <= r.end

TypeOK ==
  /\ rows \subseteq Row
  /\ nextId \in Nat \ {0}
  /\ phase \in Phase
  /\ device \in DeviceId
  /\ afk \in BOOLEAN
  /\ buffer \in Event \cup {NoEvent}
  /\ dirty \in BOOLEAN
  /\ today \in Today
  /\ hasPending \in BOOLEAN
  /\ bucketAvailable \in BOOLEAN
  /\ next \in Deadlines
  /\ sample \in Sample
  /\ sending \in Row \cup {NoRow}
  /\ sentCount \in Nat
  /\ now \in Nat
  /\ lastInput \in Nat
  /\ valid \in Nat
  /\ server \subseteq Upload
  /\ failures \in Nat
  /\ processes \in Nat
  /\ seen \in Observation \cup {Nothing}

Init ==
  /\ rows = {} /\ nextId = 1
  /\ phase = "off" /\ device = 1
  /\ afk = FALSE /\ buffer = NoEvent /\ dirty = FALSE /\ today = Uncached(0)
  /\ hasPending = FALSE /\ bucketAvailable = FALSE /\ next = NoDeadlines
  /\ sample = NoSample /\ sending = NoRow /\ sentCount = 0
  /\ now = 0 /\ lastInput = 0 /\ valid = 1
  /\ server = {} /\ failures = 0 /\ processes = 0
  /\ seen = Nothing

-----------------------------------------------------------------------------
(***************************************************************************)
(* checkpoint_buffered_event and buffer_afk_event.  A checkpoint writes    *)
(* the buffered segment when it is dirty and leaves it in memory.  An      *)
(* observation extends the buffered segment when its status and distance   *)
(* allow; otherwise the segment is checkpointed first and then replaced,   *)
(* and when that checkpoint fails nothing changes.                         *)
(***************************************************************************)
\* A SQLite transaction fails, or the idle time cannot be read.
Fails == failures < MaxFailures /\ failures' = failures + 1

SaveSegment ==
  IF dirty
  THEN /\ rows' = event_store_merge(rows, nextId, buffer)
       /\ nextId' = IF MergeTarget(rows, buffer) = {} THEN nextId + 1 ELSE nextId
  ELSE UNCHANGED journal

\* Mutant: the success path does not note that a row is waiting.
WriteWithoutFlag ==
  /\ SaveSegment
  /\ UNCHANGED <<hasPending, failures>>

WriteSegment ==
  /\ SaveSegment
  /\ hasPending' = (hasPending \/ dirty)
  /\ UNCHANGED failures

Durable(o) == IF o = Nothing THEN Nothing ELSE [o EXCEPT !.durable = TRUE]

\* Mutant: the cached total outlives the rows it was read from.
CheckpointKeepsTotal ==
  /\ WriteSegment
  /\ dirty' = FALSE
  /\ today' = IF dirty THEN [today EXCEPT !.upTo = buffer.end] ELSE today
  /\ seen' = Durable(seen)
  /\ UNCHANGED buffer

checkpoint_buffered_event ==
  /\ WriteSegment
  /\ dirty' = FALSE
  /\ today' = IF dirty THEN Uncached(buffer.end) ELSE today
  /\ seen' = Durable(seen)
  /\ UNCHANGED buffer

CheckpointFails ==
  /\ dirty
  /\ Fails
  /\ UNCHANGED <<journal, segment, hasPending, seen>>

\* The observer keeps what it has seen, or notices this observation.
Notice(o, e) ==
  {o} \cup IF o # Nothing \/ ~Observing THEN {}
           ELSE {[device |-> e.device, status |-> e.status, start |-> e.start,
                  end |-> e.end, taken |-> now, durable |-> FALSE]}

AfkEvent(isAfk, start, duration) ==
  [device |-> device, status |-> StatusOf(isAfk), start |-> start,
   end |-> start + duration, created |-> now]

Compatible(e) ==
  /\ buffer # NoEvent
  /\ buffer.status = e.status
  /\ interval_gap(buffer, e) <= MergeWindow

ExtendBuffer(e) ==
  /\ Compatible(e)
  /\ buffer' = [buffer EXCEPT !.start = Lower(@, e.start),
                              !.end = Higher(@, e.end), !.created = e.created]
  /\ dirty' = TRUE
  /\ seen' \in Notice(seen, e)
  /\ UNCHANGED <<journal, today, hasPending, failures>>

\* Mutant: what the journal holds is not reset to the new segment's start.
ReplaceBufferKeepsEnd(e) ==
  /\ ~Compatible(e)
  /\ WriteSegment
  /\ buffer' = e
  /\ dirty' = TRUE
  /\ today' = IF dirty THEN Uncached(buffer.end) ELSE today
  /\ seen' \in Notice(Durable(seen), e)

ReplaceBuffer(e) ==
  /\ ~Compatible(e)
  /\ WriteSegment
  /\ buffer' = e
  /\ dirty' = TRUE
  /\ today' = IF dirty THEN Uncached(e.start) ELSE [today EXCEPT !.upTo = e.start]
  /\ seen' \in Notice(Durable(seen), e)

\* Mutant: the old segment is replaced without a checkpoint.
ReplaceBufferUnsaved(e) ==
  \/ ExtendBuffer(e)
  \/ /\ ~Compatible(e)
     /\ buffer' = e
     /\ dirty' = TRUE
     /\ seen' \in Notice(seen, e)
     /\ UNCHANGED <<journal, today, hasPending, failures>>

buffer_afk_event(e) == ExtendBuffer(e) \/ ReplaceBuffer(e)

BufferingFails(e) == ~Compatible(e) /\ CheckpointFails

-----------------------------------------------------------------------------
(***************************************************************************)
(* Starting a session: tracker_session_init.                               *)
(***************************************************************************)
ForgetMemory ==
  /\ afk' = FALSE /\ buffer' = NoEvent /\ dirty' = FALSE /\ today' = Uncached(0)
  /\ hasPending' = FALSE /\ bucketAvailable' = FALSE /\ next' = NoDeadlines

ForgetLocals ==
  /\ sample' = NoSample /\ sending' = NoRow /\ sentCount' = 0

\* The journal is opened, pruned (a failure to prune is ignored) and asked
\* for pending rows of this device.
StartSession ==
  /\ phase = "off"
  /\ processes < MaxProcesses
  /\ processes' = processes + 1
  /\ \/ rows' = event_store_prune(rows, now - Retention) /\ UNCHANGED failures
     \/ Fails /\ UNCHANGED rows
  /\ hasPending' = (PendingRows(rows', device) # {})
  /\ next' = [NoDeadlines EXCEPT !.prune = now + PruneEvery]
  /\ phase' = "open"
  /\ UNCHANGED <<nextId, device, afk, segment, bucketAvailable, locals, world,
                 server, seen>>

\* The pending count or idle_init fails: the session is given up after the
\* prune.
StartFails ==
  /\ phase = "off"
  /\ Fails
  /\ rows' = event_store_prune(rows, now - Retention)
  /\ UNCHANGED <<nextId, phase, device, memory, locals, outside, seen>>

\* The server is reached and accepts this device.
Answered == "ok" \in Answers /\ device = valid

\* ensure_afk_bucket at start: any answer but 401 lets tracking begin, and
\* only an error delays the first upload.
OpenBucket ==
  /\ phase = "open"
  /\ \E ok \in BOOLEAN :
       /\ IF ok THEN Answered ELSE "lost" \in Answers
       /\ bucketAvailable' = ok
       /\ next' = [next EXCEPT !.afk = now, !.checkpoint = now + CheckpointEvery,
                               !.flush = IF ok THEN now ELSE now + RetryEvery]
  /\ phase' = "wait"
  /\ UNCHANGED <<journal, device, afk, segment, hasPending, locals, outside,
                 failures, seen>>

-----------------------------------------------------------------------------
(***************************************************************************)
(* tracker_session_poll, in its order: prune, sample, checkpoint, flush.   *)
(***************************************************************************)
\* tracker_session_delay: the moment the thread sleeps until.
NearestDeadline == Lower(next.afk, Lower(next.flush, next.checkpoint))

\* The thread wakes and reads the clock once for the whole poll.
Poll ==
  /\ phase = "wait"
  /\ now >= NearestDeadline
  /\ IF now >= next.prune
     THEN /\ \/ rows' = event_store_prune(rows, now - Retention)
                /\ UNCHANGED failures
             \/ Fails /\ UNCHANGED rows
          /\ next' = [next EXCEPT !.prune = now + PruneEvery]
     ELSE UNCHANGED <<rows, next, failures>>
  /\ phase' = "sample"
  /\ UNCHANGED <<nextId, device, afk, segment, hasPending, bucketAvailable,
                 locals, outside, seen>>

\* Mutant: the idle time is counted twice.
AfkUpdateTwiceIdle(idle) ==
  LET isAfk == idle >= AfkTimeout
  IN  [afk |-> isAfk, at |-> now - 2 * idle, duration |-> IF isAfk THEN idle ELSE 0]

\* afk_update: the sample taken after a given idle time.
afk_update(idle) ==
  LET isAfk == idle >= AfkTimeout
  IN  [afk |-> isAfk, at |-> now - idle, duration |-> IF isAfk THEN idle ELSE 0]

\* No sample is due, or the idle time cannot be read.
SkipSample ==
  /\ phase = "sample"
  /\ \/ now < next.afk /\ UNCHANGED <<next, failures>>
     \/ /\ now >= next.afk
        /\ Fails
        /\ next' = [next EXCEPT !.afk = now + AfkPoll]
  /\ phase' = "checkpoint"
  /\ UNCHANGED <<journal, device, afk, segment, hasPending, bucketAvailable,
                 locals, outside, seen>>

\* A sample with an unchanged status is one observation.
SampleSameStatus ==
  /\ phase = "sample" /\ now >= next.afk
  /\ LET s == afk_update(now - lastInput)
         e == AfkEvent(s.afk, s.at, s.duration)
     IN  /\ s.afk = afk
         /\ buffer_afk_event(e) \/ BufferingFails(e)
  /\ next' = [next EXCEPT !.afk = now + AfkPoll]
  /\ phase' = "checkpoint"
  /\ UNCHANGED <<device, afk, bucketAvailable, locals, outside>>

\* A changed status is recorded as two markers and a checkpoint: the old
\* status up to the last input, the new status one tick later.
SampleNewStatus ==
  /\ phase = "sample" /\ now >= next.afk
  /\ LET s == afk_update(now - lastInput)
         e == AfkEvent(afk, s.at, 0)
     IN  /\ s.afk # afk
         /\ \/ buffer_afk_event(e) /\ phase' = "marker" /\ sample' = s
            \/ BufferingFails(e) /\ phase' = "checkpoint" /\ UNCHANGED sample
  /\ next' = [next EXCEPT !.afk = now + AfkPoll]
  /\ UNCHANGED <<device, afk, bucketAvailable, sending, sentCount, outside>>

MarkNewStatus ==
  /\ phase = "marker"
  /\ LET e == AfkEvent(sample.afk, sample.at + 1, sample.duration)
     IN  \/ buffer_afk_event(e) /\ phase' = "save" /\ UNCHANGED sample
         \/ BufferingFails(e) /\ phase' = "checkpoint" /\ sample' = NoSample
  /\ UNCHANGED <<device, afk, bucketAvailable, next, sending, sentCount,
                 outside>>

\* session->afk follows only when every step of the transition succeeded.
SaveTransition ==
  /\ phase = "save"
  /\ \/ checkpoint_buffered_event /\ afk' = sample.afk
     \/ CheckpointFails /\ UNCHANGED afk
  /\ sample' = NoSample
  /\ phase' = "checkpoint"
  /\ UNCHANGED <<device, bucketAvailable, next, sending, sentCount, outside>>

\* The poll returns to the loop that called it.
PollEnds == phase' = "wait" /\ sending' = NoRow /\ sentCount' = 0

\* The periodic checkpoint is done; is it time to flush?
EndOrFlush ==
  IF now < next.flush
  THEN phase' = "wait"
  ELSE phase' = IF bucketAvailable THEN "replay" ELSE "bucket"

NextFlush == IF now < next.flush THEN next.flush ELSE now + RetryEvery

\* Mutant: the deadline moves on without a checkpoint.
CheckpointSkipped ==
  /\ phase = "checkpoint"
  /\ next' = [next EXCEPT !.checkpoint = IF now < @ THEN @ ELSE now + CheckpointEvery,
                          !.flush = NextFlush]
  /\ EndOrFlush
  /\ UNCHANGED <<journal, device, afk, segment, hasPending, bucketAvailable,
                 locals, outside, failures, seen>>

\* The periodic checkpoint; its deadline moves on even when it fails.  Then
\* the flush starts, when it is due, and its deadline moves on whatever the
\* answers will be.
PeriodicCheckpoint ==
  /\ phase = "checkpoint"
  /\ \/ /\ now < next.checkpoint
        /\ next' = [next EXCEPT !.flush = NextFlush]
        /\ UNCHANGED <<journal, segment, hasPending, failures, seen>>
     \/ /\ now >= next.checkpoint
        /\ checkpoint_buffered_event \/ CheckpointFails
        /\ next' = [next EXCEPT !.checkpoint = now + CheckpointEvery,
                                !.flush = NextFlush]
  /\ EndOrFlush
  /\ UNCHANGED <<device, afk, bucketAvailable, locals, outside>>

-----------------------------------------------------------------------------
(***************************************************************************)
(* The flush: flush_pending_events replays pending rows oldest first, at   *)
(* most FlushBatch of them, and send_buffered_event then uploads the       *)
(* segment still in memory.  The first answer that is not OK ends it; a    *)
(* 401 or 403 also ends the session.                                       *)
(***************************************************************************)
\* ensure_afk_bucket again, when it failed at start.
EnsureBucket ==
  /\ phase = "bucket"
  /\ Answered
  /\ bucketAvailable' = TRUE
  /\ phase' = "replay"
  /\ UNCHANGED <<journal, device, afk, segment, hasPending, next, locals,
                 outside, failures, seen>>

\* event_store_next_pending finds the oldest pending row.
ReadPending ==
  /\ phase = "replay" /\ hasPending /\ sentCount < FlushBatch
  /\ sending' \in event_store_next_pending(rows, device)
  /\ phase' = "post"
  /\ UNCHANGED <<journal, device, memory, sample, sentCount, outside, failures,
                 seen>>

\* There is nothing to replay, or the batch is full: the segment in memory
\* is next, if it holds anything new.
ReplayDone ==
  /\ phase = "replay"
  /\ \/ hasPending /\ sentCount = FlushBatch /\ UNCHANGED hasPending
     \/ /\ hasPending /\ sentCount < FlushBatch /\ PendingRows(rows, device) = {}
        /\ hasPending' = FALSE
     \/ ~hasPending /\ UNCHANGED hasPending
  /\ IF dirty THEN phase' = "live" /\ UNCHANGED locals
              ELSE PollEnds /\ UNCHANGED sample
  /\ UNCHANGED <<journal, device, afk, segment, bucketAvailable, next, outside,
                 failures, seen>>

ReadPendingFails ==
  /\ phase = "replay" /\ hasPending /\ sentCount < FlushBatch
  /\ Fails
  /\ PollEnds
  /\ UNCHANGED <<journal, device, memory, sample, outside, seen>>

\* An accepted upload of a row.  The server keeps one interval for a row it
\* is sent again, because the row has only grown.
Accepted(r) ==
  {h \in server : ~(h.as = device /\ h.id = r.id)} \cup
  {[as |-> device, id |-> r.id, from |-> r.device, status |-> r.status,
    start |-> r.start, end |-> r.end]}

\* http_heartbeat_json for a row of the journal, answered with OK.
PostRow ==
  /\ phase = "post"
  /\ Answered
  /\ server' = Accepted(sending)
  /\ phase' = "mark"
  /\ UNCHANGED <<journal, device, memory, locals, world, processes, failures,
                 seen>>

\* The request or its answer is lost: the server may or may not have it.
PostRowFails ==
  /\ phase = "post"
  /\ "lost" \in Answers
  /\ \/ UNCHANGED server
     \/ Answered /\ server' = Accepted(sending)
  /\ PollEnds
  /\ UNCHANGED <<journal, device, memory, sample, world, processes, failures,
                 seen>>

\* event_store_mark_sent by id; the loop goes on, or ends when it fails.
MarkSent ==
  /\ phase = "mark"
  /\ rows' = event_store_mark_sent(rows, sending.id)
  /\ sending' = NoRow
  /\ sentCount' = sentCount + 1
  /\ phase' = "replay"
  /\ UNCHANGED <<nextId, device, memory, sample, outside, failures, seen>>

MarkSentFails ==
  /\ phase = "mark"
  /\ Fails
  /\ PollEnds
  /\ UNCHANGED <<journal, device, memory, sample, outside, seen>>

\* send_buffered_event, whatever the answer short of a 401, and a bucket
\* that still cannot be created: the poll is over.  The live copy leaves no
\* trace on the client; the row checkpointed later supersedes it.
RequestEnds ==
  /\ \/ phase \in {"bucket", "live"} /\ "lost" \in Answers
     \/ phase = "live" /\ Answered
  /\ PollEnds
  /\ UNCHANGED <<journal, device, memory, sample, outside, failures, seen>>

-----------------------------------------------------------------------------
(***************************************************************************)
(* invalidate_tracking_session: after a 401 or 403, from the server or     *)
(* from something in between, the last segment is checkpointed, every      *)
(* pending row of the device is discarded and the session ends.  Either    *)
(* transaction may fail, and the process may die between them.             *)
(***************************************************************************)
Unauthorized ==
  /\ "refused" \in Answers
  /\ phase \in {"open", "bucket", "post", "live"}
  /\ phase' = "invalidate"
  /\ sending' = NoRow
  /\ UNCHANGED <<journal, device, memory, sample, sentCount, outside, failures,
                 seen>>

CheckpointLast ==
  /\ phase = "invalidate"
  /\ checkpoint_buffered_event \/ CheckpointFails
  /\ phase' = "discard"
  /\ UNCHANGED <<device, afk, bucketAvailable, next, locals, outside>>

\* Discarding is a loss the documentation announces: the observer forgets
\* what was discarded.
ForgetDiscarded(o, after) ==
  IF o # Nothing /\ \E r \in after : r.discarded /\ Covers(r, o)
  THEN Nothing ELSE o

\* What was only in memory is gone.
Unsaved(o) == IF o # Nothing /\ ~o.durable THEN Nothing ELSE o

DiscardPending ==
  /\ phase = "discard"
  /\ \/ /\ rows' = event_store_discard_pending(rows, device)
        /\ UNCHANGED failures
     \/ Fails /\ UNCHANGED rows
  /\ seen' = ForgetDiscarded(Unsaved(seen), rows')
  /\ ForgetMemory /\ ForgetLocals
  /\ phase' = "off"
  /\ UNCHANGED <<nextId, device, outside>>

-----------------------------------------------------------------------------
(***************************************************************************)
(* tracker_session_tracked_today, which the desktop client calls between   *)
(* two polls for its tray: the journal's total for the current day, read   *)
(* again when a checkpoint or midnight has made it obsolete, and the part  *)
(* of an active segment in memory that it does not hold.                   *)
(***************************************************************************)
Midnight(t) == (t \div DayLength) * DayLength

tracker_session_tracked_today ==
  /\ Tray /\ phase = "wait"
  /\ ~today.valid \/ Midnight(today.at) # Midnight(now)
  /\ today' = [today EXCEPT !.valid = TRUE, !.cached = rows, !.at = now]
  /\ UNCHANGED <<journal, phase, device, afk, buffer, dirty, hasPending,
                 bucketAvailable, next, locals, outside, failures, seen>>

\* The time the journal rs counts on the day of t.
DayTotal(rs, t) ==
  event_store_tracked_seconds(rs, nextId, Midnight(t), Midnight(t) + DayLength)

\* What the tray shows.
TodayTotal ==
  DayTotal(today.cached, today.at) +
    IF dirty THEN tracked_overlap([buffer EXCEPT !.start = today.upTo],
                                  Midnight(now), Midnight(now) + DayLength)
             ELSE 0

-----------------------------------------------------------------------------
(***************************************************************************)
(* The end of a session: tracker_session_cleanup between two polls, or a   *)
(* crash anywhere.                                                         *)
(***************************************************************************)
tracker_session_cleanup ==
  /\ phase = "wait"
  /\ \/ SaveSegment /\ seen' = Durable(seen) /\ UNCHANGED failures
     \/ dirty /\ Fails /\ seen' = Unsaved(seen) /\ UNCHANGED journal
  /\ ForgetMemory /\ ForgetLocals
  /\ phase' = "off"
  /\ UNCHANGED <<device, outside>>

Crash ==
  /\ phase # "off"
  /\ ForgetMemory /\ ForgetLocals
  /\ seen' = Unsaved(seen)
  /\ phase' = "off"
  /\ UNCHANGED <<journal, device, outside, failures>>

-----------------------------------------------------------------------------
(***************************************************************************)
(* The world: time and input, the account's valid device, and another      *)
(* process of the same installation.                                       *)
(***************************************************************************)
\* Time passes while the thread sleeps and between two sessions.  A poll
\* reads the clock once, before its requests, so time spent in a request is
\* time it sleeps less.
Tick ==
  /\ \/ phase = "off" /\ processes > 0
     \/ phase = "wait" /\ now < NearestDeadline + MaxLate
  /\ now < MaxTime
  /\ now' = now + 1
  /\ lastInput' \in {lastInput, now + 1}
  /\ UNCHANGED <<journal, phase, device, memory, locals, valid, server,
                 processes, failures, seen>>

\* auth_login, asked for by the user or because the credential is refused: a
\* new device id, which the server then accepts.  Rows of the old one stay.
Login ==
  /\ phase = "off"
  /\ device < MaxDevice
  /\ device' = device + 1
  /\ valid' = device + 1
  /\ UNCHANGED <<journal, phase, memory, locals, now, lastInput, server,
                 processes, failures, seen>>

\* A login elsewhere or a logout: the server no longer accepts this device.
Revoke ==
  /\ phase \in Blocked
  /\ valid # 0
  /\ valid' = 0
  /\ UNCHANGED <<journal, phase, device, memory, locals, now, lastInput,
                 server, processes, failures, seen>>

\* tracker_discard_pending_events: a client whose credential is refused before
\* its session starts, and the CLI started while the desktop client tracks,
\* discard on the same journal.  The device of the rows may still be valid: the
\* other process may have read its device id and its token from two logins,
\* and the refusal may come from something in between.
tracker_discard_pending_events ==
  /\ processes < MaxProcesses
  /\ processes' = processes + 1
  /\ PendingRows(rows, device) # {}
  /\ rows' = event_store_discard_pending(rows, device)
  /\ seen' = IF seen # Nothing /\ seen.durable
             THEN ForgetDiscarded(seen, rows') ELSE seen
  /\ UNCHANGED <<nextId, phase, device, memory, locals, world, server,
                 failures>>

-----------------------------------------------------------------------------
Session ==
  \/ StartSession \/ StartFails \/ OpenBucket \/ Poll
  \/ SkipSample \/ SampleSameStatus \/ SampleNewStatus \/ MarkNewStatus
  \/ SaveTransition \/ PeriodicCheckpoint
  \/ EnsureBucket \/ ReadPending \/ ReplayDone \/ ReadPendingFails
  \/ PostRow \/ PostRowFails \/ MarkSent \/ MarkSentFails \/ RequestEnds
  \/ Unauthorized \/ CheckpointLast \/ DiscardPending

\* What the thread's owner does between two polls.
Owner == tracker_session_tracked_today \/ tracker_session_cleanup

World == Tick \/ Login \/ Revoke \/ tracker_discard_pending_events

Next == Session \/ Owner \/ Crash \/ World

Spec == Init /\ [][Next]_vars

(***************************************************************************)
(* Fairness: the tracking loop keeps running, and the server is not out of *)
(* reach for ever: a request that is repeated for ever, for the bucket or  *)
(* for one row, is answered at some point, with OK or, when the device is  *)
(* not valid, with a refusal.                                              *)
(***************************************************************************)
Refused == Unauthorized /\ device # valid

PostRowWithId(i) == PostRow /\ sending.id = i

Fairness(ids) ==
  /\ WF_vars(Session)
  /\ SF_vars(EnsureBucket) /\ SF_vars(Refused)
  /\ \A i \in ids : SF_vars(PostRowWithId(i))

-----------------------------------------------------------------------------
(***************************************************************************)
(* Properties.                                                             *)
(***************************************************************************)
\* The session's thread is inside a poll or waits for the next one.
Tracking == phase \notin {"off", "invalidate", "discard"}

\* The upload h came from row r, under r's own device, and spans r.
Holds(h, r) ==
  /\ h.as = r.device /\ h.id = r.id /\ h.from = r.device /\ h.status = r.status
  /\ h.start <= r.start /\ r.end <= h.end

\* A row is marked sent only for an interval the server holds: merging a
\* later segment into a sent row makes it pending again, and mark_sent never
\* overtakes the upload it belongs to.
SentIsOnServer ==
  \A r \in rows : r.sent =>
    \E h \in server : Holds(h, r)

\* The flag that lets a flush skip the journal is never wrong in the way
\* that strands rows: while tracking, a pending row of the device implies it.
PendingFlagSound ==
  Tracking /\ PendingRows(rows, device) # {} => hasPending

\* What buffer_afk_event accepted is not lost by merging, replacing, flushing
\* or pruning: it is in the segment in memory until a checkpoint, and after
\* it in a row that is not discarded, for as long as rows are retained.
NoObservationLost ==
  seen # Nothing =>
    IF seen.durable
    THEN now - seen.taken <= Retention =>
           \E r \in rows : ~r.discarded /\ Covers(r, seen)
    ELSE buffer # NoEvent /\ dirty /\ Covers(buffer, seen)

\* README: "an abrupt crash can lose at most the uncheckpointed part of the
\* current five-minute interval": unless a transaction failed, what only the
\* memory holds was observed after the last checkpoint was due.
CrashLossBounded ==
  seen # Nothing /\ ~seen.durable /\ failures = 0 =>
    seen.taken + CheckpointEvery >= next.checkpoint

\* README: discarded rows "are never uploaded after re-authentication".  A
\* discard is final, and of the requests for a discarded row only one can still
\* reach the server: the one that was under way when another process discarded
\* the row (tracker.c reads a row and posts it later), for the row's own device.
UnderWay(i) == phase = "post" /\ sending.id = i

DiscardedNeverUploaded ==
  [][\A r \in rows : r.discarded =>
       /\ \A q \in rows' : q.id = r.id => q.discarded
       /\ (UnderWay(r.id))' => UnderWay(r.id)
       /\ \A h \in server' \ server :
            h.id = r.id => UnderWay(r.id) /\ h.as = r.device]_vars

\* Two rows that are not discarded and carry the same status never hold the
\* same stretch of time, however often sessions stop, crash and restart.  (A
\* failed transaction in the middle of a transition can break this: the
\* marker of the old status stays in memory and grows with the next sample.)
NoTimeRecordedTwice ==
  failures = 0 => \A r, q \in rows :
    /\ r.id # q.id /\ r.device = q.device /\ r.status = q.status
    /\ ~r.discarded /\ ~q.discarded
    => Lower(r.end, q.end) <= Higher(r.start, q.start)

\* README: the tray shows the "locally tracked non-AFK time": what the journal
\* counts as tracked leaves room for the time its own AFK rows cover, give or
\* take the tick each row's marker adds.
AfkTicks ==
  {t \in 0 .. now : \E r \in rows : /\ r.status = "afk" /\ ~r.discarded
                                   /\ r.start <= t /\ t < r.end}

TrackedExcludesAfk ==
  event_store_tracked_seconds(rows, nextId - 1, 0, now + 1) + Cardinality(AfkTicks)
    <= now + 1 + Cardinality(rows)

\* Rows that another process discarded, or that were pruned, may still be in
\* the sum the tray has cached; the tray's promises are about the other times.
NothingWithdrawn ==
  \A r \in today.cached : ~r.discarded =>
    \E q \in rows : q.id = r.id /\ ~q.discarded

Showing ==
  phase = "wait" /\ today.valid /\ Midnight(today.at) = Midnight(now)
    /\ NothingWithdrawn

\* The tray never shows less than the journal counts for today: no merge,
\* replacement, midnight or session leaves an older sum in the cache.
TrayNotBehind == Showing => DayTotal(rows, now) <= TodayTotal

\* Nor does it show more than the journal will count once the segment in
\* memory is checkpointed: the part of the segment that is added to the cached
\* sum is not yet in it, although the segment may be merged into an older row
\* and its start may move.  (The tick is the one a transition's marker adds.)
TrayNotAhead ==
  Showing /\ dirty =>
    TodayTotal <= DayTotal(event_store_merge(rows, nextId, buffer), now) + 1

\* README: "Pending events are replayed oldest-first when the server is
\* reachable again": while the session goes on tracking, the row with id i
\* does not stay pending.
Waiting(i) == \E r \in PendingRows(rows, device) : r.id = i

Drains(i) == Waiting(i) /\ Tracking ~> ~Waiting(i) \/ ~Tracking

-----------------------------------------------------------------------------
(***************************************************************************)
(* The journal and the server's uploads implement an outbox: its entries   *)
(* are the rows by their ids, an attempt to deliver one is a request that  *)
(* is under way, and the receiver has an entry when the server holds the   *)
(* whole of the row's interval.                                            *)
(***************************************************************************)
PendingIds(rs)   == {r.id : r \in {q \in rs : ~q.sent /\ ~q.discarded}}
SentIds(rs)      == {r.id : r \in {q \in rs : q.sent /\ ~q.discarded}}
DiscardedIds(rs) == {r.id : r \in {q \in rs : q.discarded}}
TakenIds         == IF phase = "post" THEN {sending.id} ELSE {}
HeldIds(rs, hs)  == {r.id : r \in {q \in rs : \E h \in hs : Holds(h, q)}}

Promise == INSTANCE Outbox WITH
  last      <- nextId - 1,
  pending   <- PendingIds(rows),
  taken     <- TakenIds,
  sent      <- SentIds(rows),
  dropped   <- DiscardedIds(rows),
  delivered <- HeldIds(rows, server)

\* However replays, merges, lost answers, failures, crashes and discards by
\* another process interleave, a row takes no step an outbox does not allow:
\* it is confirmed only when the server has all of it, a request for it starts
\* only while it waits, it does not change under that request, and it is never
\* revived once it was discarded.
ImplementsOutbox == Promise!Spec
=============================================================================
