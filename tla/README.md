# KomuTracker in TLA+

KomuTracker measures working time.  A desktop client samples how long the user
has been idle, keeps the resulting segments ("afk", "not-afk") in a SQLite
journal and uploads them to a server, which merges them into one activity log
per account.  This directory holds TLA+ models of the parts of that system that
keep state, TLC configurations that check them on small instances, and TLAPS
proofs of their most important invariants for every value of the constants.

Paths below are relative to the repository (`src/` is the client,
`server/` the server, `public/` the dashboard).

## Inventory

| Component | State | Operations | What is hard | What must be true |
|---|---|---|---|---|
| Local event journal `src/event_store.c` | table `heartbeat_events` | append/merge, next pending, mark sent, discard, prune, tracked total | merging changes a row that was already uploaded; choice of the row to merge into | a row marked sent is on the server as it is; no time in two rows; the total means what the tray says |
| Tracking session `src/tracker.c`, `afk.c` | segment in memory with its dirty flag, `afk`, "journal may have pending rows", bucket flag, four deadlines | init, poll (sample, transition, checkpoint, flush), cleanup, discard | transactions and requests fail in the middle of a poll; crashes; lost answers; another process on the same journal | no accepted observation is lost; crash loss is bounded; pending rows drain; a discarded row is uploaded at most by the request under way when it was discarded |
| Desktop client `src/desktop.c` | four flags shared by two threads, the view, credentials in memory | worker: start, sign in, connect, track, log out; main thread: menu, clicks, quit | flags read and written by both threads, a menu that lags behind, quitting anywhere | the tracked login is the saved one; an accepted login is only removed on a request for it; quit ends the process |
| Client sign-in `src/auth.c` | files of device id and token | `auth_login`, load, save, logout | two files that are written one after the other; answers lost; late sign-in | as above |
| Command-line client `src/main.c` | none of its own | `--login`, `--logout`, `--status`, tracking loop | shares files and journal with other commands and a running desktop client | an accepted login and its rows survive what another process does |
| HTTP transport `src/http.c` | none | one request with a 15 s timeout | an effect without an answer | outcomes are told apart: OK, refused, anything else |
| Instance lock and daemon `src/instance.c` | lock file, PID | lock, daemonize | the lock across two forks | one process tracks |
| Tray `src/tray_*.{c,m}` | items shown | update, click | shows an old view | clicks act on what is there |
| Idle clock `src/idle_*.c`, window watcher `src/window_*.c` | none; the window watcher is switched off in `tracker_session_init` | read | readings fail | - |
| Activity log `server/activity.ts`, `cleanup.ts` | table `afk_events` | heartbeat transaction, daily cleanup | concurrent transactions at READ COMMITTED, retries while the first still runs | an acknowledged heartbeat stays stored, a row never shrinks, no duplicates |
| Sign-in and sessions `server/auth.ts`, `cache.ts` | table `users`, an in-memory cache | poll, callback, session, logout | handlers interleave at each await; the cache is filled with what was read earlier | one session per account, an ended token is refused |
| Routes `server/app.ts` | none | call the above | - | - |
| Reports and retention `server/reports.ts`, `retention.ts` | none | retention window, check of a range, two queries, midnights in GMT+7 | the check and the query lie on two sides of midnight and of the cleanup; rows cross midnight | a report of the retained days shows everything that was acknowledged |
| Entities, migrations, database | constraints and indices | - | - | - |
| Dashboard `public/` | what the page shows | fetch and draw | answers out of order | shows the range asked for |
| Configuration, paths, packaging | none | - | - | - |

How they interact: the tray and the main thread talk to the worker only through
the flags and the view; the worker signs in (`auth_login`) and runs a tracking
session; the session samples the idle clock, writes the journal and posts
heartbeats; the server's route checks the session (cache, then table) and runs
the heartbeat transaction.  The journal file is the only thing two client
processes share while one of them tracks, besides the credential files.

`PROJECT.json` lists every component with its status, and the hazards of the
code with the properties that cover them.

## Modules

### EventStore and Tracker (client: journal and tracking session)

`EventStore` has the journal as a set of rows and each SQL statement as an
operator from rows to rows: `event_store_merge` picks the row that ends last
(`LatestRow`), extends it when status and gap allow and makes it pending again,
or else appends.  `event_store_tracked_seconds` is the reading loop of the tray's
total, as a recursive function over the ids.

`Tracker` is one installation.  `rows` and `nextId` are the file; `buffer`,
`dirty`, `afk`, `hasPending`, `bucketAvailable` and `next` are the fields of
`tracker_session`; `phase` is the place in `tracker_session_poll`:

    open -> wait -> sample -> marker -> save      the sample and the transition
                 -> checkpoint                    the periodic checkpoint
                 -> bucket -> replay -> post -> mark -> replay ... -> live
                 any request -> invalidate -> discard -> off

A step ends at every SQLite transaction and every request, because the process
can die there, the world can change there, or the call can fail.  Each
transaction has an action for its failure.  `Answered` (a request the server
answers with OK) needs the device to be valid; a lost request may or may not
have taken effect; a 401 or 403 may come at any time, also from something
between client and server, because the client cannot tell the difference.
`tracker_discard_pending_events` is a second process that got a 401 or 403, at any
moment and for whatever reason: nothing in the code makes sure that the device
whose rows it discards is no longer valid, and the rows may be discarded between
`ReadPending` and `PostRow`.

`server` is what the server accepted: it is enough for what the client
promises.  How the server stores it is module `Activity`.  One server, one kind
of event and one bucket are modelled.  `seen` is an observer: it follows one
observation that the model chooses (`Notice`) and is never read by the actions.

`today` is the tray's cached total: `tracker_session_tracked_today` reads the
journal again when a checkpoint or midnight has made the cache obsolete.  The
model keeps the rows the sum was read from, and `TodayTotal` is what the tray
shows: their sum and the part of the segment in memory they do not hold.

### Outbox (what the journal promises)

`Outbox` says in 90 lines what delivery means, without rows, times, sessions or
processes: entries are added, may grow, are taken for delivery while they wait
(one at a time), are delivered or missed, are confirmed only when the receiver
has all of them, are given up for good, and are forgotten.  An entry that is
dropped while its delivery is attempted may still be delivered by that attempt,
and by no other.  `Tracker` implements it: `Promise` in `Tracker` is `INSTANCE
Outbox` with the ids of the pending, sent and discarded rows, of the row whose
request is under way, and of the rows whose whole interval the server holds;
`ImplementsOutbox` is `Promise!Spec`.

### Activity (server: activity log)

`rows` is `afk_events`.  A heartbeat is a transaction of three steps:
`Select` takes the statement's snapshot of the user's rows, `Lock` waits for the
row lock, gets the newest version of the first row in the snapshot's order that
still exists, and `Update` or `Insert` commits.  That is how PostgreSQL runs
`SELECT ... ORDER BY ... LIMIT 1 FOR UPDATE` at READ COMMITTED.  `Abort` is a
failure anywhere.  `now` is the server's clock and `midnight` the last
midnight; `cleanupExpiredActivity` may run from `CleanupAt` ticks after it on,
late or not at all, and deletes the rows that ended before the window
`retentionWindow` gives.
`stored` remembers the heartbeats that were answered with OK until they expire.

### Reports (server: what is read from the log)

`Reports` extends `Activity` by the two queries, as operators on the rows:
`usersForDay` (the sum of the clipped active rows of each user) and
`eventsForHostname` (the rows that overlap a range).  A request is checked by
`assertRangeWithinRetention` first and its query runs up to `ReportDelay` later,
so `Admitted` asks whether the range was inside the window of today, or of
yesterday when midnight has passed since.  `ReportDelay <= CleanupAt` is what
the code's times say: the cleanup runs at 01:00, a request lasts seconds.

### Sessions (server: sign-in)

`users` is the table, `cache` the `TtlCache`.  `task` holds, for each request in
progress, the step it will take next and what it has read: a handler runs
without interruption from one `await` to the next.  The UNIQUE constraints make
a write fail.  `ended` and `answer` are an observer's: when a token stopped
being valid, whether the request that ended it has been answered, and what the
last step answered.

### Desktop (client: worker, tray, sign-in)

`running`, `loginRunning`, `loginRequested` and `logoutRequested` are the
flags of `desktop_app`, `view` is what the worker set, `menu` what the tray
shows (`UpdateMenu` runs every 50 ms).  `pc` is the worker's place: `start`,
`signed_out`, `begin`, `arm`, `poll`, `save`, `confirm` (inside `auth_login`),
`connect`, `track`, `stuck` (the session could not start and waits), `refused`,
`left`, `logout`, `forget`, `end`, `off`.  `held` is the credential in memory,
`saved` the two files, each written in one step here (`Clients` has the moment
between emptying and writing a file).  `accepted` is the
one login the server accepts, `asked` the token the user asked to be logged out
of.  `stray` is set while a logout request is pending that is for no login the
worker holds: one that outlived its login when a 401 ended it, or one clicked on
a menu that still offered Log Out.  Both are observers.  `ReceiveToken` does not
look at `loginRunning`: `auth_login` tests it before the poll request only, so a
cancel during that request does not stop the answer.  What happens inside `run_tracking` is `Tracker`.

Here a 401 comes only when the server does not accept the login; a refusal
produced by something else would make `AcceptedTokenKept` false by design of
the code (any 401 or 403 removes the credential).  Removing a file is taken to
succeed.  Clicks happen only while the main loop runs.

### Clients (client: the processes beside each other)

`Clients` has any number of processes of one user: tracking in the foreground
or as a daemon, `--login`, `--logout`, `--status`, and the desktop client, on one
pair of credential files and one lock.  `role` is what a process was started as,
`pc` where it is, from one file operation, request or system call to the next;
`held` is the credential in its memory.  `write_private` writes a file in the two
steps `fopen` and `fclose` are, and a reader between them finds nothing.  `lock`
holds the processes whose open file description is locked: `instance_daemonize`
lets the child of a fork share it, so that it outlives the parent.  `Stop` is the
end of a process anywhere, by a signal or a crash.  `accepted` is the one login
the server accepts; a login is known by its number, the same in its device id
and its token, so that a pair of two logins can be seen.  What one desktop
client does in itself is `Desktop`, what is recorded is `Tracker`.

### Proof modules and TLC modules

Each module named `...Proofs` extends the module it is named after and proves
theorems about it; `RecordingProofs` and `TrayProofs` extend `TrackerProofs`, for
the order of the recorded rows and for the tray's total.  `MCTracker`, `MCActivity`, `MCSessions` and `MCClients` add
what only TLC needs: the symmetry sets, and for `MCTracker` the row ids over
which the liveness property and its fairness are stated.  `Desktop` needs none.
Operators with a comment "Mutant" are wrong variants of the definition after
them, used to show that a property can fail; nothing else refers to them.

## What is checked

| Run | Module, configuration | Shows |
|---|---|---|
| `tracker_delivery` | `MCTracker`, `MCTracker.cfg` | `SentIsOnServer`: a row marked sent spans an interval the server holds under that row. `PendingFlagSound`: the flag that allows a flush to skip the journal never hides a pending row. `DiscardedNeverUploaded`: a discard is final, and the server accepts a discarded row at most from the one request that was under way when another process discarded it. `ImplementsOutbox`: the refinement |
| `tracker_recording` | `MCTracker`, `MCTrackerRecord.cfg` | `NoObservationLost`, `CrashLossBounded` (an undamaged session loses in a crash only what is newer than its last due checkpoint), `NoTimeRecordedTwice`, `TrayNotBehind` and `TrayNotAhead` (what the tray shows is never less than the journal counts for the day, nor more than it will count after the next checkpoint) |
| `tracker_drains` | `MCTracker`, `MCTrackerDrain.cfg` | `PendingDrains`: under fairness every pending row leaves the queue while the session goes on.  The delivery properties again, where one session sends a row, extends it and sends it again |
| `tracker_total` | `MCTracker`, `MCTrackerTotal.cfg` | violation: the tray's total counts time that AFK rows cover |
| `activity` | `MCActivity`, `MCActivity.cfg` | `AcknowledgedIsStored`, `RowsOnlyGrow` under concurrent, late, repeated heartbeats, aborts and the daily cleanup; `ReportCountsAcknowledged` and `TimelineComplete`: the reports of the retained days show what was acknowledged, also across midnight |
| `activity_duplicates` | `MCActivity`, `MCActivityDuplicates.cfg` | violation: two first heartbeats become two rows |
| `sessions` | `MCSessions`, `MCSessions.cfg` | `StaleSessionExpires`, `RevokedTokenNotPolled`, `OneSessionPerAccount`, and the table's constraints and the cache's limit in `TypeOK` |
| `sessions_cache` | `MCSessions`, `MCSessionsCache.cfg` | violation: an ended token is accepted again from the cache |
| `desktop` | `Desktop`, `MCDesktop.cfg` | `TrackedLoginIsSaved`; `AcceptedTokenKept`: an accepted saved login is removed only on a logout the user asked for that login, or by a request left over from an earlier one (disagreement 6); `LogoutTakesEffect`, `QuitEnds` |
| `desktop_logout` | `Desktop`, `MCDesktopLogout.cfg` | violation: Log Out followed by Quit keeps the token |
| `clients` | `MCClients`, `MCClients.cfg` | `OneTracker` (one process tracks at a time, through forks and crashes), `DiscardOnlyRefused` and `LoginKept` (the rows and the token of an accepted login are given up only on request, or in the races the properties name) |
| `clients_saved` | `MCClients`, `MCClientsSaved.cfg` | violation: a process refused with the old login removes the new one |

Deadlock is not checked: in every module the bounds on time, logins, requests or
clicks stop the system in the end, and a client that is switched off and not
started again really stops.  That the client does not get stuck is stated as
liveness (`PendingDrains`, `QuitEnds`, `LogoutTakesEffect`).

### Bounds

*Tracker.*  A tick stands for the smallest step of the code's timestamps, and
the intervals of the code (10 s sampling and retry, 180 s AFK timeout, 370 s
merge window, 5 min checkpoint, 1 h prune, 5 days retention) are scaled
down so that each of them falls due within the bound on time:
- delivery: 4 ticks, 2 logins, 3 processes, one failed transaction, and a
  prune that falls due inside a session.  This is enough for a row to be sent,
  extended after a restart and sent again, with a crash or a discard by another
  process at every point, and for a second login that inherits the rows of the
  first.  `FlushBatch` is 1, so the batch limit is reached.
- recording: 5 ticks, 3 processes, one failure, offline.  Two restarts are
  needed for a row to be chosen wrongly by the merge; retention is short enough
  for pruning to run inside a session, and a day of 3 ticks puts a midnight
  inside a session and between two.
- drains: every deadline is due at once and the two ticks of time are used up
  early, so that the infinite behaviours are those in which requests fail and
  are repeated.  Here a session sends a row, extends it and sends it again,
  for which delivery's bound on time is too short.
- total: a merge window of twice the AFK timeout, as in the code's order of
  magnitude (`MergeWindow > AfkTimeout`).

`MaxLate` lets a thread wake later than its deadline.  Time passes only while
the thread sleeps or no session runs: a poll reads the clock once.

*Activity.*  Two users, two transactions in progress, three heartbeats with
their bounds among three instants: two transactions on one row plus an earlier
row to find.  A day has 2 ticks, 2 days are retained, the clock stops at 5: the
window moves twice, rows cross midnight and expire, and a query that was
admitted on one day runs on the next.

*Sessions.*  Two devices of one account, two requests in progress, two tokens,
a cache of one entry that lives one tick, queries of at most one tick, time 3.
Two is what each race needs (a check and a logout, two callbacks, two polls).

*Desktop.*  Three device ids (two logins after the initial one), four clicks, two
starts.

*Clients.*  Two places for processes and three starts, so that a process meets
one that started before it and one that starts after it, and three device ids:
the saved login and two drawn later, by two logins that race or by a login
after a device file that is found empty.

### Fairness

`Tracker`: weak fairness of the session's steps (a loop in one thread).  Strong
fairness of the answers that a repeated request waits for (`EnsureBucket`, the
upload of each row, a real refusal): the server is not out of reach for ever.
Without this the README itself promises nothing ("when the server is reachable
again").  There is none for crashes, failures, the world or logins.

`Desktop`: weak fairness of the worker and of the end of the main loop.  Each
request of the worker ends by its timeout of 15 s, `auth_login` by its own, and
`track` is left once a flag says so because the delay between polls is short.
Nothing obliges the person to click or to sign in.  One call has no timeout: after
opening the browser `auth_open_browser` waits for `xdg-open` or `open` with
`waitpid` (auth.c:171).  The fairness of the worker assumes that the opener
returns; one that stays in the foreground would hold up `auth_login`, and with it
a cancel and a quit.

`Activity`, `Sessions` and `Clients` state no liveness: their requests and
processes may end at any time.

### Disagreements found

1. `tracker_total`.  README.md:103 promises the "locally tracked non-AFK time".
   While the user is idle but not yet AFK the session keeps recording
   `[last input, last input]` as not-afk; the first active segment after an AFK
   period, the stretching of a row over a gap (`event_store_merge`) and the
   joining of consecutive rows (`event_store_tracked_seconds`) make the total
   cover time of an AFK row of the same journal.
2. `activity_duplicates`.  server/README.md says that writes are serialized per
   user so that concurrent first heartbeats cannot create duplicate rows, and
   server/test/activity.test.ts:99 expects an advisory lock.  The code takes only
   the lock of a row it finds.
3. `sessions_cache`.  server/test/auth.test.ts:39 and 77 expect an ended token to
   be refused at once.  A session check that read the table before the logout
   puts the session into the cache after it was emptied.
4. `desktop_logout`.  README.md:153 says that Log Out removes the saved
   credentials.  A Quit before the worker acts on it (it looks at the flag after
   the poll has returned) ends the client with the token saved, and the next
   start is signed in.
5. `clients_saved`.  README.md:157 says that after login the token is saved for
   future runs.  A process that still holds the login a `--login` has replaced is
   refused and removes the token file, whichever token it holds by then.

6. `desktop` (a passing run; the disagreement is the exception its property
   names).  When a 401 ends a session (desktop.c:294) the worker forgets the login
   but leaves `logout_requested` set.  A Log Out clicked while that answer was on
   its way is then carried out on the next login, as soon as it is tracked
   (desktop.c:307), and removes a token the server accepts and nobody asked to
   remove; README.md:153-157 promises that selecting Log Out does that, and that
   the token of a login is saved.  `AcceptedTokenKept` allows it by `\/ stray`;
   without that disjunct TLC shows the behaviour: login 1 is tracked, Log Out,
   login 1 is replaced on another device, 401, Log In with login 2, which is
   accepted, tracked and removed with `asked = 1`.
7. `sessions` (a passing run).  server/README.md:34 calls `DELETE /api/0/auth` a
   no-op that returns success.  The code revokes the token (auth.ts:159-162), and
   server/test/auth.test.ts:70-72 expects that.  `RevokedTokenNotPolled` states what
   the code and the test say; a logout that leaves the token in the table, as the
   README's would, violates it (the mutant `LogoutClearsOnly`).

## What is proved

`tlapm` checks these for every value of the constants that satisfies the
assumptions named in the modules (`MergeWindowAssumption`,
`ConstantsAssumption`, `ActivityAssumption`, `SessionsAssumption`,
`AccountsAssumption`, `ClientsAssumption` and that of `Desktop`, which only say
what kind of numbers and names they are; and `ReportsAssumption`, see above).

*TrackerProofs.*
- `TypeCorrect`: `TypeOK`.  The invariant `TypeInv` adds what the phases say about
  the locals (a row is held exactly while it is uploaded, a dirty flag means
  there is a segment).
- `SentHolds`: `SentIsOnServer`.  It is not inductive alone: `mark_sent` works by
  id on whatever the row is by then.  `UploadInv` adds that ids name one row, that
  the row held in memory still has the interval of the row in the table while
  it is uploaded (only the session's thread merges, and it does not merge then),
  and that in phase `mark` the server holds it.
- `PendingFlagHolds`: `PendingFlagSound`, from the same invariant.
- `ObservationsKept`: `NoObservationLost`.  `ObservationInv` adds that the row or
  segment that covers the observation was created no earlier than the
  observation, without which a prune inside the retention period could not be
  excluded.
- `DiscardedStays`: the action property `DiscardedNeverUploaded`.  No step takes a
  discard back (`DiscardIsFinal`: merging and marking touch only rows that are not
  discarded), an attempt begins only with a row that is pending (`AttemptStep`),
  and what the server accepts is the row of the request under way, under the
  device it was read for (`FromPost`, `UploadInv`).
- `LossBounded`: `CrashLossBounded`.  `LossInv` adds that a checkpoint is due at
  most one interval from now, and that a session being started has no segment.

The lemmas about `event_store_merge` (it keeps ids unique, loses no interval and
makes what it changes pending) are stated once and used by every action that
checkpoints.

- `Implementation`: `Spec => ImplementsOutbox`.  Each action of `Tracker` is mapped
  to one step of `Outbox`, or to a stutter: a merge to `Add` or `Grow`, reading a
  pending row to `Take`, a request the server carried out, answered or not, to
  `Deliver`, one that was refused or lost, or cut off by a crash, to `Miss`,
  `mark_sent` to `Confirm`, a discard to `Drop`, a prune to `Forget`.  It needs the invariants above and `UploadsKnown`: an upload is of an id
  that was given out, so that a new row is not delivered yet.

*RecordingProofs.*  `RecordedOnce`: `NoTimeRecordedTwice`.  That the rows lie apart
is not inductive: a merge looks at one row only, the one that ends last, so
whatever overlaps the segment in memory has to be that row.  `RecordingInv` says
what makes it so, as long as no transaction has failed (the property's own
condition: after a failure inside a transition it is false):
- `Timely`: no interval begins more than a tick after the last input, an active
  one ends with the input, and one that goes on after it is of an idle user;
- `LateIsLatest`: a row that goes on after the last input is the latest of its
  status, and the latest of all when it is idle.  Without it a session that starts
  while the user is still idle could append beside the row it ought to extend;
- `OthersEndBefore`, `SameEndBy`, `LatestIsTarget`: where the rows end, seen from
  the segment, and that one which reaches into it is the merge's target.
  `LoneMarker` is the moment between the two markers of a transition, in which
  the first may stand in memory with rows of an earlier session after it;
- `StatusFollows`: the segment has the status of the session, or of the sample
  while a transition is saved, and no input comes inside a transition.
`MergeCases` reduces `event_store_merge` to appending a row or growing the latest
one; the lemmas after it show for each that the order of the rows and the
segment's place in it survive, and the last section goes through the actions.
Here `AfkTimeout` is at least 1 (`main` rejects 0) and `MergeWindow` is at least 1
(it is the constant 370 s): with a window of 0 the marker one tick after an input
would not join the row that ends with the input.

*TrayProofs.*  What the tray shows is a sum over rows that
`event_store_tracked_seconds` reads in a loop.  The prover's induction theorems
take operators, which cannot be instantiated here, so induction is done over sets
(`UpToInduction`: a set that holds 0 and with each number the next one holds all
of `0 .. N`, from the well-founded order of finite sets), and what two
tables add up to is shown by running their loops side by side.
- `TrayShows`: `TrayNotBehind`.  `TrayInv`: while the cached sum is valid, the rows it
  was read from still hold every kept row with the same interval; each action is
  shown to invalidate the cache, to read it afresh, or to thin the journal at
  most (`TodayChange`).  `SameTotal`: such tables have the same total, as long as
  nothing that was counted has been withdrawn (`NothingWithdrawn`).
- `TrayShowsNoMore`: `TrayNotAhead`.  `MergeTotal` is the heart: the total plus the part
  of the segment after `upTo` is at most a tick more than the total after the
  merge, whether the segment becomes a row or grows one in the middle of the
  table, where rows before and after it may now join (`GrowingCounts`,
  `AheadCounts`, `FromChange`).  It needs rows that begin in the order of their
  ids and hold the segment up to `upTo`, which is `AheadInv`: active rows and the
  segment end at most a tick after the last input, and everything recorded
  later begins at that input or a tick after it (`Observed`).  `AheadInv` does
  not assume that no transaction failed.

*ActivityProofs.*  `Inv` adds to the type invariant that ids are unique
(`IdsUnique`), that the row a transaction has locked is still the row in the
table and locked by no other (`LocksCurrent`), and that a snapshot holds rows of
the heartbeat's user (`SnapshotsOfUser`).  From it: `TypeCorrect`,
`AcknowledgedStays`, `RowsGrow`.  `LocksCurrent` is where FOR UPDATE matters: an
extension is computed from the version that was read.

*ReportsProofs.*  `TimelineHolds`: `TimelineComplete`.  A row that covers an
acknowledged heartbeat of an admitted range ends after the start of the window
of that day, and the cleanup that would remove it has not run when the query
does (`AdmittedIsKept`; this is where `ReportDelay <= CleanupAt` is needed).
`ReportHolds`: `ReportCountsAcknowledged`.  The daily sum is compared with a
number of ticks: each active row is replaced by the set of its ticks in the day
(`RowTicks`), the sum over any set of rows is the number of these pairs
(`SumsCount`, by induction over the subsets of the finite table), and every
acknowledged tick is in one of them.  Rows may overlap, so the sum may be larger.

*SessionsProofs.*  `TypeInv` adds that ids are drawn upwards and the cache is
finite; `AccountInv` that a callback has found at most one row of its account;
`TokenInv` that a token is drawn once and does not come back once it ended, and
that a poll holds a token that had not ended when it began; `ClockInv` that a row
held by a session check was current when it was read, no more than `MaxDelay`
ago, and that a cache entry outlives the end of its token by no more than
`TTL + MaxDelay`.  From them: `TypeCorrect`, `OneSession`, `StaleExpires`,
`NotPolled`.

*ClientsProofs.*  `LockInv`: every process that tracks, and a desktop client
wherever it is, holds the one lock; a child of a fork holds it in its own name.
`DeviceInv`: a process that has started has a device id, and ids are drawn
upwards.  `FreshInv`: nobody else has the token of a login that is not saved yet.
`RefusedInv`: a login that is being given up is not accepted.  From them:
`TypeCorrect`, `OneInstance`, `DiscardsAreRefusals`, `LoginsAreKept`.

*DesktopProofs.*  `Inv` adds what `auth_login` has drawn and saved at each place
(`LoginUnderWay`), that from the end of `auth_login` on the files equal memory
(`HeldIsSaved`), and that the worker removes a credential only when it was
refused, after which it cannot become valid, or while a logout is requested
(`RemovalHasCause`).  `RequestIsForHeld` says whom such a request is for: while one is
pending and not `stray`, `asked` is the token in memory.  From it: `TypeCorrect`, `TrackedSaved`, `TokenKept`.

Every invariant that a passing run checks is a theorem, and so are the two
action properties and the refinement.  Only model-checked are the three liveness
properties (`PendingDrains`, `LogoutTakesEffect`, `QuitEnds`), because the prover has
no rule for ENABLED.  The five runs that expect a violation show statements that
are false of the code, so there is nothing to prove about them.  `RecordingInv`
and `AheadInv` were checked with TLC, as invariants of the recording run's
instance, before they were proved.

## What is not modelled

- A clock that goes backwards; the code reads the wall clock.
- The server's log and the client's journal in one model: what a row sent again
  after the live segment does to the sums of the server.  Each side is modelled
  with everything the other may do to it (`Activity` with late and repeated
  heartbeats in any order, `Tracker` with answers lost at any point).
- The browser's callback that arrives before the first poll created the device's
  row: client and server sign-in are modelled apart.
- The PID written to the lock file, and a browser that inherits the descriptor
  of the lock and keeps it after the client has ended.
- `eventsForHostname` picks one user of a host name without an order; the model
  asks about each user.
- Texts, JSON and URLs, the native tray windows, paths, configuration, packaging:
  no state, or pure input and output.
- The window watcher (switched off in the code) and the dashboard (a read-only
  page).

## Plan

1. `Timeline`: `Tracker`'s uploads into `Activity`'s rows, for what a row sent
   again after the live segment, or out of a full batch, does to the server's log.
2. The sign-in of client and server composed, with a callback before the first
   poll, and an account that changes on one device.
3. A clock that steps back, for the deadlines of the session.
4. The order of the dashboard's answers.

## Running

    tlc -config MCTracker.cfg MCTracker
    tlc -config MCDesktop.cfg Desktop
    tlapm TrackerProofs.tla
    tlapm TrayProofs.tla
