-------------------------------- MODULE Clients --------------------------------
(***************************************************************************)
(* The client processes of one user (src/src/main.c, instance.c, auth.c):  *)
(* any number of `komutracker` commands and the desktop client, run at the *)
(* same time on one pair of credential files, one journal and one instance *)
(* lock.                                                                   *)
(*                                                                         *)
(* A process moves from one file operation, request or system call to the  *)
(* next; the others run, and any of them can end, in between.  Nothing     *)
(* orders them but the lock, and only a process that goes on to track      *)
(* takes it.  What one desktop client does in itself is the module         *)
(* Desktop, what a tracking process records the module Tracker.            *)
(*                                                                         *)
(* A login is known by the number of its device id, and its token has the  *)
(* same number; 0 stands for a file that is missing.  --token and          *)
(* --device-id, the profile and what is printed are left out.              *)
(***************************************************************************)
EXTENDS Integers, FiniteSets

CONSTANTS
  Procs,        \* places for processes
  MaxDevice,    \* bound: device ids generated
  MaxStarts     \* bound: processes started

ASSUME ClientsAssumption == MaxDevice \in Nat \ {0} /\ MaxStarts \in Nat

\* What was started.  "run" tracks in the foreground, "daemon" detached.
Role == {"run", "daemon", "login", "logout", "status", "desktop"}

VARIABLES
  role,         \* what each process was started as
  pc,           \* where it is; "off" when there is no process
  held,         \* device and token of its http_client
  forked,       \* processes that go on as the child of the one started
  lock,         \* the processes whose open file description holds the lock
  saved,        \* the device id and the token on disk
  discarded,    \* the devices whose pending rows were discarded
  accepted,     \* the login the server accepts, 0 when none of these
  lastDevice, starts

files == <<saved, discarded>>
world == <<accepted, lastDevice, starts>>
vars  == <<role, pc, held, forked, lock, files, world>>

Credential == [device : Nat, token : Nat]
Nothing == [device |-> 0, token |-> 0]

\* Inside auth_login: from "poll" to "confirm".
LoggingIn == {"poll", "wait", "save_device", "saving_device", "save_token",
              "saving_token", "confirm"}

Place == LoggingIn \cup
  {"off", "lock", "device", "create", "creating", "token", "check", "discard",
   "remove", "idle", "begin", "detach", "track", "delete", "forget"}

TypeOK ==
  /\ role \in [Procs -> Role] /\ pc \in [Procs -> Place]
  /\ held \in [Procs -> Credential] /\ saved \in Credential
  /\ forked \subseteq Procs /\ lock \subseteq Procs \X BOOLEAN
  /\ discarded \subseteq Nat \ {0}
  /\ {accepted, lastDevice, starts} \subseteq Nat

\* Nothing was ever saved, or one login was.
Init ==
  /\ role = [p \in Procs |-> "run"] /\ pc = [p \in Procs |-> "off"]
  /\ held = [p \in Procs |-> Nothing]
  /\ forked = {} /\ lock = {} /\ discarded = {}
  /\ lastDevice \in {0, 1} /\ accepted = lastDevice
  /\ saved = [device |-> lastDevice, token |-> lastDevice]
  /\ starts = 0

-----------------------------------------------------------------------------
At(p, place) == pc[p] = place
Desktop(p) == role[p] = "desktop"
Stays(p) == role[p] \in {"run", "daemon", "desktop"}

\* Where a request with what p holds is answered with OK, not with 401.
Accepts(p) == accepted # 0 /\ held[p] = [device |-> accepted, token |-> accepted]

\* The process as the lock knows it.
Self(p) == <<p, p \in forked>>

Moves(p, place) == pc' = [pc EXCEPT ![p] = place]
Goes(p, place) == Moves(p, place) /\ UNCHANGED <<role, held, forked, lock>>

\* The process ends, and its descriptors are closed.
Ends(p) ==
  /\ Moves(p, "off")
  /\ role' = [role EXCEPT ![p] = "run"] /\ held' = [held EXCEPT ![p] = Nothing]
  /\ forked' = forked \ {p} /\ lock' = lock \ {Self(p)}

\* A command that cannot go on ends; the desktop client waits for a click.
GivesUp(p) == IF Desktop(p) THEN Goes(p, "idle") ELSE Ends(p)

\* Tracking starts, behind the lock, which the desktop client already has.
Tracks(p) == Goes(p, IF Desktop(p) THEN "track" ELSE "lock")

-----------------------------------------------------------------------------
(***************************************************************************)
(* Starting: the instance lock (flock, LOCK_NB) and the credentials.       *)
(***************************************************************************)
Launch(p, kind) ==
  /\ At(p, "off") /\ starts < MaxStarts
  /\ starts' = starts + 1
  /\ role' = [role EXCEPT ![p] = kind]
  /\ Moves(p, IF kind = "desktop" THEN "lock" ELSE "device")
  /\ UNCHANGED <<held, forked, lock, files, accepted, lastDevice>>

Locked(p) ==
  Moves(p, IF Desktop(p) THEN "device" ELSE IF role[p] = "daemon" THEN "detach" ELSE "track")

\* Mutant: whether the lock was obtained is not looked at.
LockUnchecked(p) ==
  /\ At(p, "lock")
  /\ lock' = IF lock = {} THEN {Self(p)} ELSE lock
  /\ Locked(p)
  /\ UNCHANGED <<role, held, forked, files, world>>

\* instance_lock: a second tracking process ends.
instance_lock(p) ==
  /\ At(p, "lock")
  /\ IF lock = {} THEN lock' = {Self(p)} /\ Locked(p) /\ UNCHANGED <<role, held, forked>>
                  ELSE Ends(p)
  /\ UNCHANGED <<files, world>>

\* Mutant: the child does not hold what its parent locked.
DetachUnlocked(p) ==
  /\ At(p, "detach")
  /\ forked' = forked \cup {p} /\ lock' = lock \ {Self(p)}
  /\ Moves(p, "track")
  /\ UNCHANGED <<role, held, files, world>>

\* instance_daemonize: the child shares the open file description, so that
\* the lock outlives the parent.
instance_daemonize(p) ==
  /\ At(p, "detach")
  /\ forked' = forked \cup {p}
  /\ lock' = (lock \ {Self(p)}) \cup {<<p, TRUE>>}
  /\ Moves(p, "track")
  /\ UNCHANGED <<role, held, files, world>>

\* A file is emptied when it is opened and written when it is closed; a reader
\* in between finds no value.
write_private(p, file, before, during, after) ==
  /\ \/ /\ At(p, before) /\ Goes(p, during)
        /\ saved' = [saved EXCEPT ![file] = 0]
     \/ /\ At(p, during) /\ Goes(p, after)
        /\ saved' = [saved EXCEPT ![file] = held[p][file]]
  /\ UNCHANGED <<discarded, world>>

\* Mutant: whether the file had an id is not looked at.
ReadDeviceUnchecked(p) ==
  /\ At(p, "device")
  /\ held' = [held EXCEPT ![p].device = saved.device]
  /\ Moves(p, "token")
  /\ UNCHANGED <<role, forked, lock, files, world>>

\* auth_get_device_id reads the file, or draws an id and then writes it.
ReadDevice(p) ==
  /\ At(p, "device")
  /\ IF saved.device # 0
     THEN /\ held' = [held EXCEPT ![p].device = saved.device]
          /\ Moves(p, "token") /\ UNCHANGED lastDevice
     ELSE /\ lastDevice < MaxDevice /\ lastDevice' = lastDevice + 1
          /\ held' = [held EXCEPT ![p].device = lastDevice + 1]
          /\ Moves(p, "create")
  /\ UNCHANGED <<role, forked, lock, files, accepted, starts>>

CreateDevice(p) == write_private(p, "device", "create", "creating", "token")

\* auth_read_token.  Without a token the desktop client waits for a click.
ReadToken(p) ==
  /\ At(p, "token")
  /\ held' = [held EXCEPT ![p].token = saved.token]
  /\ Moves(p, IF role[p] = "logout" THEN "delete"
             ELSE IF Desktop(p) /\ saved.token = 0 THEN "idle" ELSE "check")
  /\ UNCHANGED <<role, forked, lock, files, world>>

-----------------------------------------------------------------------------
(***************************************************************************)
(* The verification, and what follows a refusal.                           *)
(***************************************************************************)
\* Mutant: any answer but OK counts as a refusal.
CheckStrictly(p) ==
  /\ At(p, "check")
  /\ \/ Accepts(p) /\ Tracks(p)
     \/ Goes(p, "discard")
  /\ UNCHANGED <<files, world>>

\* http_auth_me answers with OK or not at all: --login goes on to replace the
\* login, --status ends, the others track.
Check(p) ==
  /\ At(p, "check") /\ held[p].token # 0
  /\ IF Stays(p) THEN Tracks(p)
     ELSE IF role[p] = "login" THEN Goes(p, "remove")
     ELSE Ends(p)
  /\ UNCHANGED <<files, world>>

\* 401 or 403, or there is no token to send.
CheckRefused(p) ==
  /\ At(p, "check") /\ ~Accepts(p)
  /\ Goes(p, IF held[p].token = 0 THEN "remove" ELSE "discard")
  /\ UNCHANGED <<files, world>>

\* tracker_discard_pending_events, for the device the process holds.
DiscardPending(p) ==
  /\ At(p, "discard")
  /\ discarded' = discarded \cup {held[p].device}
  /\ Goes(p, "remove")
  /\ UNCHANGED <<saved, world>>

\* The server refuses a tracking process: the session discards, a command
\* ends, and the desktop client removes the saved token.
Refuse(p) ==
  /\ At(p, "track") /\ ~Accepts(p)
  /\ discarded' = discarded \cup {held[p].device}
  /\ IF Desktop(p) THEN Goes(p, "remove") ELSE Ends(p)
  /\ UNCHANGED <<saved, world>>

\* auth_remove_token, whichever token is saved by now.
RemoveToken(p) ==
  /\ At(p, "remove")
  /\ saved' = [saved EXCEPT !.token = 0]
  /\ Goes(p, IF Desktop(p) THEN "idle" ELSE "begin")
  /\ UNCHANGED <<discarded, world>>

-----------------------------------------------------------------------------
(***************************************************************************)
(* auth_login.                                                             *)
(***************************************************************************)
\* Log In is clicked.
Click(p) ==
  /\ At(p, "idle")
  /\ Goes(p, "begin")
  /\ UNCHANGED <<files, world>>

\* Mutant: the device id that was read is used again.
BeginSameDevice(p) ==
  /\ At(p, "begin")
  /\ held' = [held EXCEPT ![p].token = 0]
  /\ Moves(p, "poll")
  /\ UNCHANGED <<role, forked, lock, files, world>>

\* A device id is drawn and the browser opened.
BeginLogin(p) ==
  /\ At(p, "begin")
  /\ lastDevice < MaxDevice /\ lastDevice' = lastDevice + 1
  /\ held' = [held EXCEPT ![p] = [device |-> lastDevice + 1, token |-> 0]]
  /\ Moves(p, "poll")
  /\ UNCHANGED <<role, forked, lock, files, accepted, starts>>

\* http_auth_poll for the first time: from now on the server knows the device.
FirstPoll(p) ==
  /\ At(p, "poll")
  /\ Goes(p, "wait")
  /\ UNCHANGED <<files, world>>

\* The person signs in with the browser; the account's login before it ends.
SignIn(p) ==
  /\ At(p, "wait") /\ accepted # held[p].device
  /\ accepted' = held[p].device
  /\ UNCHANGED <<role, pc, held, forked, lock, files, lastDevice, starts>>

\* A poll returns the token.
ReceiveToken(p) ==
  /\ At(p, "wait") /\ accepted = held[p].device
  /\ held' = [held EXCEPT ![p].token = held[p].device]
  /\ Moves(p, "save_device")
  /\ UNCHANGED <<role, forked, lock, files, world>>

SaveDevice(p) == write_private(p, "device", "save_device", "saving_device", "save_token")

SaveToken(p) == write_private(p, "token", "save_token", "saving_token", "confirm")

Confirm(p) ==
  /\ At(p, "confirm") /\ Accepts(p)
  /\ IF Stays(p) THEN Goes(p, IF Desktop(p) THEN "check" ELSE "lock") ELSE Ends(p)
  /\ UNCHANGED <<files, world>>

\* The login times out or is cancelled, a request or a write fails.
LoginFails(p) ==
  /\ pc[p] \in LoggingIn
  /\ GivesUp(p)
  /\ UNCHANGED <<files, world>>

-----------------------------------------------------------------------------
(***************************************************************************)
(* Logging out, and the end of a process.                                  *)
(***************************************************************************)
\* Log Out is clicked while the desktop client tracks.
AskLogout(p) ==
  /\ At(p, "track") /\ Desktop(p)
  /\ Goes(p, "delete")
  /\ UNCHANGED <<files, world>>

\* http_auth_delete; a request that is lost or refused changes nothing.
DeleteSession(p) ==
  /\ At(p, "delete")
  /\ \/ Accepts(p) /\ accepted' = 0
     \/ UNCHANGED accepted
  /\ Goes(p, "forget")
  /\ UNCHANGED <<files, lastDevice, starts>>

ForgetLogin(p) ==
  /\ At(p, "forget")
  /\ saved' = [saved EXCEPT !.token = 0]
  /\ GivesUp(p)
  /\ UNCHANGED <<discarded, world>>

\* Ctrl+C, a signal, Quit or a crash.
Stop(p) ==
  /\ ~At(p, "off")
  /\ Ends(p)
  /\ UNCHANGED <<files, world>>

\* The account signs in on another machine, or too late in a browser that was
\* left open.
SignInElsewhere ==
  /\ accepted # 0
  /\ accepted' = 0
  /\ UNCHANGED <<role, pc, held, forked, lock, files, lastDevice, starts>>

Next ==
  \/ \E p \in Procs, kind \in Role : Launch(p, kind)
  \/ \E p \in Procs :
       \/ instance_lock(p) \/ instance_daemonize(p)
       \/ ReadDevice(p) \/ CreateDevice(p) \/ ReadToken(p)
       \/ Check(p) \/ CheckRefused(p) \/ DiscardPending(p) \/ Refuse(p) \/ RemoveToken(p)
       \/ Click(p) \/ BeginLogin(p) \/ FirstPoll(p) \/ SignIn(p) \/ ReceiveToken(p) \/ SaveDevice(p)
       \/ SaveToken(p) \/ Confirm(p) \/ LoginFails(p)
       \/ AskLogout(p) \/ DeleteSession(p) \/ ForgetLogin(p) \/ Stop(p)
  \/ SignInElsewhere

Spec == Init /\ [][Next]_vars

-----------------------------------------------------------------------------
(***************************************************************************)
(* Properties.                                                             *)
(***************************************************************************)
\* README: "Only one instance runs at a time", through the fork of the daemon
\* and however processes start and die.
OneTracker == Cardinality({p \in Procs : At(p, "track")}) <= 1

\* README: "Network timeouts, DNS failures, and server errors do not discard
\* events": while the server accepts a login, its pending rows are discarded
\* only by a process that read the two files between another one's two writes
\* and holds a device id and a token of different logins.
DiscardOnlyRefused ==
  [][\A d \in discarded' \ discarded :
       d = accepted =>
         \E p \in Procs : /\ pc[p] \in {"discard", "track"} /\ pc'[p] # pc[p]
                          /\ held[p].device = d /\ held[p].token # d]_vars

Removing(p) == pc[p] \in {"remove", "forget", "save_token"} /\ pc'[p] # pc[p] /\ saved'.token = 0

Usable(login) == login.token # 0 /\ login.device = login.token /\ login.token = accepted

\* A process that was not asked to end or replace the login removes a token
\* the server accepts only when it holds another login than the saved one.
LoginKept ==
  [][Usable(saved) /\ saved'.token = 0 =>
       \E p \in Procs : /\ Removing(p)
                        /\ role[p] = "login" \/ At(p, "forget") \/ held[p] # saved]_vars

\* README: after login "the token is saved for future runs": once a login has
\* completed, nothing but a command that was asked to removes its token.
SavedForFutureRuns ==
  [][Usable(saved) /\ saved'.token = 0 /\ (\A p \in Procs : pc[p] \notin LoggingIn) =>
       \E p \in Procs : Removing(p) /\ (role[p] = "login" \/ At(p, "forget"))]_vars
=============================================================================
