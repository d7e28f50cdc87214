-------------------------------- MODULE Desktop --------------------------------
(***************************************************************************)
(* The desktop client around the tracking session (src/src/desktop.c, with *)
(* auth_login and the saved credentials of auth.c, and the menu the tray   *)
(* builds from the view): the worker thread, the main thread with the tray *)
(* menu, the flags and the view they share, the credential files, and the  *)
(* one login the server accepts for the account.                           *)
(*                                                                         *)
(* The worker's steps are separated at every request, sleep and file       *)
(* operation: the user clicks, the process dies or the login is replaced   *)
(* elsewhere in between.  What happens inside run_tracking while it tracks *)
(* is the module Tracker; here it is one place the worker is in until it   *)
(* is told to stop or its credential is refused.                           *)
(*                                                                         *)
(* A login is known by the number of its device id; its token has the same *)
(* number, and 0 stands for no token.  The request to open the dashboard   *)
(* and the texts of the view change nothing here and are left out.         *)
(***************************************************************************)
EXTENDS Integers

CONSTANTS
  MaxDevice,    \* bound: device ids generated
  MaxClicks,    \* bound: clicks on Log In, Cancel Login and Log Out
  MaxStarts     \* bound: processes started

ASSUME DesktopAssumption ==
  /\ MaxDevice \in Nat \ {0}
  /\ {MaxClicks, MaxStarts} \subseteq Nat

VARIABLES
  \* Shared by the two threads (desktop_app).
  running, loginRunning, loginRequested, logoutRequested,
  view,         \* what the view offers: "login", "cancel" or "logout"
  \* The worker thread.
  pc,           \* where it is; "off" when there is no process
  held,         \* device and token of its http_client
  online,       \* run_tracking was entered after auth_me answered with OK
  \* The main thread.
  menu,         \* the item the tray shows: the view when it was last read
  clicks,
  \* The files, and the world.
  saved,        \* the device id and the token on disk
  accepted,     \* the login the server accepts, 0 when none
  lastDevice, starts,
  \* Observers of the logout requests.
  asked,        \* the last token the user asked to log out of
  stray         \* a request is pending that is for no login the worker holds

flags == <<running, loginRunning, loginRequested, logoutRequested>>
world == <<accepted, lastDevice, starts>>
request == <<asked, stray>>
vars  == <<flags, view, pc, held, online, menu, clicks, saved, world, request>>

Credential == [device : Nat, token : Nat]
NoCredential == [device |-> 0, token |-> 0]

Item == {"login", "cancel", "logout"}

\* Where the worker is.  Inside auth_login: "poll", "save", "confirm".  Inside
\* run_tracking: "track", and "stuck" when no idle time can be read.
Place == {"off", "start", "signed_out", "begin", "arm", "poll", "save",
          "confirm", "connect", "track", "stuck", "left", "refused", "logout",
          "forget", "end"}

TypeOK ==
  /\ running \in BOOLEAN /\ loginRunning \in BOOLEAN
  /\ loginRequested \in BOOLEAN /\ logoutRequested \in BOOLEAN
  /\ online \in BOOLEAN
  /\ view \in Item /\ menu \in Item
  /\ pc \in Place
  /\ held \in Credential /\ saved \in Credential
  /\ clicks \in Nat /\ accepted \in Nat
  /\ lastDevice \in Nat /\ starts \in Nat
  /\ asked \in Nat /\ stray \in BOOLEAN
  /\ loginRunning => pc \in {"poll", "save", "confirm"}

\* A first login has been made and is saved; the client does not run.
Init ==
  /\ running = FALSE /\ loginRunning = FALSE
  /\ loginRequested = FALSE /\ logoutRequested = FALSE
  /\ view = "login" /\ menu = "login"
  /\ pc = "off" /\ held = NoCredential /\ online = FALSE
  /\ clicks = 0
  /\ saved = [device |-> 1, token |-> 1] /\ accepted = 1
  /\ lastDevice = 1 /\ starts = 0
  /\ asked = 0 /\ stray = FALSE

-----------------------------------------------------------------------------
(***************************************************************************)
(* komutracker_desktop_main: the process, and the start of its worker.     *)
(***************************************************************************)
Launch ==
  /\ pc = "off"
  /\ starts < MaxStarts
  /\ starts' = starts + 1
  /\ running' = TRUE /\ loginRunning' = FALSE
  /\ loginRequested' = FALSE /\ logoutRequested' = FALSE
  /\ view' = "login" /\ menu' = "login"
  /\ pc' = "start"
  /\ held' = NoCredential /\ online' = FALSE /\ stray' = FALSE
  /\ UNCHANGED <<clicks, saved, accepted, lastDevice, asked>>

\* The head of the worker's loop, and the view it sets first.
Loop(hasToken) ==
  /\ pc' = IF ~running THEN "end" ELSE IF hasToken THEN "connect" ELSE "signed_out"
  /\ view' = IF ~running THEN view ELSE IF hasToken THEN "logout" ELSE "login"

\* The device id and, when there is one, the token are read.
Start ==
  /\ pc = "start"
  /\ held' = saved
  /\ Loop(saved.token # 0)
  /\ UNCHANGED <<flags, online, menu, clicks, saved, world, request>>

\* Networking or the device identity is unavailable: the worker returns, and
\* the tray stays.
StartFails ==
  /\ pc = "start"
  /\ pc' = "end"
  /\ UNCHANGED <<flags, view, held, online, menu, clicks, saved, world, request>>

-----------------------------------------------------------------------------
(***************************************************************************)
(* Signing in: the wait for a click, then auth_login.  A new device id is  *)
(* drawn before the browser opens and saved only with the token.           *)
(***************************************************************************)
TakeLogin ==
  /\ pc = "signed_out"
  /\ running /\ loginRequested
  /\ lastDevice < MaxDevice
  /\ loginRequested' = FALSE
  /\ pc' = "begin"
  /\ UNCHANGED <<running, loginRunning, logoutRequested, view, held, online, menu,
                 clicks, saved, world, request>>

\* Mutant: the wait looks at nothing but the click.
StopWaitingOnClick ==
  /\ pc = "signed_out"
  /\ ~running /\ loginRequested
  /\ pc' = "end"
  /\ UNCHANGED <<flags, view, held, online, menu, clicks, saved, world, request>>

StopWaiting ==
  /\ pc = "signed_out"
  /\ ~running
  /\ pc' = "end"
  /\ UNCHANGED <<flags, view, held, online, menu, clicks, saved, world, request>>

\* set_view(TRAY_AUTHENTICATING), or the loop ends before it.
ShowLogin ==
  /\ pc = "begin"
  /\ IF running THEN pc' = "arm" /\ view' = "cancel"
                ELSE pc' = "end" /\ UNCHANGED view
  /\ UNCHANGED <<flags, held, online, menu, clicks, saved, world, request>>

\* login_running = 1, after the view; then auth_login draws the device id.
BeginLogin ==
  /\ pc = "arm"
  /\ loginRunning' = TRUE
  /\ lastDevice' = lastDevice + 1
  /\ held' = [device |-> lastDevice + 1, token |-> 0]
  /\ pc' = "poll"
  /\ UNCHANGED <<running, loginRequested, logoutRequested, view, online, menu,
                 clicks, saved, accepted, starts, request>>

\* Mutant: the device id that was drawn is not saved.
ReceiveTokenOnly ==
  /\ pc = "poll"
  /\ accepted = held.device
  /\ held' = [held EXCEPT !.token = held.device]
  /\ pc' = "save"
  /\ UNCHANGED <<flags, view, online, menu, clicks, saved, world, request>>

\* http_auth_poll returns the token: the person has signed in.  The device id
\* is saved.  login_running was looked at before the request, so a login that
\* is cancelled while the request is under way goes on.
ReceiveToken ==
  /\ pc = "poll"
  /\ accepted = held.device
  /\ held' = [held EXCEPT !.token = held.device]
  /\ saved' = [saved EXCEPT !.device = held.device]
  /\ pc' = "save"
  /\ UNCHANGED <<flags, view, online, menu, clicks, world, request>>

SaveToken ==
  /\ pc = "save"
  /\ saved' = [saved EXCEPT !.token = held.token]
  /\ pc' = "confirm"
  /\ UNCHANGED <<flags, view, held, online, menu, clicks, world, request>>

\* The server accepts the login held: what a request with it is answered.
Accepts == accepted = held.device /\ held.device = held.token

\* auth_login asks for the profile before it returns.
ConfirmLogin ==
  /\ pc = "confirm"
  /\ Accepts
  /\ loginRunning' = FALSE
  /\ Loop(TRUE)
  /\ UNCHANGED <<running, loginRequested, logoutRequested, held, online, menu,
                 clicks, saved, world, request>>

\* Mutant: login_running stays set.
LoginFailsRunning ==
  /\ pc \in {"poll", "save", "confirm"}
  /\ Loop(FALSE)
  /\ UNCHANGED <<flags, held, online, menu, clicks, saved, world, request>>

\* auth_login returns -1: cancelled, timed out, a request or a write failed.
\* What it saved stays saved.
LoginFails ==
  /\ pc \in {"poll", "save", "confirm"}
  /\ loginRunning' = FALSE
  /\ Loop(FALSE)
  /\ UNCHANGED <<running, loginRequested, logoutRequested, held, online, menu,
                 clicks, saved, world, request>>

-----------------------------------------------------------------------------
(***************************************************************************)
(* Signed in: http_auth_me, and run_tracking whether or not the server     *)
(* could be reached.                                                       *)
(***************************************************************************)
\* Mutant: any answer but OK counts as a refusal.
ConnectOrForget ==
  /\ pc = "connect"
  /\ \/ Accepts /\ online' = TRUE /\ pc' \in {"track", "stuck"}
     \/ UNCHANGED online /\ pc' = "refused"
  /\ UNCHANGED <<flags, view, held, menu, clicks, saved, world, request>>

Connect ==
  /\ pc = "connect"
  /\ \/ Accepts /\ online' = TRUE
     \/ online' = FALSE
  /\ pc' \in {"track", "stuck"}
  /\ UNCHANGED <<flags, view, held, menu, clicks, saved, world, request>>

\* A 401 or 403: from auth_me, when the session starts, or while it tracks.
\* What is pending in the journal is discarded (see Tracker).
Refuse ==
  /\ pc \in {"connect", "track"}
  /\ ~Accepts
  /\ pc' = "refused"
  /\ UNCHANGED <<flags, view, held, online, menu, clicks, saved, world, request>>

\* Whatever credential is saved is removed; logout_requested is left as it is,
\* and outlives the login it was for.
ForgetRefused ==
  /\ pc = "refused"
  /\ saved' = [saved EXCEPT !.token = 0]
  /\ held' = [held EXCEPT !.token = 0]
  /\ stray' = (stray \/ logoutRequested)
  /\ Loop(FALSE)
  /\ UNCHANGED <<flags, online, menu, clicks, world, asked>>

\* Mutant: the loop takes the request instead of looking at it.
StopTrackingTakes ==
  /\ pc \in {"track", "stuck"}
  /\ ~running \/ logoutRequested
  /\ logoutRequested' = FALSE
  /\ pc' = "left"
  /\ UNCHANGED <<running, loginRunning, loginRequested, view, held, online, menu,
                 clicks, saved, world, request>>

\* The loops of run_tracking end.
StopTracking ==
  /\ pc \in {"track", "stuck"}
  /\ ~running \/ logoutRequested
  /\ pc' = "left"
  /\ UNCHANGED <<flags, view, held, online, menu, clicks, saved, world, request>>

\* After run_tracking: a logout is carried out; when the session was entered
\* online, only while the client keeps running.
AfterTracking ==
  /\ pc = "left"
  /\ IF logoutRequested /\ (running \/ ~online)
     THEN pc' = "logout" /\ view' = "logout"
     ELSE Loop(TRUE)
  /\ UNCHANGED <<flags, held, online, menu, clicks, saved, world, request>>

\* logout: the server is asked to end the session; the answer is ignored.
DeleteSession ==
  /\ pc = "logout"
  /\ \/ Accepts /\ accepted' = 0
     \/ UNCHANGED accepted
  /\ pc' = "forget"
  /\ UNCHANGED <<flags, view, held, online, menu, clicks, saved, lastDevice, starts,
                 request>>

\* The credential is removed, then the request is taken back.
ForgetLogin ==
  /\ pc = "forget"
  /\ saved' = [saved EXCEPT !.token = 0]
  /\ held' = [held EXCEPT !.token = 0]
  /\ logoutRequested' = FALSE /\ stray' = FALSE
  /\ Loop(FALSE)
  /\ UNCHANGED <<running, loginRunning, loginRequested, online, menu, clicks, world,
                 asked>>

-----------------------------------------------------------------------------
(***************************************************************************)
(* The main thread: the menu follows the view, every 50 ms, and the user   *)
(* clicks on what it shows.                                                *)
(***************************************************************************)
UpdateMenu ==
  /\ pc # "off" /\ running
  /\ menu # view
  /\ menu' = view
  /\ UNCHANGED <<flags, view, pc, held, online, clicks, saved, world, request>>

Click(item) ==
  /\ pc # "off" /\ running
  /\ menu \in item
  /\ clicks < MaxClicks
  /\ clicks' = clicks + 1

\* The item Log In or Cancel Login: what it does depends on the view, not on
\* the item the user saw.
auth_action ==
  /\ Click({"login", "cancel"})
  /\ IF view = "cancel"
     THEN loginRunning' = FALSE /\ UNCHANGED loginRequested
     ELSE loginRequested' = TRUE /\ UNCHANGED loginRunning
  /\ UNCHANGED <<running, logoutRequested, view, pc, held, online, menu, saved, world,
                 request>>

\* The worker holds a login the server has confirmed, or one from the files.
SignedIn == pc \in {"connect", "track", "stuck", "left", "refused", "logout", "forget"}

request_logout ==
  /\ Click({"logout"})
  /\ logoutRequested' = TRUE
  /\ asked' = held.token
  /\ stray' = ~SignedIn
  /\ UNCHANGED <<running, loginRunning, loginRequested, view, pc, held, online, menu,
                 saved, world>>

\* The item Quit, SIGINT or SIGTERM.
request_quit ==
  /\ pc # "off" /\ running
  /\ running' = FALSE /\ loginRunning' = FALSE
  /\ UNCHANGED <<loginRequested, logoutRequested, view, pc, held, online, menu, clicks,
                 saved, world, request>>

\* The main loop has ended: login_running is cleared once more, while the
\* worker may still be in auth_login, and the worker is joined.
StopLogin ==
  /\ pc # "off" /\ ~running
  /\ loginRunning
  /\ loginRunning' = FALSE
  /\ UNCHANGED <<running, loginRequested, logoutRequested, view, pc, held, online,
                 menu, clicks, saved, world, request>>

\* worker_join returns; the process ends and its lock is released.
Exit ==
  /\ pc = "end" /\ ~running
  /\ pc' = "off"
  /\ UNCHANGED <<flags, view, held, online, menu, clicks, saved, world, request>>

Crash ==
  /\ pc # "off"
  /\ pc' = "off"
  /\ running' = FALSE /\ loginRunning' = FALSE
  /\ UNCHANGED <<loginRequested, logoutRequested, view, held, online, menu, clicks,
                 saved, world, request>>

-----------------------------------------------------------------------------
(***************************************************************************)
(* The world: the person signs in with the browser the client opened, or   *)
(* signs in on another machine, or too late in that browser.  Each ends    *)
(* the login before it.                                                    *)
(***************************************************************************)
SignIn ==
  /\ pc = "poll"
  /\ accepted # held.device
  /\ accepted' = held.device
  /\ UNCHANGED <<flags, view, pc, held, online, menu, clicks, saved, lastDevice, starts,
                 request>>

SignInElsewhere ==
  /\ accepted # 0
  /\ accepted' = 0
  /\ UNCHANGED <<flags, view, pc, held, online, menu, clicks, saved, lastDevice, starts,
                 request>>

-----------------------------------------------------------------------------
Worker ==
  \/ Start \/ StartFails
  \/ TakeLogin \/ StopWaiting \/ ShowLogin \/ BeginLogin \/ ReceiveToken \/ SaveToken
  \/ ConfirmLogin \/ LoginFails
  \/ Connect \/ Refuse \/ ForgetRefused \/ StopTracking \/ AfterTracking
  \/ DeleteSession \/ ForgetLogin

Main == UpdateMenu \/ auth_action \/ request_logout \/ request_quit \/ StopLogin \/ Exit

Next == Launch \/ Worker \/ Main \/ Crash \/ SignIn \/ SignInElsewhere

Spec == Init /\ [][Next]_vars

\* The threads keep running: requests end, if only by their timeout of 15
\* seconds, and auth_login ends, if only by its own.
FairSpec == Spec /\ WF_vars(Worker) /\ WF_vars(StopLogin \/ Exit)

-----------------------------------------------------------------------------
(***************************************************************************)
(* Properties.                                                             *)
(***************************************************************************)
\* The login being tracked is the one a restart would find: auth_login saves
\* device id and token before it returns, and nothing removes them while the
\* session goes on.
TrackedLoginIsSaved ==
  pc \in {"connect", "track", "stuck", "left"} => saved = held

\* README: the token "is saved for future runs", and network errors discard
\* nothing: a login the server accepts is removed, or ended at the server, only
\* when the user has asked to log out of that login, or when a request was left
\* over: one made for an earlier login that a 401 then ended, or on a menu that
\* still offered Log Out when no login was held.  (The leftover request is a
\* defect of the code: it logs out of a login nobody asked to leave.)
AcceptedTokenKept ==
  [][/\ saved.token # 0 /\ saved.token = saved.device /\ saved.token = accepted
     /\ saved'.token = 0 \/ pc' = "forget"
     => logoutRequested /\ (asked = saved.token \/ stray)]_vars

\* README: "Selecting Log Out stops tracking and removes the saved
\* credentials": a request made in a session that goes on is carried out,
\* wherever the worker is, unless the client quits or dies first.
LogoutTakesEffect ==
  logoutRequested /\ pc \in {"connect", "track", "stuck", "left"}
    ~> saved.token = 0 \/ ~running

\* Quitting ends the process, wherever the worker is.
QuitEnds == ~running ~> pc = "off"

\* README: "Selecting Log Out [...] removes the saved credentials": when the
\* client has quit in order, the token it was told to log out of is not saved.
LogoutHonoured ==
  pc = "end" /\ asked # 0 => saved.token # asked
=============================================================================
