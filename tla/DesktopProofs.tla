----------------------------- MODULE DesktopProofs -----------------------------
(***************************************************************************)
(* Theorems about Desktop, for every bound on clicks, logins and starts.   *)
(***************************************************************************)
EXTENDS Desktop, TLAPS

\* A login under way holds a device id of its own; before SaveToken its
\* token is the one just received.
LoginUnderWay ==
  /\ pc \in {"poll", "save", "confirm"} => held.device # 0
  /\ pc = "save" => held.token = held.device /\ saved.device = held.device

\* From the end of auth_login until the credential is removed, the files hold
\* what the worker holds.
HeldIsSaved ==
  pc \in {"confirm", "connect", "track", "stuck", "left", "refused", "logout", "forget"}
    => saved = held

\* The worker removes a credential because it was refused, and then it cannot
\* become valid again, or because a logout is still requested.
RemovalHasCause ==
  /\ pc = "refused" => ~Accepts \/ held.token = 0
  /\ pc \in {"logout", "forget"} => logoutRequested

\* A logout request that is not left over is for the login the worker holds.
RequestIsForHeld ==
  logoutRequested /\ ~stray /\ pc \notin {"off", "end"} => SignedIn /\ asked = held.token

Inv == TypeOK /\ LoginUnderWay /\ HeldIsSaved /\ RemovalHasCause /\ RequestIsForHeld

-----------------------------------------------------------------------------
(***************************************************************************)
(* Type correctness, in three parts: the flags, the places with the login  *)
(* flag, and the data.                                                     *)
(***************************************************************************)
FlagsType ==
  /\ running \in BOOLEAN /\ loginRunning \in BOOLEAN
  /\ loginRequested \in BOOLEAN /\ logoutRequested \in BOOLEAN
  /\ online \in BOOLEAN /\ stray \in BOOLEAN

PlacesType ==
  /\ view \in Item /\ menu \in Item
  /\ pc \in Place
  /\ loginRunning => pc \in {"poll", "save", "confirm"}

DataType ==
  /\ held \in Credential /\ saved \in Credential
  /\ clicks \in Nat /\ accepted \in Nat
  /\ lastDevice \in Nat /\ starts \in Nat /\ asked \in Nat

LEMMA TypeParts == TypeOK <=> FlagsType /\ PlacesType /\ DataType
BY Zenon DEF TypeOK, FlagsType, PlacesType, DataType

LEMMA StepFlags == FlagsType /\ [Next]_vars => FlagsType'
<1> SUFFICES ASSUME FlagsType, [Next]_vars PROVE FlagsType'
  OBVIOUS
<1> USE DEF FlagsType, request, SignedIn
<1>1. CASE Launch
  BY <1>1, Zenon DEF Launch
<1>2. CASE Start \/ StartFails \/ TakeLogin \/ StopWaiting \/ ShowLogin \/ BeginLogin
  BY <1>2, Zenon DEF Start, StartFails, TakeLogin, StopWaiting, ShowLogin, BeginLogin, flags
<1>3. CASE ReceiveToken \/ SaveToken \/ ConfirmLogin \/ LoginFails
  BY <1>3, Zenon DEF ReceiveToken, SaveToken, ConfirmLogin, LoginFails, flags
<1>4. CASE Connect \/ Refuse \/ ForgetRefused
  BY <1>4, Zenon DEF Connect, Refuse, ForgetRefused, flags
<1>5. CASE StopTracking \/ AfterTracking \/ DeleteSession \/ ForgetLogin
  BY <1>5, Zenon DEF StopTracking, AfterTracking, DeleteSession, ForgetLogin, flags
<1>6. CASE UpdateMenu \/ Exit \/ SignIn \/ SignInElsewhere
  BY <1>6, Zenon DEF UpdateMenu, Exit, SignIn, SignInElsewhere, flags
<1>7. CASE auth_action
  BY <1>7, Zenon DEF auth_action
<1>8. CASE request_logout \/ request_quit \/ StopLogin \/ Crash
  BY <1>8, Zenon DEF request_logout, request_quit, StopLogin, Crash
<1>9. CASE UNCHANGED vars
  BY <1>9, Zenon DEF vars, flags
<1> QED
  BY <1>1, <1>2, <1>3, <1>4, <1>5, <1>6, <1>7, <1>8, <1>9, Zenon DEF Next, Worker, Main

LEMMA StepPlaces == FlagsType /\ PlacesType /\ [Next]_vars => PlacesType'
<1> SUFFICES ASSUME FlagsType, PlacesType, [Next]_vars PROVE PlacesType'
  OBVIOUS
<1> USE DEF PlacesType, Item, Place
<1>1. CASE Launch
  BY <1>1 DEF Launch
<1>2. CASE Start \/ StartFails
  BY <1>2 DEF Start, StartFails, Loop, flags
<1>3. CASE TakeLogin \/ StopWaiting \/ ShowLogin \/ BeginLogin
  BY <1>3 DEF TakeLogin, StopWaiting, ShowLogin, BeginLogin, flags
<1>4. CASE ReceiveToken \/ SaveToken
  BY <1>4 DEF ReceiveToken, SaveToken, flags
<1>5. CASE ConfirmLogin \/ LoginFails
  BY <1>5 DEF ConfirmLogin, LoginFails, Loop
<1>6. CASE Connect \/ Refuse \/ ForgetRefused
  BY <1>6 DEF Connect, Refuse, ForgetRefused, Loop, flags
<1>7. CASE StopTracking \/ AfterTracking \/ DeleteSession
  BY <1>7 DEF StopTracking, AfterTracking, DeleteSession, Loop, flags
<1>8. CASE ForgetLogin
  BY <1>8 DEF ForgetLogin, Loop
<1>9. CASE UpdateMenu \/ SignIn \/ SignInElsewhere
  BY <1>9 DEF UpdateMenu, SignIn, SignInElsewhere, flags
<1>10. CASE auth_action
  BY <1>10 DEF auth_action
<1>11. CASE request_logout \/ request_quit \/ StopLogin \/ Exit \/ Crash
  BY <1>11 DEF request_logout, request_quit, StopLogin, Exit, Crash, flags
<1>12. CASE UNCHANGED vars
  BY <1>12 DEF vars, flags
<1> QED
  BY <1>1, <1>2, <1>3, <1>4, <1>5, <1>6, <1>7, <1>8, <1>9, <1>10, <1>11, <1>12, Zenon
     DEF Next, Worker, Main

LEMMA StepData == DataType /\ [Next]_vars => DataType'
<1> SUFFICES ASSUME DataType, [Next]_vars PROVE DataType'
  OBVIOUS
<1>1. held' \in Credential
  <2>1. \/ held' \in {held, saved, NoCredential}
        \/ BeginLogin \/ ReceiveToken
        \/ held' = [held EXCEPT !.token = 0]
    BY Zenon DEF Next, Launch, Worker, Start, StartFails, TakeLogin, StopWaiting, ShowLogin,
       SaveToken, ConfirmLogin, LoginFails, Connect, Refuse, ForgetRefused, StopTracking,
       AfterTracking, DeleteSession, ForgetLogin, Main, UpdateMenu, auth_action,
       request_logout, request_quit, StopLogin, Exit, Crash, SignIn, SignInElsewhere, vars
  <2>2. BeginLogin => held' = [device |-> lastDevice + 1, token |-> 0]
    BY Zenon DEF BeginLogin
  <2>3. ReceiveToken => held' = [held EXCEPT !.token = held.device]
    BY Zenon DEF ReceiveToken
  <2> QED
    BY <2>1, <2>2, <2>3 DEF DataType, Credential, NoCredential
<1>2. saved' \in Credential
  <2>1. \/ saved' = saved
        \/ saved' = [saved EXCEPT !.device = held.device]
        \/ saved' = [saved EXCEPT !.token = held.token]
        \/ saved' = [saved EXCEPT !.token = 0]
    BY Zenon DEF Next, Launch, Worker, Start, StartFails, TakeLogin, StopWaiting, ShowLogin,
       BeginLogin, ReceiveToken, SaveToken, ConfirmLogin, LoginFails, Connect, Refuse,
       ForgetRefused, StopTracking, AfterTracking, DeleteSession, ForgetLogin, Main,
       UpdateMenu, auth_action, request_logout, request_quit, StopLogin, Exit, Crash,
       SignIn, SignInElsewhere, vars
  <2> QED
    BY <2>1 DEF DataType, Credential
<1>3. accepted' \in Nat
  <2>1. accepted' \in {accepted, 0, held.device}
    BY Zenon DEF Next, Launch, Worker, Start, StartFails, TakeLogin, StopWaiting, ShowLogin,
       BeginLogin, ReceiveToken, SaveToken, ConfirmLogin, LoginFails, Connect, Refuse,
       ForgetRefused, StopTracking, AfterTracking, DeleteSession, ForgetLogin, Main,
       UpdateMenu, auth_action, request_logout, request_quit, StopLogin, Exit, Crash,
       SignIn, SignInElsewhere, vars, world
  <2> QED
    BY <2>1 DEF DataType, Credential
<1>4. clicks' \in Nat /\ lastDevice' \in Nat /\ starts' \in Nat /\ asked' \in Nat
  <2>1. /\ clicks' \in {clicks, clicks + 1} /\ lastDevice' \in {lastDevice, lastDevice + 1}
        /\ starts' \in {starts, starts + 1} /\ asked' \in {asked, held.token}
    BY Zenon DEF Next, Launch, Worker, Start, StartFails, TakeLogin, StopWaiting, ShowLogin,
       BeginLogin, ReceiveToken, SaveToken, ConfirmLogin, LoginFails, Connect, Refuse,
       ForgetRefused, StopTracking, AfterTracking, DeleteSession, ForgetLogin, Main,
       UpdateMenu, auth_action, request_logout, request_quit, StopLogin, Exit, Crash,
       SignIn, SignInElsewhere, Click, vars, world, request
  <2> QED
    BY <2>1 DEF DataType, Credential
<1> QED
  BY <1>1, <1>2, <1>3, <1>4 DEF DataType

LEMMA StepTypeOK == TypeOK /\ [Next]_vars => TypeOK'
<1>1. FlagsType' /\ PlacesType' /\ DataType' => TypeOK'
  BY Zenon DEF TypeOK, FlagsType, PlacesType, DataType
<1> QED
  BY <1>1, TypeParts, StepFlags, StepPlaces, StepData, Zenon

-----------------------------------------------------------------------------
(***************************************************************************)
(* The inductive invariant.                                                *)
(***************************************************************************)
LEMMA InitInv == Init => Inv
<1> SUFFICES ASSUME Init PROVE Inv
  OBVIOUS
<1>1. FlagsType
  BY Zenon DEF Init, FlagsType
<1>2. PlacesType /\ DataType
  BY DEF Init, PlacesType, DataType, Item, Place, Credential, NoCredential
<1>3. LoginUnderWay /\ HeldIsSaved /\ RemovalHasCause /\ RequestIsForHeld
  BY DEF Init, LoginUnderWay, HeldIsSaved, RemovalHasCause, RequestIsForHeld
<1> QED
  BY <1>1, <1>2, <1>3, TypeParts, Zenon DEF Inv

\* The part of the invariant beyond types; most steps change little of what it
\* mentions.
Causes == LoginUnderWay /\ HeldIsSaved /\ RemovalHasCause

LEMMA StepCauses == Inv /\ [Next]_vars => Causes'
<1> SUFFICES ASSUME Inv, [Next]_vars PROVE Causes'
  OBVIOUS
<1>0. /\ held \in Credential /\ saved \in Credential
      /\ lastDevice \in Nat /\ accepted \in Nat
  BY Zenon DEF Inv, TypeOK
<1> USE DEF Causes, LoginUnderWay, HeldIsSaved, RemovalHasCause, Accepts
<1>1. CASE pc' \in {"off", "start", "signed_out", "begin", "arm", "end"}
  BY <1>1
<1>2. CASE Start
  BY <1>2 DEF Start, Loop
<1>3. CASE BeginLogin
  BY <1>0, <1>3 DEF BeginLogin
<1>4. CASE ReceiveToken
  <2>1. /\ pc = "poll" /\ pc' = "save"
        /\ held' = [held EXCEPT !.token = held.device]
        /\ saved' = [saved EXCEPT !.device = held.device]
    BY <1>4, Zenon DEF ReceiveToken
  <2> QED
    BY <1>0, <2>1 DEF Inv, Credential
<1>5. CASE SaveToken
  <2>1. /\ pc = "save" /\ pc' = "confirm" /\ held' = held
        /\ saved' = [saved EXCEPT !.token = held.token]
    BY <1>5, Zenon DEF SaveToken
  <2> QED
    BY <1>0, <2>1 DEF Inv, Credential
<1>6. CASE ConfirmLogin
  BY <1>6 DEF Inv, ConfirmLogin, Loop
<1>7. CASE Connect
  BY <1>7 DEF Inv, Connect
<1>8. CASE Refuse
  BY <1>8 DEF Inv, Refuse, world
<1>9. CASE StopTracking
  BY <1>9 DEF Inv, StopTracking
<1>10. CASE AfterTracking
  BY <1>10 DEF Inv, AfterTracking, Loop, flags
<1>11. CASE DeleteSession
  BY <1>11 DEF Inv, DeleteSession, flags
<1>12. CASE /\ pc' = pc /\ held' = held /\ saved' = saved
            /\ accepted' \in {accepted, 0} \/ pc = "poll"
            /\ logoutRequested => logoutRequested'
  BY <1>0, <1>12 DEF Inv, Credential
<1>13. \/ Main \/ SignIn \/ SignInElsewhere \/ UNCHANGED vars
       => \/ pc' = "off"
          \/ /\ pc' = pc /\ held' = held /\ saved' = saved
             /\ accepted' \in {accepted, 0} \/ pc = "poll"
             /\ logoutRequested => logoutRequested'
  <2>1. \/ Main \/ SignIn \/ SignInElsewhere \/ UNCHANGED vars
        => \/ pc' = "off"
           \/ /\ pc' = pc /\ held' = held /\ saved' = saved
              /\ accepted' \in {accepted, 0} \/ pc = "poll"
    BY Zenon DEF Main, UpdateMenu, auth_action, request_logout, request_quit, StopLogin,
       Exit, SignIn, SignInElsewhere, vars, world
  <2>2. Main \/ SignIn \/ SignInElsewhere \/ UNCHANGED vars
        => logoutRequested' = logoutRequested \/ logoutRequested' = TRUE
    BY Zenon DEF Main, UpdateMenu, auth_action, request_logout, request_quit, StopLogin,
       Exit, SignIn, SignInElsewhere, vars, flags
  <2>3. logoutRequested' = logoutRequested \/ logoutRequested' = TRUE
        => (logoutRequested => logoutRequested')
    OBVIOUS
  <2> QED
    BY <2>1, <2>2, <2>3, Zenon
<1>14. Launch \/ StartFails \/ TakeLogin \/ StopWaiting \/ Crash
       => pc' \in {"off", "start", "signed_out", "begin", "arm", "end"}
  BY Zenon DEF Launch, StartFails, TakeLogin, StopWaiting, Crash
<1>15. ShowLogin \/ LoginFails \/ ForgetRefused \/ ForgetLogin
       => pc' \in {"off", "start", "signed_out", "begin", "arm", "end"}
  BY DEF ShowLogin, LoginFails, ForgetRefused, ForgetLogin, Loop
<1> QED
  BY <1>1, <1>2, <1>3, <1>4, <1>5, <1>6, <1>7, <1>8, <1>9, <1>10, <1>11, <1>12, <1>13,
     <1>14, <1>15, Zenon DEF Next, Worker

\* The place a login is held in is left only when it is removed, which is
\* noted, or with the process.
LEMMA StepRequest == Inv /\ [Next]_vars => RequestIsForHeld'
<1> SUFFICES ASSUME Inv, [Next]_vars, logoutRequested', ~stray', pc' \notin {"off", "end"}
             PROVE  SignedIn' /\ asked' = held'.token
  BY DEF RequestIsForHeld
<1> USE DEF RequestIsForHeld, SignedIn
<1>1. CASE Launch
  BY <1>1, Zenon DEF Launch
<1>2. CASE Start \/ TakeLogin \/ ShowLogin \/ BeginLogin \/ ReceiveToken \/ SaveToken
           \/ ConfirmLogin \/ LoginFails \/ SignIn
  <2>1. logoutRequested /\ ~stray /\ pc \notin {"off", "end"}
    <3>1. logoutRequested' = logoutRequested /\ stray' = stray
      BY <1>2, Zenon DEF Start, TakeLogin, ShowLogin, BeginLogin, ReceiveToken, SaveToken,
         ConfirmLogin, LoginFails, SignIn, flags, request
    <3>2. pc \notin {"off", "end"}
      BY <1>2 DEF Start, TakeLogin, ShowLogin, BeginLogin, ReceiveToken, SaveToken,
         ConfirmLogin, LoginFails, SignIn
    <3> QED
      BY <3>1, <3>2, Zenon
  <2>2. ~SignedIn
    BY <1>2 DEF Start, TakeLogin, ShowLogin, BeginLogin, ReceiveToken, SaveToken,
       ConfirmLogin, LoginFails, SignIn
  <2> QED
    BY <2>1, <2>2, Zenon DEF Inv
<1>3. CASE Connect \/ Refuse \/ StopTracking \/ AfterTracking \/ DeleteSession
  <2>1. /\ logoutRequested' = logoutRequested /\ stray' = stray
        /\ asked' = asked /\ held' = held
    BY <1>3, Zenon DEF Connect, Refuse, StopTracking, AfterTracking, DeleteSession, flags,
       request
  <2>2. SignedIn /\ pc \notin {"off", "end"} /\ SignedIn'
    BY <1>3 DEF Connect, Refuse, StopTracking, AfterTracking, DeleteSession, Loop
  <2> QED
    BY <2>1, <2>2, Zenon DEF Inv
<1>4. CASE ForgetRefused
  <2>1. logoutRequested' = logoutRequested /\ stray' = (stray \/ logoutRequested)
    BY <1>4, Zenon DEF ForgetRefused, flags
  <2> QED
    BY <2>1, Zenon
<1>5. CASE ForgetLogin
  BY <1>5, Zenon DEF ForgetLogin
<1>6. CASE request_logout
  BY <1>6, Zenon DEF request_logout
<1>7. CASE UpdateMenu \/ auth_action \/ request_quit \/ StopLogin \/ SignInElsewhere
           \/ UNCHANGED vars
  <2>1. /\ logoutRequested' = logoutRequested /\ stray' = stray
        /\ asked' = asked /\ held' = held /\ pc' = pc
    BY <1>7, Zenon DEF UpdateMenu, auth_action, request_quit, StopLogin, SignInElsewhere,
       vars, flags, request
  <2> QED
    BY <2>1, Zenon DEF Inv
<1>8. StartFails \/ StopWaiting \/ Exit \/ Crash => pc' \in {"off", "end"}
  BY Zenon DEF StartFails, StopWaiting, Exit, Crash
<1> QED
  BY <1>1, <1>2, <1>3, <1>4, <1>5, <1>6, <1>7, <1>8, Zenon DEF Next, Worker, Main

LEMMA StepInv == Inv /\ [Next]_vars => Inv'
<1>1. TypeOK' /\ Causes' /\ RequestIsForHeld' => Inv'
  BY Zenon DEF Inv, Causes
<1> QED
  BY <1>1, StepTypeOK, StepCauses, StepRequest, Zenon DEF Inv

LEMMA Invariance == Spec => []Inv
BY InitInv, StepInv, PTL DEF Spec

-----------------------------------------------------------------------------
\* Type correctness: in particular login_running is never set outside
\* auth_login.
THEOREM TypeCorrect == Spec => []TypeOK
<1>1. Inv => TypeOK
  BY DEF Inv
<1> QED
  BY <1>1, Invariance, PTL

\* The login being tracked is the one a restart would find.
THEOREM TrackedSaved == Spec => []TrackedLoginIsSaved
<1>1. Inv => TrackedLoginIsSaved
  BY DEF Inv, HeldIsSaved, TrackedLoginIsSaved
<1> QED
  BY <1>1, Invariance, PTL

\* A login the server accepts is removed, or ended at the server, only by a
\* logout the user asked for: of this very login, unless the request was left
\* over from an earlier login that was refused or from a menu out of date.
THEOREM TokenKept == Spec => AcceptedTokenKept
<1> DEFINE Kept ==
      /\ saved.token # 0 /\ saved.token = saved.device /\ saved.token = accepted
      /\ saved'.token = 0 \/ pc' = "forget"
      => logoutRequested /\ (asked = saved.token \/ stray)
<1>1. Inv /\ [Next]_vars => [Kept]_vars
  <2> SUFFICES ASSUME Inv, Next, saved'.token = 0 \/ pc' = "forget", saved.token # 0,
                      saved.token = saved.device, saved.token = accepted
               PROVE  logoutRequested /\ (asked = saved.token \/ stray)
    BY DEF vars
  <2>0. held \in Credential /\ saved \in Credential
    BY Zenon DEF Inv, TypeOK
  <2>1. CASE pc \in {"logout", "forget"}
    <3>1. logoutRequested /\ saved = held
      BY <2>1, Zenon DEF Inv, RemovalHasCause, HeldIsSaved
    <3>2. stray \/ asked = held.token
      <4>1. pc \notin {"off", "end"}
        BY <2>1
      <4> QED
        BY <3>1, <4>1, Zenon DEF Inv, RequestIsForHeld
    <3> QED
      BY <3>1, <3>2, Zenon
  <2>2. CASE pc' = "forget"
    <3>1. pc \in {"logout", "forget"}
      BY <2>2 DEF Next, Worker, Main, Launch, Start, StartFails, TakeLogin, StopWaiting,
         ShowLogin, BeginLogin, ReceiveToken, SaveToken, ConfirmLogin, LoginFails, Connect,
         Refuse, ForgetRefused, StopTracking, AfterTracking, DeleteSession, ForgetLogin,
         UpdateMenu, auth_action, request_logout, request_quit, StopLogin, Exit, Crash,
         SignIn, SignInElsewhere, Loop
    <3> QED
      BY <2>1, <3>1
  <2>3. CASE saved'.token = 0
    <3>1. \/ saved' = saved \/ ReceiveToken \/ SaveToken \/ ForgetRefused \/ ForgetLogin
      BY Zenon DEF Next, Launch, Worker, Start, StartFails, TakeLogin, StopWaiting, ShowLogin,
         BeginLogin, ConfirmLogin, LoginFails, Connect, Refuse, StopTracking, AfterTracking,
         DeleteSession, Main, UpdateMenu, auth_action, request_logout, request_quit,
         StopLogin, Exit, Crash, SignIn, SignInElsewhere
    <3>2. CASE ReceiveToken
      <4>1. saved' = [saved EXCEPT !.device = held.device]
        BY <3>2, Zenon DEF ReceiveToken
      <4> QED
        BY <2>0, <2>3, <4>1 DEF Credential
    <3>3. CASE SaveToken
      <4>1. pc = "save" /\ saved' = [saved EXCEPT !.token = held.token]
        BY <3>3, Zenon DEF SaveToken
      <4>2. held.token # 0
        BY <4>1 DEF Inv, LoginUnderWay
      <4> QED
        BY <2>0, <2>3, <4>1, <4>2 DEF Credential
    <3>4. CASE ForgetRefused
      <4>1. pc = "refused"
        BY <3>4, Zenon DEF ForgetRefused
      <4>2. saved = held /\ (~Accepts \/ held.token = 0)
        BY <4>1 DEF Inv, HeldIsSaved, RemovalHasCause
      <4> QED
        BY <4>2 DEF Accepts
    <3>5. CASE ForgetLogin
      <4>1. pc = "forget"
        BY <3>5, Zenon DEF ForgetLogin
      <4> QED
        BY <2>1, <4>1
    <3> QED
      BY <2>3, <3>1, <3>2, <3>3, <3>4, <3>5
  <2> QED
    BY <2>2, <2>3
<1> QED
  BY <1>1, Invariance, PTL DEF Spec, AcceptedTokenKept
=============================================================================
