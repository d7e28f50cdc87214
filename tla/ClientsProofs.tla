---------------------------- MODULE ClientsProofs ----------------------------
(***************************************************************************)
(* Proofs about Clients, for any number of processes: only one tracks, and *)
(* neither pending rows nor a saved token are given up for a login the     *)
(* server accepts, but for the races the properties name.                  *)
(***************************************************************************)
EXTENDS Clients, FiniteSetTheorems, TLAPS

\* The lock has one holder: a command that tracks or is about to detach, or
\* the desktop client, wherever it is.
Holds(p) == pc[p] \in {"detach", "track"} \/ (Desktop(p) /\ pc[p] \notin {"off", "lock"})

LockInv ==
  /\ \A x, y \in lock : x = y
  /\ \A p \in Procs : Holds(p) => Self(p) \in lock
  /\ \A p \in forked : pc[p] = "track" /\ ~Desktop(p)
  /\ \A p \in Procs : pc[p] = "detach" => ~Desktop(p)

\* Device ids are drawn in order, a process has one once it has started, and
\* what auth_login saves is a token.
Known(login) == login.device <= lastDevice /\ login.token <= lastDevice

Started(p) == pc[p] \notin {"off", "device"} /\ ~(pc[p] = "lock" /\ Desktop(p))

Saving == {"save_device", "saving_device", "save_token", "saving_token"}

DeviceInv ==
  /\ Known(saved) /\ accepted <= lastDevice
  /\ \A p \in Procs : Known(held[p]) /\ (Started(p) => held[p].device # 0)
  /\ \A p \in Procs : pc[p] \in Saving => held[p].token # 0

\* A login that is not saved yet: no one else has its token.
Unsaved == {"poll", "wait", "save_device", "saving_device", "save_token"}

FreshInv ==
  \A q \in Procs : pc[q] \in Unsaved =>
    /\ saved.token # held[q].device
    /\ \A p \in Procs \ {q} :
         /\ held[p].token # held[q].device
         /\ pc[p] \in Unsaved => held[p].device # held[q].device

\* A whole login that is given up for a refusal is not accepted, and will not
\* be again.
GivenUp(p) == pc[p] = "discard" \/ (pc[p] = "remove" /\ role[p] # "login")

RefusedInv ==
  \A p \in Procs : GivenUp(p) /\ held[p].device = held[p].token => held[p].token # accepted

IInv == TypeOK /\ LockInv /\ DeviceInv /\ FreshInv /\ RefusedInv

-----------------------------------------------------------------------------
(***************************************************************************)
(* The steps of the invariant, one action at a time.                       *)
(***************************************************************************)
LEMMA FileType ==
  ASSUME TypeOK, NEW p \in Procs, NEW file \in {"device", "token"}
  PROVE  /\ [saved EXCEPT ![file] = 0] \in Credential
         /\ [saved EXCEPT ![file] = held[p][file]] \in Credential
BY DEF TypeOK, Credential

LEMMA SelfType ==
  ASSUME NEW p \in Procs
  PROVE  Self(p) \in Procs \X BOOLEAN
<1>1. (p \in forked) \in BOOLEAN
  OBVIOUS
<1> QED
  BY <1>1 DEF Self

LEMMA SelfDistinct ==
  ASSUME NEW p \in Procs, NEW q \in Procs, p # q
  PROVE  Self(p) # Self(q)
BY Zenon DEF Self

\* What a process that ends leaves behind.
LEMMA EndsType ==
  ASSUME TypeOK, NEW p \in Procs, Ends(p)
  PROVE  /\ role' \in [Procs -> Role] /\ pc' \in [Procs -> Place]
         /\ held' \in [Procs -> Credential]
         /\ forked' \subseteq Procs /\ lock' \subseteq Procs \X BOOLEAN
BY DEF TypeOK, Ends, Moves, Role, Place, Credential, Nothing

LEMMA StepType ==
  ASSUME TypeOK, DeviceInv, [Next]_vars
  PROVE  TypeOK'
<1> USE DEF TypeOK, Role, Place, LoggingIn, Credential, Nothing, Stays, files, world
<1>1. ASSUME NEW p \in Procs, NEW kind \in Role, Launch(p, kind)
      PROVE  TypeOK'
  BY <1>1 DEF Launch, At, Moves, Goes, Accepts
<1>2. ASSUME NEW p \in Procs, instance_lock(p)
      PROVE  TypeOK'
  <2>1. CASE lock = {}
    <3>1. lock' \subseteq Procs \X BOOLEAN
      BY <1>2, <2>1, SelfType DEF instance_lock
    <3> QED
      BY <1>2, <2>1, <3>1 DEF instance_lock, Locked, Moves
  <2>2. CASE lock # {}
    BY <1>2, <2>2, EndsType DEF instance_lock
  <2> QED
    BY <2>1, <2>2
<1>3. ASSUME NEW p \in Procs, instance_daemonize(p)
      PROVE  TypeOK'
  <2>1. <<p, TRUE>> \in Procs \X BOOLEAN
    OBVIOUS
  <2> QED
    BY <1>3, <2>1 DEF instance_daemonize, Moves
<1>4. ASSUME NEW p \in Procs, ReadDevice(p)
      PROVE  TypeOK'
  <2>1. CASE saved.device # 0
    <3>1. held' = [held EXCEPT ![p].device = saved.device] /\ saved.device \in Nat
      BY <1>4, <2>1 DEF ReadDevice
    <3>2. held' \in [Procs -> Credential]
      BY <3>1
    <3> QED
      BY <1>4, <2>1, <3>2 DEF ReadDevice, Moves
  <2>2. CASE saved.device = 0
    <3>1. held' = [held EXCEPT ![p].device = lastDevice + 1]
          /\ lastDevice' = lastDevice + 1 /\ lastDevice + 1 \in Nat
      BY <1>4, <2>2 DEF ReadDevice
    <3>2. held' \in [Procs -> Credential]
      BY <3>1
    <3> QED
      BY <1>4, <2>2, <3>1, <3>2 DEF ReadDevice, Moves
  <2> QED
    BY <2>1, <2>2
<1>5. ASSUME NEW p \in Procs, CreateDevice(p)
      PROVE  TypeOK'
  BY <1>5, FileType DEF CreateDevice, write_private, Moves, Goes
<1>6. ASSUME NEW p \in Procs, ReadToken(p)
      PROVE  TypeOK'
  BY <1>6 DEF ReadToken, At, Moves, Goes, Accepts
<1>7. ASSUME NEW p \in Procs, Check(p)
      PROVE  TypeOK'
  <2>1. CASE Ends(p)
    BY <1>7, <2>1, EndsType DEF Check, Tracks
  <2>2. CASE ~Ends(p)
    BY <1>7, <2>2 DEF Check, Tracks, Goes, Moves, At
  <2> QED
    BY <2>1, <2>2
<1>8. ASSUME NEW p \in Procs, CheckRefused(p)
      PROVE  TypeOK'
  BY <1>8 DEF CheckRefused, At, Moves, Goes, Accepts
<1>9. ASSUME NEW p \in Procs, DiscardPending(p)
      PROVE  TypeOK'
  <2>1. held[p].device \in Nat \ {0}
    BY <1>9 DEF DiscardPending, At, DeviceInv, Started
  <2> QED
    BY <1>9, <2>1 DEF DiscardPending, Goes, Moves
<1>10. ASSUME NEW p \in Procs, Refuse(p)
      PROVE  TypeOK'
  <2>1. held[p].device \in Nat \ {0}
    BY <1>10 DEF Refuse, At, DeviceInv, Started
  <2>2. CASE Desktop(p)
    BY <1>10, <2>1, <2>2 DEF Refuse, Goes, Moves
  <2>3. CASE ~Desktop(p)
    BY <1>10, <2>1, <2>3, EndsType DEF Refuse
  <2> QED
    BY <2>2, <2>3
<1>11. ASSUME NEW p \in Procs, RemoveToken(p)
      PROVE  TypeOK'
  BY <1>11 DEF RemoveToken, At, Moves, Goes, Accepts
<1>12. ASSUME NEW p \in Procs, Click(p)
      PROVE  TypeOK'
  BY <1>12 DEF Click, At, Moves, Goes, Accepts
<1>13. ASSUME NEW p \in Procs, BeginLogin(p)
      PROVE  TypeOK'
  BY <1>13 DEF BeginLogin, At, Moves, Goes, Accepts
<1>14. ASSUME NEW p \in Procs, FirstPoll(p)
      PROVE  TypeOK'
  BY <1>14 DEF FirstPoll, At, Moves, Goes, Accepts
<1>15. ASSUME NEW p \in Procs, SignIn(p)
      PROVE  TypeOK'
  BY <1>15 DEF SignIn, At, Moves, Goes, Accepts
<1>16. ASSUME NEW p \in Procs, ReceiveToken(p)
      PROVE  TypeOK'
  BY <1>16 DEF ReceiveToken, At, Moves, Goes, Accepts
<1>17. ASSUME NEW p \in Procs, SaveDevice(p)
      PROVE  TypeOK'
  BY <1>17, FileType DEF SaveDevice, write_private, Moves, Goes
<1>18. ASSUME NEW p \in Procs, SaveToken(p)
      PROVE  TypeOK'
  BY <1>18, FileType DEF SaveToken, write_private, Moves, Goes
<1>19. ASSUME NEW p \in Procs, Confirm(p)
      PROVE  TypeOK'
  <2>1. CASE Ends(p)
    BY <1>19, <2>1, EndsType DEF Confirm
  <2>2. CASE ~Ends(p)
    BY <1>19, <2>2 DEF Confirm, Goes, Moves, At
  <2> QED
    BY <2>1, <2>2
<1>20. ASSUME NEW p \in Procs, LoginFails(p)
      PROVE  TypeOK'
  <2>1. CASE Ends(p)
    BY <1>20, <2>1, EndsType DEF LoginFails, GivesUp
  <2>2. CASE ~Ends(p)
    BY <1>20, <2>2 DEF LoginFails, GivesUp, Goes, Moves, At
  <2> QED
    BY <2>1, <2>2
<1>21. ASSUME NEW p \in Procs, AskLogout(p)
      PROVE  TypeOK'
  BY <1>21 DEF AskLogout, At, Moves, Goes, Accepts
<1>22. ASSUME NEW p \in Procs, DeleteSession(p)
      PROVE  TypeOK'
  BY <1>22 DEF DeleteSession, At, Moves, Goes, Accepts
<1>23. ASSUME NEW p \in Procs, ForgetLogin(p)
      PROVE  TypeOK'
  <2>1. CASE Ends(p)
    BY <1>23, <2>1, EndsType DEF ForgetLogin, GivesUp
  <2>2. CASE ~Ends(p)
    BY <1>23, <2>2 DEF ForgetLogin, GivesUp, Goes, Moves, At
  <2> QED
    BY <2>1, <2>2
<1>24. ASSUME NEW p \in Procs, Stop(p)
      PROVE  TypeOK'
  BY <1>24, EndsType DEF Stop
<1>25. CASE SignInElsewhere
  BY <1>25 DEF SignInElsewhere, At, Moves, Goes, Accepts
<1>26. CASE UNCHANGED vars
  BY <1>26 DEF vars, files, world
<1> HIDE DEF TypeOK, Role, Place, LoggingIn, Credential, Nothing, Stays, files, world
<1> QED
  BY <1>1, <1>2, <1>3, <1>4, <1>5, <1>6, <1>7, <1>8, <1>9, <1>10, <1>11, <1>12, <1>13, <1>14, <1>15, <1>16, <1>17, <1>18, <1>19, <1>20, <1>21, <1>22, <1>23, <1>24, <1>25, <1>26 DEF Next

LEMMA StepLock ==
  ASSUME TypeOK, LockInv, [Next]_vars
  PROVE  LockInv'
<1> USE DEF TypeOK, LockInv, Holds, Stays, LoggingIn, At, Moves, Goes, Ends, Self, Accepts, Desktop, files, world
<1>1. ASSUME NEW p \in Procs, NEW kind \in Role, Launch(p, kind)
      PROVE  LockInv'
  BY <1>1 DEF Launch
<1>2. ASSUME NEW p \in Procs, instance_lock(p)
      PROVE  LockInv'
  BY <1>2 DEF instance_lock, Locked
<1>3. ASSUME NEW p \in Procs, instance_daemonize(p)
      PROVE  LockInv'
  <2>1. lock = {Self(p)} /\ p \notin forked
    BY <1>3 DEF instance_daemonize
  <2>2. lock' = {<<p, TRUE>>} /\ Self(p)' = <<p, TRUE>>
    BY <1>3, <2>1 DEF instance_daemonize
  <2>3. \A q \in Procs \ {p} : ~Holds(q)
    <3> SUFFICES ASSUME NEW q \in Procs \ {p}, Self(q) \in lock PROVE FALSE
      BY DEF LockInv
    <3> QED
      BY <2>1, SelfDistinct
  <2>4. ~Desktop(p)
    BY <1>3 DEF instance_daemonize
  <2> QED
    <3>1. \A q \in Procs \ {p} : ~Holds(q)'
      BY <1>3, <2>3 DEF instance_daemonize
    <3>2. pc'[p] = "track" /\ role' = role
      BY <1>3 DEF instance_daemonize
    <3>3. \A q \in forked' : pc'[q] = "track" /\ role'[q] # "desktop"
      BY <1>3, <2>4, <3>2 DEF instance_daemonize
    <3>4. \A q \in Procs : Holds(q)' => Self(q)' \in lock'
      <4> SUFFICES ASSUME NEW q \in Procs, Holds(q)' PROVE Self(q)' \in lock'
        OBVIOUS
      <4>1. q = p
        BY <3>1
      <4> QED
        BY <2>2, <4>1
    <3>5. \A q \in Procs : pc'[q] = "detach" => role'[q] # "desktop"
      BY <1>3, <3>2 DEF instance_daemonize
    <3> QED
      BY <2>2, <3>3, <3>4, <3>5
<1>4. ASSUME NEW p \in Procs, ReadDevice(p)
      PROVE  LockInv'
  BY <1>4 DEF ReadDevice
<1>5. ASSUME NEW p \in Procs, CreateDevice(p)
      PROVE  LockInv'
  BY <1>5 DEF CreateDevice, write_private
<1>6. ASSUME NEW p \in Procs, ReadToken(p)
      PROVE  LockInv'
  BY <1>6 DEF ReadToken
<1>7. ASSUME NEW p \in Procs, Check(p)
      PROVE  LockInv'
  BY <1>7 DEF Check, Tracks
<1>8. ASSUME NEW p \in Procs, CheckRefused(p)
      PROVE  LockInv'
  BY <1>8 DEF CheckRefused
<1>9. ASSUME NEW p \in Procs, DiscardPending(p)
      PROVE  LockInv'
  BY <1>9 DEF DiscardPending
<1>10. ASSUME NEW p \in Procs, Refuse(p)
      PROVE  LockInv'
  BY <1>10 DEF Refuse
<1>11. ASSUME NEW p \in Procs, RemoveToken(p)
      PROVE  LockInv'
  BY <1>11 DEF RemoveToken
<1>12. ASSUME NEW p \in Procs, Click(p)
      PROVE  LockInv'
  BY <1>12 DEF Click
<1>13. ASSUME NEW p \in Procs, BeginLogin(p)
      PROVE  LockInv'
  BY <1>13 DEF BeginLogin
<1>14. ASSUME NEW p \in Procs, FirstPoll(p)
      PROVE  LockInv'
  BY <1>14 DEF FirstPoll
<1>15. ASSUME NEW p \in Procs, SignIn(p)
      PROVE  LockInv'
  BY <1>15 DEF SignIn
<1>16. ASSUME NEW p \in Procs, ReceiveToken(p)
      PROVE  LockInv'
  BY <1>16 DEF ReceiveToken
<1>17. ASSUME NEW p \in Procs, SaveDevice(p)
      PROVE  LockInv'
  BY <1>17 DEF SaveDevice, write_private
<1>18. ASSUME NEW p \in Procs, SaveToken(p)
      PROVE  LockInv'
  BY <1>18 DEF SaveToken, write_private
<1>19. ASSUME NEW p \in Procs, Confirm(p)
      PROVE  LockInv'
  BY <1>19 DEF Confirm
<1>20. ASSUME NEW p \in Procs, LoginFails(p)
      PROVE  LockInv'
  BY <1>20 DEF LoginFails, GivesUp
<1>21. ASSUME NEW p \in Procs, AskLogout(p)
      PROVE  LockInv'
  BY <1>21 DEF AskLogout
<1>22. ASSUME NEW p \in Procs, DeleteSession(p)
      PROVE  LockInv'
  BY <1>22 DEF DeleteSession
<1>23. ASSUME NEW p \in Procs, ForgetLogin(p)
      PROVE  LockInv'
  BY <1>23 DEF ForgetLogin, GivesUp
<1>24. ASSUME NEW p \in Procs, Stop(p)
      PROVE  LockInv'
  BY <1>24 DEF Stop
<1>25. CASE SignInElsewhere
  BY <1>25 DEF SignInElsewhere
<1>26. CASE UNCHANGED vars
  BY <1>26 DEF vars, files, world
<1> HIDE DEF TypeOK, LockInv, Holds, Stays, LoggingIn, At, Moves, Goes, Ends, Self, Accepts, Desktop, files, world
<1> QED
  BY <1>1, <1>2, <1>3, <1>4, <1>5, <1>6, <1>7, <1>8, <1>9, <1>10, <1>11, <1>12, <1>13, <1>14, <1>15, <1>16, <1>17, <1>18, <1>19, <1>20, <1>21, <1>22, <1>23, <1>24, <1>25, <1>26 DEF Next

\* A process that ends holds nothing.
LEMMA EndsDevice ==
  ASSUME TypeOK, DeviceInv, NEW p \in Procs, Ends(p), Known(saved)',
         UNCHANGED <<accepted, lastDevice>>
  PROVE  DeviceInv'
<1> USE DEF TypeOK, DeviceInv, Known, Started, Saving
<1>1. held'[p] = Nothing /\ pc'[p] = "off"
  BY DEF Ends, Moves
<1>2. \A q \in Procs \ {p} : held'[q] = held[q] /\ pc'[q] = pc[q] /\ (Desktop(q)' <=> Desktop(q))
  BY DEF Ends, Moves, Desktop
<1>3. \A q \in Procs \ {p} : Known(held[q])' /\ (Started(q)' => held'[q].device # 0)
                             /\ (pc'[q] \in Saving => held'[q].token # 0)
  BY <1>2
<1> QED
  BY <1>1, <1>3 DEF Nothing

LEMMA StepDevice ==
  ASSUME TypeOK, DeviceInv, [Next]_vars
  PROVE  DeviceInv'
<1> USE DEF TypeOK, DeviceInv, Known, Started, Saving, Credential, Nothing, Stays, LoggingIn, At, Moves, Goes, Ends, Self, Accepts, Desktop, files, world
<1>1. ASSUME NEW p \in Procs, NEW kind \in Role, Launch(p, kind)
      PROVE  DeviceInv'
  BY <1>1 DEF Launch
<1>2. ASSUME NEW p \in Procs, instance_lock(p)
      PROVE  DeviceInv'
  BY <1>2 DEF instance_lock, Locked
<1>3. ASSUME NEW p \in Procs, instance_daemonize(p)
      PROVE  DeviceInv'
  BY <1>3 DEF instance_daemonize
<1>4. ASSUME NEW p \in Procs, ReadDevice(p)
      PROVE  DeviceInv'
  <2>1. CASE saved.device # 0
    BY <1>4, <2>1 DEF ReadDevice
  <2>2. CASE saved.device = 0
    BY <1>4, <2>2 DEF ReadDevice
  <2> QED
    BY <2>1, <2>2
<1>5. ASSUME NEW p \in Procs, CreateDevice(p)
      PROVE  DeviceInv'
  <2>1. held[p].device \in Nat /\ held[p].device <= lastDevice
    BY <1>5
  <2>2. Known(saved')
    BY <1>5, <2>1 DEF CreateDevice, write_private
  <2> QED
    BY <1>5, <2>2 DEF CreateDevice, write_private
<1>6. ASSUME NEW p \in Procs, ReadToken(p)
      PROVE  DeviceInv'
  BY <1>6 DEF ReadToken
<1>7. ASSUME NEW p \in Procs, Check(p)
      PROVE  DeviceInv'
  BY <1>7 DEF Check, Tracks
<1>8. ASSUME NEW p \in Procs, CheckRefused(p)
      PROVE  DeviceInv'
  BY <1>8 DEF CheckRefused
<1>9. ASSUME NEW p \in Procs, DiscardPending(p)
      PROVE  DeviceInv'
  BY <1>9 DEF DiscardPending
<1>10. ASSUME NEW p \in Procs, Refuse(p)
      PROVE  DeviceInv'
  <2>1. CASE Desktop(p)
    BY <1>10, <2>1 DEF Refuse
  <2>2. CASE ~Desktop(p)
    BY <1>10, <2>2, EndsDevice DEF Refuse
  <2> QED
    BY <2>1, <2>2
<1>11. ASSUME NEW p \in Procs, RemoveToken(p)
      PROVE  DeviceInv'
  BY <1>11 DEF RemoveToken
<1>12. ASSUME NEW p \in Procs, Click(p)
      PROVE  DeviceInv'
  BY <1>12 DEF Click
<1>13. ASSUME NEW p \in Procs, BeginLogin(p)
      PROVE  DeviceInv'
  BY <1>13 DEF BeginLogin
<1>14. ASSUME NEW p \in Procs, FirstPoll(p)
      PROVE  DeviceInv'
  BY <1>14 DEF FirstPoll
<1>15. ASSUME NEW p \in Procs, SignIn(p)
      PROVE  DeviceInv'
  BY <1>15 DEF SignIn
<1>16. ASSUME NEW p \in Procs, ReceiveToken(p)
      PROVE  DeviceInv'
  BY <1>16 DEF ReceiveToken
<1>17. ASSUME NEW p \in Procs, SaveDevice(p)
      PROVE  DeviceInv'
  <2>1. held[p].device \in Nat /\ held[p].device <= lastDevice
    BY <1>17
  <2>2. Known(saved')
    BY <1>17, <2>1 DEF SaveDevice, write_private
  <2> QED
    BY <1>17, <2>2 DEF SaveDevice, write_private
<1>18. ASSUME NEW p \in Procs, SaveToken(p)
      PROVE  DeviceInv'
  BY <1>18 DEF SaveToken, write_private
<1>19. ASSUME NEW p \in Procs, Confirm(p)
      PROVE  DeviceInv'
  <2>1. CASE Stays(p)
    BY <1>19, <2>1 DEF Confirm
  <2>2. CASE ~Stays(p)
    BY <1>19, <2>2, EndsDevice DEF Confirm
  <2> QED
    BY <2>1, <2>2
<1>20. ASSUME NEW p \in Procs, LoginFails(p)
      PROVE  DeviceInv'
  <2>1. CASE Desktop(p)
    BY <1>20, <2>1 DEF LoginFails, GivesUp
  <2>2. CASE ~Desktop(p)
    BY <1>20, <2>2, EndsDevice DEF LoginFails, GivesUp
  <2> QED
    BY <2>1, <2>2
<1>21. ASSUME NEW p \in Procs, AskLogout(p)
      PROVE  DeviceInv'
  BY <1>21 DEF AskLogout
<1>22. ASSUME NEW p \in Procs, DeleteSession(p)
      PROVE  DeviceInv'
  BY <1>22 DEF DeleteSession
<1>23. ASSUME NEW p \in Procs, ForgetLogin(p)
      PROVE  DeviceInv'
  <2>1. CASE Desktop(p)
    BY <1>23, <2>1 DEF ForgetLogin, GivesUp
  <2>2. CASE ~Desktop(p)
    BY <1>23, <2>2 DEF ForgetLogin, GivesUp
  <2> QED
    BY <2>1, <2>2
<1>24. ASSUME NEW p \in Procs, Stop(p)
      PROVE  DeviceInv'
  BY <1>24, EndsDevice DEF Stop
<1>25. CASE SignInElsewhere
  BY <1>25 DEF SignInElsewhere
<1>26. CASE UNCHANGED vars
  BY <1>26 DEF vars, files, world
<1> HIDE DEF TypeOK, DeviceInv, Known, Started, Saving, Credential, Nothing, Stays, LoggingIn, At, Moves, Goes, Ends, Self, Accepts, Desktop, files, world
<1> QED
  BY <1>1, <1>2, <1>3, <1>4, <1>5, <1>6, <1>7, <1>8, <1>9, <1>10, <1>11, <1>12, <1>13, <1>14, <1>15, <1>16, <1>17, <1>18, <1>19, <1>20, <1>21, <1>22, <1>23, <1>24, <1>25, <1>26 DEF Next

LEMMA StepFresh ==
  ASSUME TypeOK, DeviceInv, FreshInv, [Next]_vars
  PROVE  FreshInv'
<1> USE DEF TypeOK, DeviceInv, Known, Started, Saving, FreshInv, Unsaved, Credential, Nothing, Stays, LoggingIn, At, Moves, Goes, Ends, Self, Accepts, Desktop, files, world
<1>1. ASSUME NEW p \in Procs, NEW kind \in Role, Launch(p, kind)
      PROVE  FreshInv'
  BY <1>1 DEF Launch
<1>2. ASSUME NEW p \in Procs, instance_lock(p)
      PROVE  FreshInv'
  BY <1>2 DEF instance_lock, Locked
<1>3. ASSUME NEW p \in Procs, instance_daemonize(p)
      PROVE  FreshInv'
  BY <1>3 DEF instance_daemonize
<1>4. ASSUME NEW p \in Procs, ReadDevice(p)
      PROVE  FreshInv'
  <2>1. pc'[p] \notin Unsaved /\ held'[p].token = held[p].token /\ saved' = saved
    BY <1>4 DEF ReadDevice
  <2>2. \A q \in Procs \ {p} : held'[q] = held[q] /\ pc'[q] = pc[q]
    BY <1>4 DEF ReadDevice
  <2> QED
    BY <2>1, <2>2
<1>5. ASSUME NEW p \in Procs, CreateDevice(p)
      PROVE  FreshInv'
  BY <1>5 DEF CreateDevice, write_private
<1>6. ASSUME NEW p \in Procs, ReadToken(p)
      PROVE  FreshInv'
  BY <1>6 DEF ReadToken
<1>7. ASSUME NEW p \in Procs, Check(p)
      PROVE  FreshInv'
  BY <1>7 DEF Check, Tracks
<1>8. ASSUME NEW p \in Procs, CheckRefused(p)
      PROVE  FreshInv'
  BY <1>8 DEF CheckRefused
<1>9. ASSUME NEW p \in Procs, DiscardPending(p)
      PROVE  FreshInv'
  BY <1>9 DEF DiscardPending
<1>10. ASSUME NEW p \in Procs, Refuse(p)
      PROVE  FreshInv'
  <2>1. CASE Desktop(p)
    BY <1>10, <2>1 DEF Refuse
  <2>2. CASE ~Desktop(p)
    BY <1>10, <2>2 DEF Refuse
  <2> QED
    BY <2>1, <2>2
<1>11. ASSUME NEW p \in Procs, RemoveToken(p)
      PROVE  FreshInv'
  BY <1>11 DEF RemoveToken
<1>12. ASSUME NEW p \in Procs, Click(p)
      PROVE  FreshInv'
  BY <1>12 DEF Click
<1>13. ASSUME NEW p \in Procs, BeginLogin(p)
      PROVE  FreshInv'
  BY <1>13 DEF BeginLogin
<1>14. ASSUME NEW p \in Procs, FirstPoll(p)
      PROVE  FreshInv'
  BY <1>14 DEF FirstPoll
<1>15. ASSUME NEW p \in Procs, SignIn(p)
      PROVE  FreshInv'
  BY <1>15 DEF SignIn
<1>16. ASSUME NEW p \in Procs, ReceiveToken(p)
      PROVE  FreshInv'
  BY <1>16 DEF ReceiveToken
<1>17. ASSUME NEW p \in Procs, SaveDevice(p)
      PROVE  FreshInv'
  BY <1>17 DEF SaveDevice, write_private
<1>18. ASSUME NEW p \in Procs, SaveToken(p)
      PROVE  FreshInv'
  BY <1>18 DEF SaveToken, write_private
<1>19. ASSUME NEW p \in Procs, Confirm(p)
      PROVE  FreshInv'
  <2>1. CASE Stays(p)
    BY <1>19, <2>1 DEF Confirm
  <2>2. CASE ~Stays(p)
    BY <1>19, <2>2 DEF Confirm
  <2> QED
    BY <2>1, <2>2
<1>20. ASSUME NEW p \in Procs, LoginFails(p)
      PROVE  FreshInv'
  <2>1. CASE Desktop(p)
    BY <1>20, <2>1 DEF LoginFails, GivesUp
  <2>2. CASE ~Desktop(p)
    BY <1>20, <2>2 DEF LoginFails, GivesUp
  <2> QED
    BY <2>1, <2>2
<1>21. ASSUME NEW p \in Procs, AskLogout(p)
      PROVE  FreshInv'
  BY <1>21 DEF AskLogout
<1>22. ASSUME NEW p \in Procs, DeleteSession(p)
      PROVE  FreshInv'
  BY <1>22 DEF DeleteSession
<1>23. ASSUME NEW p \in Procs, ForgetLogin(p)
      PROVE  FreshInv'
  <2>1. CASE Desktop(p)
    BY <1>23, <2>1 DEF ForgetLogin, GivesUp
  <2>2. CASE ~Desktop(p)
    BY <1>23, <2>2 DEF ForgetLogin, GivesUp
  <2> QED
    BY <2>1, <2>2
<1>24. ASSUME NEW p \in Procs, Stop(p)
      PROVE  FreshInv'
  BY <1>24 DEF Stop
<1>25. CASE SignInElsewhere
  BY <1>25 DEF SignInElsewhere
<1>26. CASE UNCHANGED vars
  BY <1>26 DEF vars, files, world
<1> HIDE DEF TypeOK, DeviceInv, Known, Started, Saving, FreshInv, Unsaved, Credential, Nothing, Stays, LoggingIn, At, Moves, Goes, Ends, Self, Accepts, Desktop, files, world
<1> QED
  BY <1>1, <1>2, <1>3, <1>4, <1>5, <1>6, <1>7, <1>8, <1>9, <1>10, <1>11, <1>12, <1>13, <1>14, <1>15, <1>16, <1>17, <1>18, <1>19, <1>20, <1>21, <1>22, <1>23, <1>24, <1>25, <1>26 DEF Next

LEMMA StepRefused ==
  ASSUME TypeOK, DeviceInv, FreshInv, RefusedInv, [Next]_vars
  PROVE  RefusedInv'
<1> USE DEF TypeOK, DeviceInv, Known, Started, Saving, FreshInv, Unsaved, RefusedInv, GivenUp, Credential, Nothing, Stays, LoggingIn, At, Moves, Goes, Ends, Self, Accepts, Desktop, files, world
<1>1. ASSUME NEW p \in Procs, NEW kind \in Role, Launch(p, kind)
      PROVE  RefusedInv'
  BY <1>1 DEF Launch
<1>2. ASSUME NEW p \in Procs, instance_lock(p)
      PROVE  RefusedInv'
  BY <1>2 DEF instance_lock, Locked
<1>3. ASSUME NEW p \in Procs, instance_daemonize(p)
      PROVE  RefusedInv'
  BY <1>3 DEF instance_daemonize
<1>4. ASSUME NEW p \in Procs, ReadDevice(p)
      PROVE  RefusedInv'
  BY <1>4 DEF ReadDevice
<1>5. ASSUME NEW p \in Procs, CreateDevice(p)
      PROVE  RefusedInv'
  BY <1>5 DEF CreateDevice, write_private
<1>6. ASSUME NEW p \in Procs, ReadToken(p)
      PROVE  RefusedInv'
  BY <1>6 DEF ReadToken
<1>7. ASSUME NEW p \in Procs, Check(p)
      PROVE  RefusedInv'
  BY <1>7 DEF Check, Tracks
<1>8. ASSUME NEW p \in Procs, CheckRefused(p)
      PROVE  RefusedInv'
  BY <1>8 DEF CheckRefused
<1>9. ASSUME NEW p \in Procs, DiscardPending(p)
      PROVE  RefusedInv'
  BY <1>9 DEF DiscardPending
<1>10. ASSUME NEW p \in Procs, Refuse(p)
      PROVE  RefusedInv'
  <2>1. CASE Desktop(p)
    BY <1>10, <2>1 DEF Refuse
  <2>2. CASE ~Desktop(p)
    BY <1>10, <2>2 DEF Refuse
  <2> QED
    BY <2>1, <2>2
<1>11. ASSUME NEW p \in Procs, RemoveToken(p)
      PROVE  RefusedInv'
  BY <1>11 DEF RemoveToken
<1>12. ASSUME NEW p \in Procs, Click(p)
      PROVE  RefusedInv'
  BY <1>12 DEF Click
<1>13. ASSUME NEW p \in Procs, BeginLogin(p)
      PROVE  RefusedInv'
  BY <1>13 DEF BeginLogin
<1>14. ASSUME NEW p \in Procs, FirstPoll(p)
      PROVE  RefusedInv'
  BY <1>14 DEF FirstPoll
<1>15. ASSUME NEW p \in Procs, SignIn(p)
      PROVE  RefusedInv'
  BY <1>15 DEF SignIn
<1>16. ASSUME NEW p \in Procs, ReceiveToken(p)
      PROVE  RefusedInv'
  BY <1>16 DEF ReceiveToken
<1>17. ASSUME NEW p \in Procs, SaveDevice(p)
      PROVE  RefusedInv'
  BY <1>17 DEF SaveDevice, write_private
<1>18. ASSUME NEW p \in Procs, SaveToken(p)
      PROVE  RefusedInv'
  BY <1>18 DEF SaveToken, write_private
<1>19. ASSUME NEW p \in Procs, Confirm(p)
      PROVE  RefusedInv'
  <2>1. CASE Stays(p)
    BY <1>19, <2>1 DEF Confirm
  <2>2. CASE ~Stays(p)
    BY <1>19, <2>2 DEF Confirm
  <2> QED
    BY <2>1, <2>2
<1>20. ASSUME NEW p \in Procs, LoginFails(p)
      PROVE  RefusedInv'
  <2>1. CASE Desktop(p)
    BY <1>20, <2>1 DEF LoginFails, GivesUp
  <2>2. CASE ~Desktop(p)
    BY <1>20, <2>2 DEF LoginFails, GivesUp
  <2> QED
    BY <2>1, <2>2
<1>21. ASSUME NEW p \in Procs, AskLogout(p)
      PROVE  RefusedInv'
  BY <1>21 DEF AskLogout
<1>22. ASSUME NEW p \in Procs, DeleteSession(p)
      PROVE  RefusedInv'
  BY <1>22 DEF DeleteSession
<1>23. ASSUME NEW p \in Procs, ForgetLogin(p)
      PROVE  RefusedInv'
  <2>1. CASE Desktop(p)
    BY <1>23, <2>1 DEF ForgetLogin, GivesUp
  <2>2. CASE ~Desktop(p)
    BY <1>23, <2>2 DEF ForgetLogin, GivesUp
  <2> QED
    BY <2>1, <2>2
<1>24. ASSUME NEW p \in Procs, Stop(p)
      PROVE  RefusedInv'
  BY <1>24 DEF Stop
<1>25. CASE SignInElsewhere
  BY <1>25 DEF SignInElsewhere
<1>26. CASE UNCHANGED vars
  BY <1>26 DEF vars, files, world
<1> HIDE DEF TypeOK, DeviceInv, Known, Started, Saving, FreshInv, Unsaved, RefusedInv, GivenUp, Credential, Nothing, Stays, LoggingIn, At, Moves, Goes, Ends, Self, Accepts, Desktop, files, world
<1> QED
  BY <1>1, <1>2, <1>3, <1>4, <1>5, <1>6, <1>7, <1>8, <1>9, <1>10, <1>11, <1>12, <1>13, <1>14, <1>15, <1>16, <1>17, <1>18, <1>19, <1>20, <1>21, <1>22, <1>23, <1>24, <1>25, <1>26 DEF Next

-----------------------------------------------------------------------------
(***************************************************************************)
(* The theorems.                                                           *)
(***************************************************************************)
LEMMA InitIInv == Init => IInv
BY DEF Init, IInv, TypeOK, LockInv, Holds, DeviceInv, Known, Started, Saving, FreshInv, Unsaved,
       RefusedInv, GivenUp, Role, Place, LoggingIn, Credential, Nothing, Desktop

LEMMA StepIInv == IInv /\ [Next]_vars => IInv'
BY StepType, StepLock, StepDevice, StepFresh, StepRefused DEF IInv

LEMMA Invariance == Spec => []IInv
BY InitIInv, StepIInv, PTL DEF Spec

\* The variables keep their types: in particular no device but a real one has
\* its rows discarded.
THEOREM TypeCorrect == Spec => []TypeOK
<1>1. IInv => TypeOK
  BY DEF IInv
<1> QED
  BY Invariance, <1>1, PTL

\* However processes start, fork and die, one of them tracks at most.
THEOREM OneInstance == Spec => []OneTracker
<1>1. ASSUME LockInv PROVE OneTracker
  <2> DEFINE Trackers == {p \in Procs : At(p, "track")}
  <2>1. \A p, q \in Trackers : p = q
    BY <1>1, SelfDistinct DEF LockInv, Holds, At
  <2>2. CASE Trackers = {}
    BY <2>2, FS_EmptySet DEF OneTracker
  <2>3. CASE Trackers # {}
    <3>1. PICK p \in Trackers : TRUE
      BY <2>3
    <3>2. Trackers = {p}
      BY <2>1, <3>1
    <3> QED
      BY <3>2, FS_Singleton DEF OneTracker
  <2> QED
    BY <2>2, <2>3
<1> QED
  BY Invariance, <1>1, PTL DEF IInv

\* Pending rows are given up for a login the server accepts only by a process
\* that holds halves of two logins.
THEOREM DiscardsAreRefusals == Spec => DiscardOnlyRefused
<1> DEFINE Justified ==
      \A d \in discarded' \ discarded :
        d = accepted =>
          \E p \in Procs : /\ pc[p] \in {"discard", "track"} /\ pc'[p] # pc[p]
                           /\ held[p].device = d /\ held[p].token # d
<1>1. ASSUME IInv, [Next]_vars
      PROVE  Justified
  <2> USE <1>1 DEF IInv, TypeOK, Credential, At, Moves, Goes, Ends
  <2>1. ASSUME NEW p \in Procs, DiscardPending(p)
        PROVE  Justified
    <3>1. pc[p] = "discard" /\ pc'[p] # pc[p] /\ discarded' = discarded \cup {held[p].device}
      BY <2>1 DEF DiscardPending
    <3>2. held[p].device = accepted => held[p].token # accepted
      BY <3>1 DEF RefusedInv, GivenUp
    <3> QED
      BY <3>1, <3>2
  <2>2. ASSUME NEW p \in Procs, Refuse(p)
        PROVE  Justified
    <3>1. pc[p] = "track" /\ pc'[p] # pc[p] /\ discarded' = discarded \cup {held[p].device}
      BY <2>2 DEF Refuse
    <3>2. held[p].device # 0
      BY <3>1 DEF DeviceInv, Started
    <3>3. held[p].device = accepted => held[p].token # accepted
      BY <2>2, <3>2 DEF Refuse, Accepts
    <3> QED
      BY <3>1, <3>3
  <2>3. ASSUME NEW p \in Procs,
               \/ instance_lock(p) \/ instance_daemonize(p) \/ ReadDevice(p) \/
                  CreateDevice(p) \/ ReadToken(p) \/ Check(p) \/ CheckRefused(p) \/
                  RemoveToken(p) \/ Click(p) \/ BeginLogin(p) \/ FirstPoll(p) \/
                  SignIn(p) \/ ReceiveToken(p) \/ SaveDevice(p) \/ SaveToken(p) \/
                  Confirm(p) \/ LoginFails(p) \/ AskLogout(p) \/ DeleteSession(p) \/
                  ForgetLogin(p) \/ Stop(p)
        PROVE  discarded' = discarded
    BY <2>3 DEF instance_lock, instance_daemonize, ReadDevice, CreateDevice, ReadToken,
        Check, CheckRefused, RemoveToken, Click, BeginLogin, FirstPoll, SignIn,
        ReceiveToken, SaveDevice, SaveToken, Confirm, LoginFails, AskLogout,
        DeleteSession, ForgetLogin, Stop, Tracks, GivesUp, Locked, write_private,
        files
  <2>4. ASSUME SignInElsewhere \/ (vars' = vars) \/ \E p \in Procs, kind \in Role : Launch(p, kind)
        PROVE  discarded' = discarded
    BY <2>4 DEF SignInElsewhere, Launch, vars, files
  <2> QED
    BY <1>1, <2>1, <2>2, <2>3, <2>4 DEF Next
<1> QED
  BY Invariance, <1>1, PTL DEF Spec, DiscardOnlyRefused

\* A process that was not asked to removes a token the server accepts only
\* when it holds another login than the saved one.
THEOREM LoginsAreKept == Spec => LoginKept
<1> DEFINE Justified ==
      Usable(saved) /\ saved'.token = 0 =>
        \E p \in Procs : /\ Removing(p)
                         /\ role[p] = "login" \/ At(p, "forget") \/ held[p] # saved
<1>1. ASSUME IInv, [Next]_vars
      PROVE  Justified
  <2> USE <1>1 DEF IInv, TypeOK, Credential, At, Moves, Goes, Ends, Usable, Removing
  <2>1. ASSUME NEW p \in Procs, RemoveToken(p)
        PROVE  Justified
    <3>1. pc[p] = "remove" /\ pc'[p] # pc[p]
      BY <2>1 DEF RemoveToken
    <3>2. Usable(saved) => role[p] = "login" \/ held[p] # saved
      BY <3>1 DEF RefusedInv, GivenUp
    <3> QED
      BY <3>1, <3>2
  <2>2. ASSUME NEW p \in Procs, ForgetLogin(p)
        PROVE  Justified
    BY <2>2 DEF ForgetLogin, GivesUp
  <2>3. ASSUME NEW p \in Procs, SaveToken(p)
        PROVE  Justified
    <3>1. CASE pc[p] = "save_token"
      <4>1. pc'[p] # pc[p]
        BY <2>3, <3>1 DEF SaveToken, write_private
      <4>2. Usable(saved) => held[p] # saved
        BY <3>1 DEF FreshInv, Unsaved
      <4> QED
        BY <3>1, <4>1, <4>2
    <3>2. CASE pc[p] = "saving_token"
      <4>1. saved'.token = held[p].token
        BY <2>3, <3>2 DEF SaveToken, write_private
      <4> QED
        BY <3>2, <4>1 DEF DeviceInv, Saving
    <3> QED
      BY <2>3, <3>1, <3>2 DEF SaveToken, write_private
  <2>4. ASSUME NEW p \in Procs, CreateDevice(p) \/ SaveDevice(p)
        PROVE  saved'.token = saved.token
    BY <2>4 DEF CreateDevice, SaveDevice, write_private
  <2>5. ASSUME NEW p \in Procs,
               \/ instance_lock(p) \/ instance_daemonize(p) \/ ReadDevice(p) \/
                  ReadToken(p) \/ Check(p) \/ CheckRefused(p) \/
                  DiscardPending(p) \/ Refuse(p) \/ Click(p) \/ BeginLogin(p) \/
                  FirstPoll(p) \/ SignIn(p) \/ ReceiveToken(p) \/ Confirm(p) \/
                  LoginFails(p) \/ AskLogout(p) \/ DeleteSession(p) \/ Stop(p)
        PROVE  saved' = saved
    BY <2>5 DEF instance_lock, instance_daemonize, ReadDevice, ReadToken, Check,
        CheckRefused, DiscardPending, Refuse, Click, BeginLogin, FirstPoll, SignIn,
        ReceiveToken, Confirm, LoginFails, AskLogout, DeleteSession, Stop, Tracks,
        GivesUp, Locked, files
  <2>6. ASSUME SignInElsewhere \/ (vars' = vars) \/ \E p \in Procs, kind \in Role : Launch(p, kind)
        PROVE  saved' = saved
    BY <2>6 DEF SignInElsewhere, Launch, vars, files
  <2> QED
    BY <1>1, <2>1, <2>2, <2>3, <2>4, <2>5, <2>6 DEF Next
<1> QED
  BY Invariance, <1>1, PTL DEF Spec, LoginKept
==============================================================================
