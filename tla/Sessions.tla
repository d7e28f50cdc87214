------------------------------- MODULE Sessions -------------------------------
(***************************************************************************)
(* The server's sign-in state (src/server/auth.ts, cache.ts and the routes *)
(* of app.ts that use them): the table users, the cache of sessions in the *)
(* memory of the one server process, and the handlers that poll for a      *)
(* token, complete an OAuth callback, check a session and log out.         *)
(*                                                                         *)
(* Node runs one handler at a time, but a handler gives way at every       *)
(* await: each step below runs from one await to the next.  A query is one *)
(* statement of PostgreSQL; the transaction of the callback reads first    *)
(* and writes later, and the writes fail as a whole when they break one of *)
(* the table's UNIQUE constraints.                                         *)
(*                                                                         *)
(* config.authToken, one fixed token for development, is taken to be       *)
(* unset.  A token is drawn afresh by each callback, and is paired with    *)
(* one device.                                                             *)
(***************************************************************************)
EXTENDS Integers, FiniteSets

CONSTANTS
  Devices,      \* device ids
  Accounts,     \* Mezon ids
  Workers,      \* requests in progress at one time
  TTL,          \* lifetime of a cache entry
  MaxEntries,   \* entries the cache holds
  MaxDelay,     \* bound: how long a query of the session check takes, in ticks
  MaxUsers,     \* bound: rows ever inserted
  MaxTokens,    \* bound: tokens issued
  MaxTime       \* bound: the last tick

ASSUME SessionsAssumption ==
  /\ {TTL, MaxDelay, MaxUsers, MaxTokens, MaxTime} \subseteq Nat
  /\ MaxEntries \in Nat \ {0}

NoAccount == "none"
NoToken == 0

ASSUME AccountsAssumption == NoAccount \notin Accounts

VARIABLES
  users,        \* the rows of the table
  lastUser, lastToken,
  cache,        \* TtlCache<SessionUser>: its entries
  task,         \* where each request in progress is, and what it has read
  now,
  ended,        \* tokens that are no longer valid, when they ended, and whether
                \* the request that ended them has been answered
  answer        \* an observer's note of the answer the last step gave

vars == <<users, lastUser, lastToken, cache, task, now, ended, answer>>

UserId == Nat \ {0}
Token == Nat \ {0}

UserRecord == [id : UserId, device : Devices, mezon : Accounts \cup {NoAccount},
               token : Token \cup {NoToken}]

CacheItem == [device : Devices, user : UserId, token : Token, expires : Nat]

Task ==
  [step : {"idle"}] \cup
  [step : {"resume"}, device : Devices, token : Token, goal : {"serve", "logout"},
   row : SUBSET UserRecord, since : Nat, dead : SUBSET Token] \cup
  [step : {"revoke"}, user : UserId] \cup
  [step : {"create"}, device : Devices] \cup
  [step : {"polled"}, token : Token \cup {NoToken}, dead : SUBSET Token] \cup
  [step : {"exchange"}, device : Devices, user : UserId] \cup
  [step : {"profile"}, device : Devices, user : UserId, account : Accounts,
   token : Token] \cup
  [step : {"commit"}, device : Devices, user : UserId, account : Accounts,
   token : Token, existing : SUBSET UserId] \cup
  [step : {"clear"}, ends : SUBSET Token]

Idle == [step |-> "idle"]

\* kind: what answered.  stale: the token had been ended, and that answered,
\* before the request began.  age: for how long it has been invalid.
Answer == [kind : {"none", "session", "poll"}, stale : BOOLEAN, age : Nat]
NoAnswer == [kind |-> "none", stale |-> FALSE, age |-> 0]

TypeOK ==
  /\ users \subseteq UserRecord
  /\ lastUser \in Nat /\ lastToken \in Nat
  /\ cache \subseteq CacheItem
  /\ task \in [Workers -> Task]
  /\ now \in Nat
  /\ ended \subseteq [token : Token, at : Nat, answered : BOOLEAN]
  /\ answer \in Answer
  /\ \A u, v \in users : u.id = v.id \/ u.device = v.device => u = v
  /\ \A e, f \in cache : e.device = f.device => e = f
  /\ Cardinality(cache) <= MaxEntries

Init ==
  /\ users = {} /\ lastUser = 0 /\ lastToken = 0
  /\ cache = {}
  /\ task = [w \in Workers |-> Idle]
  /\ now = 0 /\ ended = {} /\ answer = NoAnswer

-----------------------------------------------------------------------------
\* What the steps have in common.
Goes(w, t) == task' = [task EXCEPT ![w] = t]

\* Tokens whose end has been answered.
Dead == {e.token : e \in {x \in ended : x.answered}}

Age(token) ==
  LET past == {e \in ended : e.token = token}
  IN  IF past = {} THEN 0 ELSE now - (CHOOSE e \in past : TRUE).at

Note(kind, token, dead) ==
  answer' = [kind |-> kind, stale |-> token \in dead, age |-> Age(token)]

Silent == answer' = NoAnswer

\* The users table changes; the tokens that were in it and no longer are end.
Lost(after) == {u.token : u \in users} \ ({u.token : u \in after} \cup {NoToken})

Write(after) ==
  /\ users' = after
  /\ ended' = ended \cup {[token |-> t, at |-> now, answered |-> FALSE] : t \in Lost(after)}

\* Mutants: the constraints are missing.
DeviceNotUnique(others, device) == FALSE
MezonNotUnique(others, account) == FALSE

\* UNIQUE (device_id), UNIQUE (mezon_id): what a written row must not share
\* with another one.
DeviceTaken(others, device) == \E u \in others : u.device = device
MezonTaken(others, account) == \E u \in others : u.mezon = account

-----------------------------------------------------------------------------
(***************************************************************************)
(* TtlCache.  get drops an expired entry; a hit becomes the youngest entry *)
(* but keeps its expiry.  set may push out older entries; which one is     *)
(* oldest is left open.                                                    *)
(***************************************************************************)
\* Mutant: the expiry is not looked at.
LiveForever(device) == {e \in cache : e.device = device}

Live(device) == {e \in cache : e.device = device /\ e.expires > now}

Get(device) == {e \in cache : e.device # device} \cup Live(device)

SetEntry(device, user, token) ==
  LET others == {e \in cache : e.device # device}
      fresh  == [device |-> device, user |-> user, token |-> token,
                 expires |-> now + TTL]
  IN  IF Cardinality(others) < MaxEntries
      THEN cache' = others \cup {fresh}
      ELSE \E oldest \in others : cache' = (others \ {oldest}) \cup {fresh}

-----------------------------------------------------------------------------
(***************************************************************************)
(* session, and what the routes do once it returns: a heartbeat or a name  *)
(* is served, or the DELETE route calls logout.                            *)
(***************************************************************************)
Accept(w, user, token, goal, dead) ==
  /\ Note("session", token, dead)
  /\ Goes(w, IF goal = "logout" THEN [step |-> "revoke", user |-> user] ELSE Idle)

\* A cached session with this token is accepted as it is.
SessionCached(w, device, token, goal) ==
  /\ task[w].step = "idle"
  /\ \E e \in Live(device) :
       /\ e.token = token
       /\ Accept(w, e.user, token, goal, Dead)
  /\ cache' = Get(device)
  /\ UNCHANGED <<users, lastUser, lastToken, now, ended>>

\* Otherwise the row of the device is read.
SessionFind(w, device, token, goal) ==
  /\ task[w].step = "idle"
  /\ \A e \in Live(device) : e.token # token
  /\ cache' = Get(device)
  /\ Goes(w, [step |-> "resume", device |-> device, token |-> token, goal |-> goal,
              row |-> {u \in users : u.device = device}, since |-> now,
              dead |-> Dead])
  /\ Silent
  /\ UNCHANGED <<users, lastUser, lastToken, now, ended>>

\* The query is answered: the session is cached and accepted, or refused.
SessionResume(w) ==
  /\ task[w].step = "resume"
  /\ LET t == task[w]
         row == {u \in t.row : u.token = t.token}
     IN  \/ /\ row = {}
            /\ Goes(w, Idle)
            /\ UNCHANGED cache /\ Silent
         \/ \E u \in row :
              /\ SetEntry(t.device, u.id, u.token)
              /\ Accept(w, u.id, t.token, t.goal, t.dead)
  /\ UNCHANGED <<users, lastUser, lastToken, now, ended>>

\* Mutant: only the cache is cleared.
LogoutClearsOnly(w) ==
  /\ task[w].step = "revoke"
  /\ LET after == {IF u.id = task[w].user THEN [u EXCEPT !.token = NoToken] ELSE u :
                     u \in users}
     IN  /\ ended' = ended \cup {[token |-> t, at |-> now, answered |-> FALSE] :
                                   t \in Lost(after)}
         /\ Goes(w, [step |-> "clear", ends |-> Lost(after)])
  /\ Silent
  /\ UNCHANGED <<users, lastUser, lastToken, cache, now>>

\* logout: the token of the account's row is removed, whichever it is.
LogoutRevoke(w) ==
  /\ task[w].step = "revoke"
  /\ LET after == {IF u.id = task[w].user THEN [u EXCEPT !.token = NoToken] ELSE u :
                     u \in users}
     IN  Write(after) /\ Goes(w, [step |-> "clear", ends |-> Lost(after)])
  /\ Silent
  /\ UNCHANGED <<lastUser, lastToken, cache, now>>

\* The cache is emptied and the logout or the callback is answered.
Clear(w) ==
  /\ task[w].step = "clear"
  /\ cache' = {}
  /\ ended' = {IF e.token \in task[w].ends THEN [e EXCEPT !.answered = TRUE] ELSE e :
                 e \in ended}
  /\ Goes(w, Idle)
  /\ Silent
  /\ UNCHANGED <<users, lastUser, lastToken, now>>

-----------------------------------------------------------------------------
(***************************************************************************)
(* poll: ensureUser finds or inserts the device's row, and the token found *)
(* is the answer.                                                          *)
(***************************************************************************)
PollFind(w, device) ==
  /\ task[w].step = "idle"
  /\ LET row == {u \in users : u.device = device}
     IN  \/ row = {} /\ Goes(w, [step |-> "create", device |-> device])
         \/ \E u \in row : Goes(w, [step |-> "polled", token |-> u.token,
                                    dead |-> Dead])
  /\ Silent
  /\ UNCHANGED <<users, lastUser, lastToken, cache, now, ended>>

\* users.save: the INSERT fails when another request inserted the device
\* meanwhile.  A new row has no token to answer with.
PollCreate(w) ==
  /\ task[w].step = "create"
  /\ lastUser < MaxUsers
  /\ IF DeviceTaken(users, task[w].device)
     THEN UNCHANGED <<users, lastUser, ended>>
     ELSE /\ lastUser' = lastUser + 1
          /\ Write(users \cup {[id |-> lastUser + 1, device |-> task[w].device,
                                mezon |-> NoAccount, token |-> NoToken]})
  /\ Goes(w, Idle)
  /\ Silent
  /\ UNCHANGED <<lastToken, cache, now>>

\* last_seen_at is updated and the token read before is returned.
PollAnswer(w) ==
  /\ task[w].step = "polled"
  /\ IF task[w].token = NoToken THEN Silent
     ELSE Note("poll", task[w].token, task[w].dead)
  /\ Goes(w, Idle)
  /\ UNCHANGED <<users, lastUser, lastToken, cache, now, ended>>

-----------------------------------------------------------------------------
(***************************************************************************)
(* callback: the device's row is looked up, the code is exchanged for a    *)
(* token and a profile, and one transaction gives device and token to the  *)
(* row of the account, or to the device's row when the account is new.     *)
(***************************************************************************)
CallbackFind(w, device) ==
  /\ task[w].step = "idle"
  /\ \E u \in users :
       /\ u.device = device
       /\ Goes(w, [step |-> "exchange", device |-> device, user |-> u.id])
  /\ Silent
  /\ UNCHANGED <<users, lastUser, lastToken, cache, now, ended>>

\* exchangeCode and fetchProfile: the person signed in with some account.
CallbackExchange(w) ==
  /\ task[w].step = "exchange"
  /\ lastToken < MaxTokens
  /\ lastToken' = lastToken + 1
  /\ \E account \in Accounts :
       Goes(w, [step |-> "profile", device |-> task[w].device, user |-> task[w].user,
                account |-> account, token |-> lastToken + 1])
  /\ Silent
  /\ UNCHANGED <<users, lastUser, cache, now, ended>>

\* manager.findOne by mezonId.
CallbackExisting(w) ==
  /\ task[w].step = "profile"
  /\ LET t == task[w]
     IN  Goes(w, [step |-> "commit", device |-> t.device, user |-> t.user,
                  account |-> t.account, token |-> t.token,
                  existing |-> {u.id : u \in {v \in users : v.mezon = t.account}}])
  /\ Silent
  /\ UNCHANGED <<users, lastUser, lastToken, cache, now, ended>>

\* The account's row takes over the device and the token, and the row of the
\* device, when it is another one, is deleted.
CallbackCommit(w) ==
  /\ task[w].step = "commit"
  /\ LET t == task[w]
         target == IF t.existing = {} THEN {t.user} ELSE t.existing
         kept == {u \in users : u.id \in target \/ u.id # t.user}
         others == {u \in kept : u.id \notin target}
         after == others \cup
                  {[u EXCEPT !.device = t.device, !.mezon = t.account, !.token = t.token] :
                     u \in kept \ others}
     IN  IF kept # others /\ (DeviceTaken(others, t.device) \/ MezonTaken(others, t.account))
         THEN UNCHANGED <<users, ended>> /\ Goes(w, Idle)
         ELSE Write(after) /\ Goes(w, [step |-> "clear", ends |-> Lost(after)])
  /\ Silent
  /\ UNCHANGED <<lastUser, lastToken, cache, now>>

-----------------------------------------------------------------------------
\* A query or a call to the identity provider fails, or a write was committed
\* but its acknowledgement is lost ("clear"); the request is answered with an
\* error.
Fail(w) ==
  /\ task[w].step # "idle"
  /\ Goes(w, Idle)
  /\ Silent
  /\ UNCHANGED <<users, lastUser, lastToken, cache, now, ended>>

\* The server process is restarted: requests and cache are gone.
Restart ==
  /\ task' = [w \in Workers |-> Idle]
  /\ cache' = {}
  /\ Silent
  /\ UNCHANGED <<users, lastUser, lastToken, now, ended>>

Tick ==
  /\ now < MaxTime
  /\ \A w \in Workers : task[w].step = "resume" => now < task[w].since + MaxDelay
  /\ now' = now + 1
  /\ Silent
  /\ UNCHANGED <<users, lastUser, lastToken, cache, task, ended>>

Next ==
  \/ \E w \in Workers, device \in Devices :
       \/ PollFind(w, device) \/ CallbackFind(w, device)
       \/ \E token \in 1 .. lastToken, goal \in {"serve", "logout"} :
            SessionCached(w, device, token, goal) \/ SessionFind(w, device, token, goal)
  \/ \E w \in Workers :
       \/ SessionResume(w) \/ LogoutRevoke(w) \/ Clear(w)
       \/ PollCreate(w) \/ PollAnswer(w)
       \/ CallbackExchange(w) \/ CallbackExisting(w) \/ CallbackCommit(w)
       \/ Fail(w)
  \/ Restart \/ Tick

Spec == Init /\ [][Next]_vars

-----------------------------------------------------------------------------
(***************************************************************************)
(* Properties.                                                             *)
(***************************************************************************)
\* However requests interleave, a token that was replaced or revoked is not
\* accepted for longer than a cache entry lives and the query that filled it
\* took.
StaleSessionExpires ==
  answer.kind = "session" => answer.age <= TTL + MaxDelay

\* server/test/auth.test.ts, "revokes the persisted token so a new login poll
\* cannot reuse it": a poll that began after the logout, or the login that
\* replaced the token, was answered does not hand the token out.
\* server/README.md:34 says the opposite of the code: it calls DELETE
\* /api/0/auth a no-op that returns success, after which a poll would hand the
\* token out (LogoutClearsOnly).  The code and its test revoke the token.
RevokedTokenNotPolled ==
  answer.kind = "poll" => ~answer.stale

\* auth.ts, in callback: the account "must not [...] retain multiple
\* sessions": two rows never hold tokens of one account, even when two
\* devices complete their first sign-in at the same time.
OneSessionPerAccount ==
  \A u, v \in users : u.mezon # NoAccount /\ u.mezon = v.mezon => u = v

\* server/test/auth.test.ts, "replaces the previous device and token and
\* invalidates its cached session": once the login or logout that ends a
\* token has been answered, a request that begins later is not accepted with it.
ReplacedSessionRefused ==
  answer.kind = "session" => ~answer.stale
=============================================================================
