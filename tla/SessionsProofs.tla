---------------------------- MODULE SessionsProofs ----------------------------
(***************************************************************************)
(* Theorems about Sessions, for every set of devices, accounts and         *)
(* requests and every value of the other constants.                        *)
(***************************************************************************)
EXTENDS Sessions, FiniteSetTheorems, TLAPS

EndedToken == [token : Token, at : Nat, answered : BOOLEAN]

\* What the steps need to keep the types: ids are drawn upwards, the cache is
\* finite, and a token ends in the past.
TypeInv ==
  /\ TypeOK
  /\ IsFiniteSet(cache)
  /\ \A u \in users : u.id <= lastUser
  /\ \A x \in ended : x.at <= now

\* The rows a callback found for its account are one row at most.
AccountInv ==
  /\ OneSessionPerAccount
  /\ \A w \in Workers : task[w].step = "commit" =>
       \A a, b \in task[w].existing : a = b

\* A callback that holds a new token.
Holds(w) == task[w].step \in {"profile", "commit"}

\* A token is drawn once, stored once, and does not come back once it ended.
TokenInv ==
  /\ \A u \in users : u.token <= lastToken
  /\ \A x \in ended : x.token <= lastToken /\ \A u \in users : u.token # x.token
  /\ \A w \in Workers : Holds(w) =>
       /\ task[w].token <= lastToken
       /\ \A u \in users : u.token # task[w].token
       /\ \A x \in ended : x.token # task[w].token
       /\ \A v \in Workers : v # w /\ Holds(v) => task[v].token # task[w].token
  /\ \A w \in Workers : task[w].step = "polled" => task[w].token \notin task[w].dead

\* When a row was read its token had not ended, and a cache entry does not
\* outlive the end of its token by more than its lifetime and the query.
ClockInv ==
  /\ \A e \in cache : e.expires <= now + TTL
  /\ \A e \in cache, x \in ended : x.token = e.token => e.expires <= x.at + TTL + MaxDelay
  /\ \A w \in Workers : task[w].step = "resume" =>
       /\ task[w].since <= now /\ now <= task[w].since + MaxDelay
       /\ \A u \in task[w].row, x \in ended : x.token = u.token => task[w].since <= x.at

-----------------------------------------------------------------------------
(***************************************************************************)
(* Lemmas about the operators.                                             *)
(***************************************************************************)
\* The task of a request has the fields of its step.
LEMMA TaskKinds ==
  ASSUME NEW t \in Task
  PROVE  /\ t.step = "resume" =>
              /\ t.device \in Devices /\ t.token \in Token /\ t.row \subseteq UserRecord
              /\ t.since \in Nat /\ t.dead \subseteq Token /\ t.goal \in {"serve", "logout"}
         /\ t.step = "revoke" => t.user \in UserId
         /\ t.step = "create" => t.device \in Devices
         /\ t.step = "polled" => t.token \in Token \cup {NoToken} /\ t.dead \subseteq Token
         /\ t.step = "exchange" => t.device \in Devices /\ t.user \in UserId
         /\ t.step \in {"profile", "commit"} =>
              /\ t.device \in Devices /\ t.user \in UserId /\ t.account \in Accounts
              /\ t.token \in Token
         /\ t.step = "commit" => t.existing \subseteq UserId
         /\ t.step = "clear" => t.ends \subseteq Token
BY DEF Task

\* For how long a token has been invalid.
LEMMA AgeBound ==
  ASSUME TypeInv, NEW token
  PROVE  /\ Age(token) \in Nat
         /\ \A bound \in Nat :
              (\A x \in ended : x.token = token => now - x.at <= bound) => Age(token) <= bound
<1> DEFINE past == {e \in ended : e.token = token}
           chosen == CHOOSE e \in past : TRUE
<1>1. Age(token) = IF past = {} THEN 0 ELSE now - chosen.at
  BY DEF Age
<1>2. CASE past = {}
  BY <1>1, <1>2
<1>3. CASE past # {}
  <2>1. chosen \in past
    BY <1>3
  <2>2. chosen \in ended /\ chosen.token = token
    BY <2>1
  <2>3. chosen.at \in Nat /\ now \in Nat /\ chosen.at <= now
    BY <2>2 DEF TypeInv, TypeOK
  <2>4. Age(token) = now - chosen.at
    BY <1>1, <1>3
  <2> HIDE DEF chosen, past
  <2> QED
    BY <2>2, <2>3, <2>4
<1> QED
  BY <1>2, <1>3

LEMMA NoteAnswer ==
  ASSUME TypeInv, NEW kind \in {"session", "poll"}, NEW token, NEW dead, Note(kind, token, dead)
  PROVE  /\ answer' \in Answer
         /\ answer'.kind = kind /\ answer'.age = Age(token)
         /\ token \notin dead => ~answer'.stale
<1>1. Age(token) \in Nat
  BY AgeBound
<1>2. answer' = [kind |-> kind, stale |-> token \in dead, age |-> Age(token)]
  BY DEF Note
<1>3. (token \in dead) \in BOOLEAN
  OBVIOUS
<1>4. answer' \in Answer
  BY <1>1, <1>2, <1>3, Zenon DEF Answer
<1>5. answer'.kind = kind /\ answer'.age = Age(token)
  BY <1>2
<1>6. answer'.stale <=> token \in dead
  BY <1>2, Zenon
<1> QED
  BY <1>4, <1>5, <1>6

LEMMA SilentAnswer ==
  ASSUME Silent
  PROVE  answer' \in Answer /\ answer'.kind = "none"
BY DEF Silent, NoAnswer, Answer

\* What a write to the table does to the tokens that ended.
LEMMA WriteEffect ==
  ASSUME TypeInv, NEW after, Write(after), after \subseteq UserRecord
  PROVE  /\ users' = after /\ ended' \subseteq EndedToken /\ ended \subseteq ended'
         /\ Lost(after) \subseteq Token
         /\ \A t \in Lost(after) : /\ \E u \in users : u.token = t
                                   /\ \A a \in after : a.token # t
         /\ \A x \in ended' : x \in ended \/ (x.at = now /\ ~x.answered /\ x.token \in Lost(after))
<1>1. Lost(after) \subseteq Token
  BY DEF Lost, TypeInv, TypeOK, UserRecord
<1>2. \A t \in Lost(after) : /\ \E u \in users : u.token = t
                             /\ \A a \in after : a.token # t
  BY DEF Lost
<1>3. users' = after
      /\ ended' = ended \cup {[token |-> t, at |-> now, answered |-> FALSE] : t \in Lost(after)}
  BY DEF Write
<1>4. \A t \in Lost(after) :
        LET x == [token |-> t, at |-> now, answered |-> FALSE]
        IN  x \in EndedToken /\ x.at = now /\ ~x.answered /\ x.token \in Lost(after)
  BY <1>1 DEF TypeInv, TypeOK, EndedToken
<1>5. ended \subseteq EndedToken
  BY DEF TypeInv, TypeOK, EndedToken
<1> HIDE DEF Lost
<1> QED
  BY <1>1, <1>2, <1>3, <1>4, <1>5, Zenon

LEMMA GetShrinks ==
  ASSUME NEW device
  PROVE  Get(device) \subseteq cache
BY DEF Get, Live

\* An entry is put in, and others may be pushed out.
LEMMA SetEffect ==
  ASSUME TypeInv, NEW device \in Devices, NEW user \in UserId, NEW token \in Token,
         SetEntry(device, user, token)
  PROVE  \E fresh \in CacheItem :
           /\ fresh.device = device /\ fresh.token = token /\ fresh.expires = now + TTL
           /\ \A e \in cache' : e = fresh \/ (e \in cache /\ e.device # device)
           /\ IsFiniteSet(cache') /\ Cardinality(cache') <= MaxEntries
<1> DEFINE others == {e \in cache : e.device # device}
           fresh == [device |-> device, user |-> user, token |-> token, expires |-> now + TTL]
<1>1. fresh \in CacheItem /\ fresh.device = device /\ fresh.token = token
      /\ fresh.expires = now + TTL
  BY SessionsAssumption DEF CacheItem, TypeInv, TypeOK
<1>2. others \subseteq cache
  OBVIOUS
<1>3. /\ IsFiniteSet(others) /\ Cardinality(others) \in Nat
      /\ Cardinality(others) <= MaxEntries /\ MaxEntries \in Nat /\ MaxEntries > 0
  <2>1. IsFiniteSet(cache) /\ Cardinality(cache) <= MaxEntries /\ MaxEntries \in Nat \ {0}
    BY SessionsAssumption DEF TypeInv, TypeOK
  <2>2. IsFiniteSet(others) /\ Cardinality(others) <= Cardinality(cache)
    BY <1>2, <2>1, FS_Subset
  <2>3. Cardinality(cache) \in Nat /\ Cardinality(others) \in Nat
    BY <2>1, <2>2, FS_CardinalityType
  <2> HIDE DEF others
  <2> QED
    BY <2>1, <2>2, <2>3
<1>4. \/ Cardinality(others) < MaxEntries /\ cache' = others \cup {fresh}
      \/ \E oldest \in others : cache' = (others \ {oldest}) \cup {fresh}
  BY DEF SetEntry
<1>5. \A e \in others : e \in cache /\ e.device # device
  OBVIOUS
<1> HIDE DEF others, fresh
<1>6. \A S : IsFiniteSet(S) /\ Cardinality(S) \in Nat /\ Cardinality(S) < MaxEntries =>
        IsFiniteSet(S \cup {fresh}) /\ Cardinality(S \cup {fresh}) <= MaxEntries
  <2> SUFFICES ASSUME NEW S, IsFiniteSet(S), Cardinality(S) \in Nat, Cardinality(S) < MaxEntries
               PROVE  IsFiniteSet(S \cup {fresh}) /\ Cardinality(S \cup {fresh}) <= MaxEntries
    OBVIOUS
  <2>1. /\ IsFiniteSet(S \cup {fresh})
        /\ Cardinality(S \cup {fresh}) = Cardinality(S) \/ Cardinality(S \cup {fresh}) = Cardinality(S) + 1
    BY FS_AddElement
  <2> QED
    BY <1>3, <2>1
<1>7. CASE Cardinality(others) < MaxEntries /\ cache' = others \cup {fresh}
  BY <1>1, <1>3, <1>5, <1>6, <1>7
<1>8. CASE \E oldest \in others : cache' = (others \ {oldest}) \cup {fresh}
  <2>1. PICK oldest \in others : cache' = (others \ {oldest}) \cup {fresh}
    BY <1>8
  <2>2. IsFiniteSet(others \ {oldest}) /\ Cardinality(others \ {oldest}) = Cardinality(others) - 1
    BY <1>3, FS_RemoveElement
  <2>3. Cardinality(others \ {oldest}) \in Nat
    BY <2>2, FS_CardinalityType
  <2>4. IsFiniteSet(cache') /\ Cardinality(cache') <= MaxEntries
    BY <1>3, <1>6, <2>1, <2>2, <2>3
  <2> QED
    BY <1>1, <1>5, <2>1, <2>4
<1> QED
  BY <1>4, <1>7, <1>8

-----------------------------------------------------------------------------
(***************************************************************************)
(* What the three writes do to the table.                                  *)
(***************************************************************************)
\* The INSERT of a poll adds a row without a token, or fails.
LEMMA CreateEffect ==
  ASSUME TypeInv, NEW w \in Workers, PollCreate(w)
  PROVE  \/ UNCHANGED <<users, lastUser, ended>>
         \/ \E new \in UserRecord :
              /\ users' = users \cup {new} /\ Write(users \cup {new})
              /\ new.id = lastUser + 1 /\ lastUser' = lastUser + 1
              /\ new.mezon = NoAccount /\ new.token = NoToken
              /\ \A u \in users : u.device # new.device
<1> DEFINE new == [id |-> lastUser + 1, device |-> task[w].device, mezon |-> NoAccount,
                   token |-> NoToken]
<1>1. task[w] \in Task /\ task[w].step = "create" /\ lastUser \in Nat
  BY DEF TypeInv, TypeOK, PollCreate
<1>2. new \in UserRecord
  BY <1>1, TaskKinds DEF UserRecord, UserId
<1>3. CASE DeviceTaken(users, task[w].device)
  BY <1>3 DEF PollCreate
<1>4. CASE ~DeviceTaken(users, task[w].device)
  <2>1. Write(users \cup {new}) /\ lastUser' = lastUser + 1
    BY <1>4 DEF PollCreate
  <2>2. \A u \in users : u.device # new.device
    BY <1>4 DEF DeviceTaken
  <2>3. users' = users \cup {new}
    BY <2>1 DEF Write
  <2> QED
    BY <1>2, <2>1, <2>2, <2>3
<1> QED
  BY <1>3, <1>4

\* A row after a logout: only its token can have gone.
Revoked(u, user) == IF u.id = user THEN [u EXCEPT !.token = NoToken] ELSE u

LEMMA RevokeEffect ==
  ASSUME TypeInv, NEW w \in Workers, LogoutRevoke(w)
  PROVE  \E after \in SUBSET UserRecord :
           /\ Write(after) /\ users' = after
           /\ \A a \in after : \E u \in users :
                /\ a = Revoked(u, task[w].user)
                /\ a.id = u.id /\ a.device = u.device /\ a.mezon = u.mezon
                /\ a.token \in {u.token, NoToken}
           /\ Goes(w, [step |-> "clear", ends |-> Lost(after)])
<1> DEFINE after == {Revoked(u, task[w].user) : u \in users}
<1>1. Write(after) /\ Goes(w, [step |-> "clear", ends |-> Lost(after)])
  BY DEF LogoutRevoke, Revoked
<1>2. \A u \in users :
        LET a == Revoked(u, task[w].user)
        IN  /\ a \in UserRecord /\ a.id = u.id /\ a.device = u.device /\ a.mezon = u.mezon
            /\ a.token \in {u.token, NoToken}
  BY DEF Revoked, TypeInv, TypeOK, UserRecord
<1>3. \A a \in after : \E u \in users :
        /\ a = Revoked(u, task[w].user)
        /\ a.id = u.id /\ a.device = u.device /\ a.mezon = u.mezon
        /\ a.token \in {u.token, NoToken}
  BY <1>2
<1>4. after \in SUBSET UserRecord
  BY <1>2
<1>5. users' = after
  BY <1>1 DEF Write
<1> QED
  BY <1>1, <1>3, <1>4, <1>5

\* The row of the account after a callback.
LEMMA CommitEffect ==
  ASSUME TypeInv, AccountInv, NEW w \in Workers, CallbackCommit(w)
  PROVE  \/ UNCHANGED <<users, ended>> /\ Goes(w, Idle)
         \/ \E others \in SUBSET users, new \in SUBSET UserRecord :
              /\ users' = others \cup new /\ Write(others \cup new)
              /\ Goes(w, [step |-> "clear", ends |-> Lost(others \cup new)])
              /\ \A a, b \in new : a = b
              /\ \A n \in new :
                   /\ n.token = task[w].token /\ n.mezon = task[w].account
                   /\ \E u \in users \ others : n.id = u.id
                   /\ \A o \in others : o.device # n.device /\ o.mezon # n.mezon
<1> DEFINE t == task[w]
           target == IF t.existing = {} THEN {t.user} ELSE t.existing
           kept == {u \in users : u.id \in target \/ u.id # t.user}
           others == {u \in kept : u.id \notin target}
           Signed(u) == [u EXCEPT !.device = t.device, !.mezon = t.account, !.token = t.token]
           new == {Signed(u) : u \in kept \ others}
           taken == DeviceTaken(others, t.device) \/ MezonTaken(others, t.account)
<1>1. /\ t.step = "commit" /\ t \in Task /\ users \subseteq UserRecord
      /\ \A u, v \in users : u.id = v.id => u = v
  BY DEF TypeInv, TypeOK, CallbackCommit
<1>2. /\ t.device \in Devices /\ t.account \in Accounts /\ t.token \in Token
      /\ \A a, b \in target : a = b
  BY <1>1, TaskKinds DEF AccountInv
<1>3. \A u \in users : /\ Signed(u) \in UserRecord /\ Signed(u).id = u.id
                       /\ Signed(u).device = t.device /\ Signed(u).mezon = t.account
                       /\ Signed(u).token = t.token
  BY <1>1, <1>2 DEF UserRecord
<1>4. \/ UNCHANGED <<users, ended>> /\ Goes(w, Idle)
      \/ /\ ~(kept # others /\ taken)
         /\ Write(others \cup new)
         /\ Goes(w, [step |-> "clear", ends |-> Lost(others \cup new)])
  BY Zenon DEF CallbackCommit
<1>5. others \in SUBSET users /\ new \in SUBSET UserRecord
  BY <1>3
<1>6. \A u, v \in kept \ others : u = v
  BY <1>1, <1>2
<1>7. \A a, b \in new : a = b
  <2> SUFFICES ASSUME NEW u \in kept \ others, NEW v \in kept \ others
               PROVE  Signed(u) = Signed(v)
    OBVIOUS
  <2> HIDE DEF kept, others
  <2> QED
    BY <1>6
<1>8. ASSUME ~(kept # others /\ taken), NEW n \in new
      PROVE  /\ n.token = t.token /\ n.mezon = t.account
             /\ \E u \in users \ others : n.id = u.id
             /\ \A o \in others : o.device # n.device /\ o.mezon # n.mezon
  <2>1. PICK u \in kept \ others : n = Signed(u)
    OBVIOUS
  <2>2. u \in users \ others /\ kept # others
    OBVIOUS
  <2>3. ~taken
    BY <1>8, <2>2
  <2>4. \A o \in others : o.device # t.device /\ o.mezon # t.account
    BY <2>3 DEF DeviceTaken, MezonTaken
  <2>5. n.id = u.id /\ n.device = t.device /\ n.mezon = t.account /\ n.token = t.token
    BY <1>3, <2>1, <2>2
  <2> QED
    BY <2>2, <2>4, <2>5
<1> HIDE DEF others, new, taken, kept
<1>9. CASE UNCHANGED <<users, ended>> /\ Goes(w, Idle)
  BY <1>9
<1>10. CASE /\ ~(kept # others /\ taken)
            /\ Write(others \cup new)
            /\ Goes(w, [step |-> "clear", ends |-> Lost(others \cup new)])
  <2>1. users' = others \cup new
    BY <1>10 DEF Write
  <2> QED
    BY <1>5, <1>7, <1>8, <1>10, <2>1
<1> QED
  BY <1>4, <1>9, <1>10

-----------------------------------------------------------------------------
(***************************************************************************)
(* Type correctness.                                                       *)
(***************************************************************************)
LEMMA GoesTyped ==
  ASSUME TypeInv, NEW w \in Workers, NEW t \in Task, Goes(w, t)
  PROVE  task' \in [Workers -> Task]
BY DEF TypeInv, TypeOK, Goes

\* A part of the cache is a cache.
LEMMA CacheShrinks ==
  ASSUME TypeInv, NEW part, part \subseteq cache
  PROVE  /\ part \subseteq CacheItem /\ IsFiniteSet(part) /\ Cardinality(part) <= MaxEntries
         /\ \A e, f \in part : e.device = f.device => e = f
<1>1. IsFiniteSet(cache) /\ Cardinality(cache) <= MaxEntries /\ MaxEntries \in Nat
  BY SessionsAssumption DEF TypeInv, TypeOK
<1>2. /\ IsFiniteSet(part) /\ Cardinality(part) <= Cardinality(cache)
      /\ Cardinality(part) \in Nat /\ Cardinality(cache) \in Nat
  BY <1>1, FS_Subset, FS_CardinalityType
<1>3. Cardinality(part) <= MaxEntries
  BY <1>1, <1>2
<1> QED
  BY <1>2, <1>3 DEF TypeInv, TypeOK

\* A step that writes no row and puts nothing in the cache.
LEMMA TypeReads ==
  ASSUME TypeInv, UNCHANGED <<users, lastUser, now, ended>>, lastToken' \in Nat,
         cache' \subseteq cache, task' \in [Workers -> Task], answer' \in Answer
  PROVE  TypeInv'
<1>1. /\ cache' \subseteq CacheItem /\ IsFiniteSet(cache')
      /\ Cardinality(cache') <= MaxEntries
      /\ \A e, f \in cache' : e.device = f.device => e = f
  BY CacheShrinks
<1> QED
  BY <1>1 DEF TypeInv, TypeOK

\* A step that writes rows.
LEMMA TypeWrites ==
  ASSUME TypeInv, NEW after \in SUBSET UserRecord, Write(after),
         UNCHANGED <<lastToken, cache, now>>, lastUser' \in Nat,
         \A u, v \in after : u.id = v.id \/ u.device = v.device => u = v,
         \A u \in after : u.id <= lastUser',
         task' \in [Workers -> Task], answer' \in Answer
  PROVE  TypeInv'
<1>1. users' = after /\ ended' \subseteq EndedToken
  BY WriteEffect
<1>2. \A x \in ended' : x.at <= now
  BY WriteEffect DEF TypeInv, TypeOK
<1> QED
  BY <1>1, <1>2 DEF TypeInv, TypeOK, EndedToken

LEMMA SessionType ==
  ASSUME TypeInv, NEW w \in Workers, NEW device \in Devices, NEW token \in 1 .. lastToken,
         NEW goal \in {"serve", "logout"},
         SessionCached(w, device, token, goal) \/ SessionFind(w, device, token, goal)
  PROVE  TypeInv'
<1>1. token \in Token /\ lastToken \in Nat
  BY DEF Token, TypeInv, TypeOK
<1>2. CASE SessionCached(w, device, token, goal)
  <2>1. PICK e \in cache : Accept(w, e.user, token, goal, Dead)
    BY <1>2 DEF SessionCached, Live
  <2>2. e.user \in UserId
    BY DEF TypeInv, TypeOK, CacheItem
  <2>3. (IF goal = "logout" THEN [step |-> "revoke", user |-> e.user] ELSE Idle) \in Task
    BY <2>2 DEF Task, Idle
  <2>4. task' \in [Workers -> Task] /\ answer' \in Answer
    BY <2>1, <2>3, GoesTyped, NoteAnswer DEF Accept
  <2> QED
    BY <1>1, <1>2, <2>4, GetShrinks, TypeReads DEF SessionCached
<1>3. CASE SessionFind(w, device, token, goal)
  <2> DEFINE t == [step |-> "resume", device |-> device, token |-> token, goal |-> goal,
                   row |-> {u \in users : u.device = device}, since |-> now, dead |-> Dead]
  <2>1. Dead \subseteq Token /\ {u \in users : u.device = device} \in SUBSET UserRecord
        /\ now \in Nat
    BY DEF Dead, TypeInv, TypeOK
  <2>2. t \in Task
    BY <1>1, <2>1 DEF Task
  <2>3. task' \in [Workers -> Task] /\ answer' \in Answer
    BY <1>3, <2>2, GoesTyped, SilentAnswer DEF SessionFind
  <2> QED
    BY <1>1, <1>3, <2>3, GetShrinks, TypeReads DEF SessionFind
<1> QED
  BY <1>2, <1>3

LEMMA ResumeType ==
  ASSUME TypeInv, NEW w \in Workers, SessionResume(w)
  PROVE  TypeInv'
<1> DEFINE t == task[w]
<1>1. t \in Task /\ t.step = "resume"
  BY DEF TypeInv, TypeOK, SessionResume
<1>2. CASE Goes(w, Idle) /\ UNCHANGED cache /\ Silent
  <2>1. task' \in [Workers -> Task] /\ answer' \in Answer
    BY <1>2, GoesTyped, SilentAnswer DEF Task, Idle
  <2> QED
    BY <1>2, <2>1, TypeReads DEF SessionResume, TypeInv, TypeOK
<1>3. CASE \E u \in t.row : /\ u.token = t.token
                            /\ SetEntry(t.device, u.id, u.token)
                            /\ Accept(w, u.id, t.token, t.goal, t.dead)
  <2>1. PICK u \in t.row : /\ u.token = t.token
                           /\ SetEntry(t.device, u.id, u.token)
                           /\ Accept(w, u.id, t.token, t.goal, t.dead)
    BY <1>3
  <2>2. u.id \in UserId /\ u.token \in Token /\ t.device \in Devices
    BY <1>1, <2>1, TaskKinds DEF UserRecord
  <2>3. (IF t.goal = "logout" THEN [step |-> "revoke", user |-> u.id] ELSE Idle) \in Task
    BY <2>2 DEF Task, Idle
  <2>4. task' \in [Workers -> Task] /\ answer' \in Answer
    BY <2>1, <2>3, GoesTyped, NoteAnswer DEF Accept
  <2>5. PICK fresh \in CacheItem :
          /\ fresh.device = t.device
          /\ \A e \in cache' : e = fresh \/ (e \in cache /\ e.device # t.device)
          /\ IsFiniteSet(cache') /\ Cardinality(cache') <= MaxEntries
    BY <2>1, <2>2, SetEffect
  <2>6. cache' \subseteq CacheItem /\ \A e, f \in cache' : e.device = f.device => e = f
    BY <2>5 DEF TypeInv, TypeOK
  <2> QED
    BY <2>4, <2>5, <2>6 DEF SessionResume, TypeInv, TypeOK
<1> QED
  BY <1>2, <1>3 DEF SessionResume

LEMMA PollType ==
  ASSUME TypeInv, NEW w \in Workers, NEW device \in Devices,
         PollFind(w, device) \/ CallbackFind(w, device)
  PROVE  TypeInv'
<1>1. CASE PollFind(w, device)
  <2>1. \A u \in users : [step |-> "polled", token |-> u.token, dead |-> Dead] \in Task
    BY DEF Task, Dead, TypeInv, TypeOK, UserRecord
  <2>2. [step |-> "create", device |-> device] \in Task
    BY DEF Task
  <2>3. task' \in [Workers -> Task] /\ answer' \in Answer
    BY <1>1, <2>1, <2>2, GoesTyped, SilentAnswer DEF PollFind
  <2> QED
    BY <1>1, <2>3, TypeReads DEF PollFind, TypeInv, TypeOK
<1>2. CASE CallbackFind(w, device)
  <2>1. \A u \in users : [step |-> "exchange", device |-> device, user |-> u.id] \in Task
    BY DEF Task, TypeInv, TypeOK, UserRecord
  <2>2. task' \in [Workers -> Task] /\ answer' \in Answer
    BY <1>2, <2>1, GoesTyped, SilentAnswer DEF CallbackFind
  <2> QED
    BY <1>2, <2>2, TypeReads DEF CallbackFind, TypeInv, TypeOK
<1> QED
  BY <1>1, <1>2

LEMMA CallbackType ==
  ASSUME TypeInv, NEW w \in Workers, CallbackExchange(w) \/ CallbackExisting(w)
  PROVE  TypeInv'
<1>1. task[w] \in Task /\ lastToken \in Nat
  BY DEF TypeInv, TypeOK
<1>2. CASE CallbackExchange(w)
  <2>1. PICK account \in Accounts :
          Goes(w, [step |-> "profile", device |-> task[w].device, user |-> task[w].user,
                   account |-> account, token |-> lastToken + 1])
    BY <1>2 DEF CallbackExchange
  <2>2. task[w].device \in Devices /\ task[w].user \in UserId
    BY <1>1, <1>2, TaskKinds DEF CallbackExchange
  <2>3. [step |-> "profile", device |-> task[w].device, user |-> task[w].user,
         account |-> account, token |-> lastToken + 1] \in Task
    BY <1>1, <2>2 DEF Task, Token
  <2>4. task' \in [Workers -> Task] /\ answer' \in Answer
    BY <1>2, <2>1, <2>3, GoesTyped, SilentAnswer DEF CallbackExchange
  <2> QED
    BY <1>1, <1>2, <2>4, TypeReads DEF CallbackExchange
<1>3. CASE CallbackExisting(w)
  <2> DEFINE t == task[w]
             found == {u.id : u \in {v \in users : v.mezon = t.account}}
  <2>1. /\ t.device \in Devices /\ t.user \in UserId /\ t.account \in Accounts
        /\ t.token \in Token
    BY <1>1, <1>3, TaskKinds DEF CallbackExisting
  <2>2. found \subseteq UserId
    BY DEF TypeInv, TypeOK, UserRecord
  <2>3. Goes(w, [step |-> "commit", device |-> t.device, user |-> t.user,
                 account |-> t.account, token |-> t.token, existing |-> found])
    BY <1>3 DEF CallbackExisting
  <2> HIDE DEF found
  <2>4. [step |-> "commit", device |-> t.device, user |-> t.user,
         account |-> t.account, token |-> t.token, existing |-> found] \in Task
    BY <2>1, <2>2 DEF Task
  <2>5. task' \in [Workers -> Task] /\ answer' \in Answer
    BY <1>3, <2>3, <2>4, GoesTyped, SilentAnswer DEF CallbackExisting
  <2> QED
    BY <1>1, <1>3, <2>5, TypeReads DEF CallbackExisting
<1> QED
  BY <1>2, <1>3

\* Whatever tokens ended, the request goes on to empty the cache.
LEMMA ClearTask ==
  ASSUME TypeInv, NEW w \in Workers, NEW after \in SUBSET UserRecord, Write(after),
         Goes(w, [step |-> "clear", ends |-> Lost(after)])
  PROVE  task' \in [Workers -> Task]
<1>1. Lost(after) \in SUBSET Token
  BY WriteEffect
<1>2. [step |-> "clear", ends |-> Lost(after)] \in Task
  BY <1>1 DEF Task
<1> QED
  BY <1>2, GoesTyped

LEMMA WriteType ==
  ASSUME TypeInv, AccountInv, NEW w \in Workers,
         PollCreate(w) \/ LogoutRevoke(w) \/ CallbackCommit(w)
  PROVE  TypeInv'
<1>0. /\ users \subseteq UserRecord /\ lastUser \in Nat /\ lastToken \in Nat /\ Idle \in Task
      /\ \A u, v \in users : u.id = v.id \/ u.device = v.device => u = v
      /\ \A u \in users : u.id \in Nat /\ u.id <= lastUser
  BY DEF TypeInv, TypeOK, UserRecord, UserId, Task, Idle
<1>1. CASE PollCreate(w)
  <2>1. task' \in [Workers -> Task] /\ answer' \in Answer
    BY <1>0, <1>1, GoesTyped, SilentAnswer DEF PollCreate
  <2>2. CASE UNCHANGED <<users, lastUser, ended>>
    BY <1>0, <1>1, <2>1, <2>2, TypeReads DEF PollCreate
  <2>3. CASE \E new \in UserRecord :
               /\ users' = users \cup {new} /\ Write(users \cup {new})
               /\ new.id = lastUser + 1 /\ lastUser' = lastUser + 1
               /\ \A u \in users : u.device # new.device
    <3>1. PICK new \in UserRecord :
            /\ Write(users \cup {new})
            /\ new.id = lastUser + 1 /\ lastUser' = lastUser + 1
            /\ \A u \in users : u.device # new.device
      BY <2>3
    <3>2. /\ \A u, v \in users \cup {new} : u.id = v.id \/ u.device = v.device => u = v
          /\ \A u \in users \cup {new} : u.id <= lastUser'
          /\ users \cup {new} \in SUBSET UserRecord /\ lastUser' \in Nat
      BY <1>0, <3>1
    <3> QED
      BY <1>1, <2>1, <3>1, <3>2, TypeWrites DEF PollCreate
  <2> QED
    BY <1>1, <2>2, <2>3, CreateEffect
<1>2. CASE LogoutRevoke(w)
  <2>1. PICK after \in SUBSET UserRecord :
          /\ Write(after)
          /\ \A a \in after : \E u \in users :
               a = Revoked(u, task[w].user) /\ a.id = u.id /\ a.device = u.device
          /\ Goes(w, [step |-> "clear", ends |-> Lost(after)])
    BY <1>2, RevokeEffect
  <2>2. \A a, b \in after : a.id = b.id \/ a.device = b.device => a = b
    BY <1>0, <2>1
  <2>3. \A a \in after : a.id <= lastUser
    BY <1>0, <2>1
  <2>4. task' \in [Workers -> Task] /\ answer' \in Answer
    BY <1>2, <2>1, ClearTask, SilentAnswer DEF LogoutRevoke
  <2> QED
    BY <1>0, <1>2, <2>1, <2>2, <2>3, <2>4, TypeWrites DEF LogoutRevoke
<1>3. CASE CallbackCommit(w)
  <2>1. answer' \in Answer /\ UNCHANGED <<lastUser, lastToken, cache, now>>
    BY <1>3, SilentAnswer DEF CallbackCommit
  <2>2. CASE UNCHANGED <<users, ended>> /\ Goes(w, Idle)
    BY <1>0, <2>1, <2>2, GoesTyped, TypeReads
  <2>3. CASE \E others \in SUBSET users, new \in SUBSET UserRecord :
               /\ users' = others \cup new /\ Write(others \cup new)
               /\ Goes(w, [step |-> "clear", ends |-> Lost(others \cup new)])
               /\ \A a, b \in new : a = b
               /\ \A n \in new :
                    /\ n.token = task[w].token /\ n.mezon = task[w].account
                    /\ \E u \in users \ others : n.id = u.id
                    /\ \A o \in others : o.device # n.device /\ o.mezon # n.mezon
    <3>1. PICK others \in SUBSET users, new \in SUBSET UserRecord :
            /\ Write(others \cup new)
            /\ Goes(w, [step |-> "clear", ends |-> Lost(others \cup new)])
            /\ \A a, b \in new : a = b
            /\ \A n \in new :
                 /\ n.token = task[w].token /\ n.mezon = task[w].account
                 /\ \E u \in users \ others : n.id = u.id
                 /\ \A o \in others : o.device # n.device /\ o.mezon # n.mezon
      BY <2>3
    <3>2. \A n \in new, o \in others : n.id # o.id
      BY <1>0, <3>1
    <3>3. \A a, b \in others \cup new : a.id = b.id \/ a.device = b.device => a = b
      BY <1>0, <3>1, <3>2
    <3>4. \A a \in others \cup new : a.id <= lastUser
      BY <1>0, <3>1
    <3>5. others \cup new \in SUBSET UserRecord
      BY <1>0, <3>1
    <3>6. task' \in [Workers -> Task]
      BY <3>1, <3>5, ClearTask
    <3> QED
      BY <1>0, <2>1, <3>1, <3>3, <3>4, <3>5, <3>6, TypeWrites
  <2> QED
    BY <1>3, <2>2, <2>3, CommitEffect
<1> QED
  BY <1>1, <1>2, <1>3

\* Emptying the cache notes which ends have been answered.
LEMMA ClearEffect ==
  ASSUME TypeInv, NEW w \in Workers, Clear(w)
  PROVE  /\ ended' \subseteq EndedToken
         /\ \A x \in ended' : \E e \in ended : x.token = e.token /\ x.at = e.at
<1>1. ended' = {IF e.token \in task[w].ends THEN [e EXCEPT !.answered = TRUE] ELSE e :
                  e \in ended}
  BY DEF Clear
<1>2. \A e \in ended :
        LET x == IF e.token \in task[w].ends THEN [e EXCEPT !.answered = TRUE] ELSE e
        IN  x \in EndedToken /\ x.token = e.token /\ x.at = e.at
  BY DEF TypeInv, TypeOK, EndedToken
<1> QED
  BY <1>1, <1>2

LEMMA RestType ==
  ASSUME TypeInv, (\E w \in Workers : Clear(w) \/ Fail(w)) \/ Restart \/ Tick
  PROVE  TypeInv'
<1>0. Idle \in Task /\ answer' \in Answer
  BY SilentAnswer DEF Task, Idle, Clear, Fail, Restart, Tick
<1>1. CASE \E w \in Workers : Clear(w)
  <2>1. PICK w \in Workers : Clear(w)
    BY <1>1
  <2>2. task' \in [Workers -> Task] /\ cache' = {}
    BY <1>0, <2>1, GoesTyped DEF Clear
  <2>3. /\ cache' \subseteq CacheItem /\ IsFiniteSet(cache')
        /\ Cardinality(cache') <= MaxEntries
        /\ \A e, f \in cache' : e.device = f.device => e = f
    BY <2>2, CacheShrinks
  <2>4. ended' \subseteq EndedToken /\ \A x \in ended' : x.at <= now
    BY <2>1, ClearEffect DEF TypeInv
  <2> QED
    BY <1>0, <2>1, <2>2, <2>3, <2>4 DEF TypeInv, TypeOK, EndedToken, Clear
<1>2. CASE \E w \in Workers : Fail(w)
  <2>1. PICK w \in Workers : Fail(w)
    BY <1>2
  <2>2. task' \in [Workers -> Task]
    BY <1>0, <2>1, GoesTyped DEF Fail
  <2> QED
    BY <1>0, <2>1, <2>2, TypeReads DEF Fail, TypeInv, TypeOK
<1>3. CASE Restart
  <2>1. task' \in [Workers -> Task] /\ cache' \subseteq cache
    BY <1>0, <1>3 DEF Restart
  <2> QED
    BY <1>0, <1>3, <2>1, TypeReads DEF Restart, TypeInv, TypeOK
<1>4. CASE Tick
  <2>1. /\ now \in Nat /\ now' = now + 1
        /\ UNCHANGED <<users, lastUser, lastToken, cache, task, ended>>
    BY <1>4 DEF Tick, TypeInv, TypeOK
  <2>2. \A x \in ended' : x.at <= now'
    BY <2>1 DEF TypeInv, TypeOK
  <2> QED
    BY <1>0, <2>1, <2>2 DEF TypeInv, TypeOK
<1> QED
  BY <1>1, <1>2, <1>3, <1>4

LEMMA TypeStep == TypeInv /\ AccountInv /\ [Next]_vars => TypeInv'
<1> SUFFICES ASSUME TypeInv, AccountInv, [Next]_vars
             PROVE  TypeInv'
  OBVIOUS
<1>1. CASE UNCHANGED vars
  BY <1>1 DEF vars, TypeInv, TypeOK
<1>2. ASSUME NEW w \in Workers, NEW device \in Devices,
             \/ PollFind(w, device) \/ CallbackFind(w, device)
             \/ \E token \in 1 .. lastToken, goal \in {"serve", "logout"} :
                  SessionCached(w, device, token, goal) \/ SessionFind(w, device, token, goal)
      PROVE  TypeInv'
  BY <1>2, SessionType, PollType
<1>3. ASSUME NEW w \in Workers, PollAnswer(w)
      PROVE  TypeInv'
  <2>1. task' \in [Workers -> Task]
    BY <1>3, GoesTyped DEF PollAnswer, Task, Idle
  <2>2. answer' \in Answer
    BY <1>3, SilentAnswer, NoteAnswer DEF PollAnswer
  <2> QED
    BY <1>3, <2>1, <2>2, TypeReads DEF PollAnswer, TypeInv, TypeOK
<1>4. ASSUME NEW w \in Workers,
             \/ SessionResume(w) \/ LogoutRevoke(w) \/ PollCreate(w)
             \/ CallbackExchange(w) \/ CallbackExisting(w) \/ CallbackCommit(w)
      PROVE  TypeInv'
  BY <1>4, ResumeType, WriteType, CallbackType
<1>5. ASSUME (\E w \in Workers : Clear(w) \/ Fail(w)) \/ Restart \/ Tick
      PROVE  TypeInv'
  BY <1>5, RestType
<1> QED
  BY <1>1, <1>2, <1>3, <1>4, <1>5 DEF Next

-----------------------------------------------------------------------------
(***************************************************************************)
(* Which step does what.                                                   *)
(***************************************************************************)
LEMMA GoesOne ==
  ASSUME TypeInv, NEW w \in Workers, NEW t, Goes(w, t)
  PROVE  task'[w] = t /\ \A v \in Workers : v # w => task'[v] = task[v]
BY DEF TypeInv, TypeOK, Goes

\* A request comes to a step from the one before it.
LEMMA TaskStep ==
  ASSUME TypeInv, [Next]_vars, NEW v \in Workers
  PROVE  /\ task'[v].step = "commit" => task'[v] = task[v] \/ CallbackExisting(v)
         /\ task'[v].step = "profile" => task'[v] = task[v] \/ CallbackExchange(v)
         /\ task'[v].step = "polled" =>
              task'[v] = task[v] \/ \E device \in Devices : PollFind(v, device)
         /\ task'[v].step = "resume" =>
              task'[v] = task[v] \/ \E device \in Devices, token \in 1 .. lastToken,
                                       goal \in {"serve", "logout"} :
                                       SessionFind(v, device, token, goal)
<1> DEFINE Same == task'[v] = task[v]
           Other == task'[v].step \notin {"commit", "profile", "polled", "resume"}
<1>0. ASSUME NEW w \in Workers, NEW t, Goes(w, t),
             t.step \notin {"commit", "profile", "polled", "resume"}
      PROVE  Same \/ Other
  BY <1>0, GoesOne
<1>1. CASE UNCHANGED vars
  BY <1>1 DEF vars
<1>2. ASSUME NEW w \in Workers, NEW device \in Devices,
             PollFind(w, device) \/ CallbackFind(w, device)
      PROVE  Same \/ Other \/ (w = v /\ PollFind(v, device) /\ task'[v].step = "polled")
  <2>1. CASE CallbackFind(w, device)
    <3>1. PICK u \in users : Goes(w, [step |-> "exchange", device |-> device, user |-> u.id])
      BY <2>1 DEF CallbackFind
    <3> QED
      BY <1>0, <3>1
  <2>2. CASE PollFind(w, device)
    <3>1. CASE Goes(w, [step |-> "create", device |-> device])
      BY <1>0, <3>1
    <3>2. CASE \E u \in users : Goes(w, [step |-> "polled", token |-> u.token, dead |-> Dead])
      <4>1. PICK u \in users : Goes(w, [step |-> "polled", token |-> u.token, dead |-> Dead])
        BY <3>2
      <4> QED
        BY <2>2, <4>1, GoesOne
    <3> QED
      BY <2>2, <3>1, <3>2 DEF PollFind
  <2> QED
    BY <1>2, <2>1, <2>2
<1>3. ASSUME NEW w \in Workers, NEW device \in Devices, NEW token \in 1 .. lastToken,
             NEW goal \in {"serve", "logout"}, SessionCached(w, device, token, goal)
      PROVE  Same \/ Other
  BY <1>3, GoesOne DEF SessionCached, Accept, Idle
<1>4. ASSUME NEW w \in Workers, NEW device \in Devices, NEW token \in 1 .. lastToken,
             NEW goal \in {"serve", "logout"}, SessionFind(w, device, token, goal)
      PROVE  Same \/ (w = v /\ task'[v].step = "resume")
  BY <1>4, GoesOne DEF SessionFind
<1>5. ASSUME NEW w \in Workers, SessionResume(w)
      PROVE  Same \/ Other
  <2>1. CASE Goes(w, Idle)
    BY <1>0, <2>1 DEF Idle
  <2>2. CASE \E user : Goes(w, [step |-> "revoke", user |-> user])
    <3>1. PICK user : Goes(w, [step |-> "revoke", user |-> user])
      BY <2>2
    <3> QED
      BY <1>0, <3>1
  <2> QED
    BY <1>5, <2>1, <2>2 DEF SessionResume, Accept
<1>10. ASSUME NEW w \in Workers, PollCreate(w) \/ PollAnswer(w) \/ Clear(w) \/ Fail(w)
       PROVE  Same \/ Other
  <2>1. Goes(w, Idle)
    BY <1>10 DEF PollCreate, PollAnswer, Clear, Fail
  <2> QED
    BY <1>0, <2>1 DEF Idle
<1>6. ASSUME NEW w \in Workers, CallbackExchange(w)
      PROVE  Same \/ (w = v /\ task'[v].step = "profile")
  BY <1>6, GoesOne DEF CallbackExchange
<1>7. ASSUME NEW w \in Workers, CallbackExisting(w)
      PROVE  Same \/ (w = v /\ task'[v].step = "commit")
  BY <1>7, GoesOne DEF CallbackExisting
<1>8. ASSUME NEW w \in Workers, CallbackCommit(w) \/ LogoutRevoke(w)
      PROVE  Same \/ Other
  <2>1. CASE Goes(w, Idle)
    BY <1>0, <2>1 DEF Idle
  <2>2. CASE \E after : Goes(w, [step |-> "clear", ends |-> after])
    <3>1. PICK after : Goes(w, [step |-> "clear", ends |-> after])
      BY <2>2
    <3> QED
      BY <1>0, <3>1
  <2> QED
    BY <1>8, <2>1, <2>2 DEF CallbackCommit, LogoutRevoke
<1>9. CASE Restart \/ Tick
  BY <1>9 DEF Restart, Tick, Idle
<1> QED
  BY <1>1, <1>2, <1>3, <1>4, <1>5, <1>6, <1>7, <1>8, <1>9, <1>10 DEF Next

\* What can change the table, the tokens that ended, the cache and the clock.
LEMMA StateStep ==
  ASSUME [Next]_vars
  PROVE  /\ \/ UNCHANGED <<users, ended>>
            \/ \E w \in Workers : PollCreate(w) \/ LogoutRevoke(w) \/ CallbackCommit(w)
            \/ UNCHANGED users /\ \E w \in Workers : Clear(w)
         /\ UNCHANGED lastToken \/ \E w \in Workers : CallbackExchange(w)
         /\ cache' \subseteq cache \/ \E w \in Workers : SessionResume(w)
         /\ UNCHANGED now \/ Tick
<1>1. CASE UNCHANGED vars
  BY <1>1 DEF vars
<1>2. ASSUME NEW w \in Workers, NEW device \in Devices,
             \/ PollFind(w, device) \/ CallbackFind(w, device)
             \/ \E token \in 1 .. lastToken, goal \in {"serve", "logout"} :
                  SessionCached(w, device, token, goal) \/ SessionFind(w, device, token, goal)
      PROVE  UNCHANGED <<users, ended, lastToken, now>> /\ cache' \subseteq cache
  BY <1>2, GetShrinks DEF PollFind, CallbackFind, SessionCached, SessionFind
<1>3. ASSUME NEW w \in Workers,
             SessionResume(w) \/ PollAnswer(w) \/ CallbackExchange(w) \/ CallbackExisting(w)
             \/ Fail(w)
      PROVE  /\ UNCHANGED <<users, ended, now>>
             /\ UNCHANGED lastToken \/ CallbackExchange(w)
             /\ UNCHANGED cache \/ SessionResume(w)
  BY <1>3 DEF SessionResume, PollAnswer, CallbackExchange, CallbackExisting, Fail
<1>4. ASSUME NEW w \in Workers,
             PollCreate(w) \/ LogoutRevoke(w) \/ CallbackCommit(w) \/ Clear(w)
      PROVE  /\ UNCHANGED <<lastToken, now>> /\ cache' \subseteq cache
             /\ Clear(w) => UNCHANGED users
  BY <1>4 DEF PollCreate, LogoutRevoke, CallbackCommit, Clear
<1>5. CASE Restart
  BY <1>5 DEF Restart
<1>6. CASE Tick
  BY <1>6 DEF Tick
<1> QED
  BY <1>1, <1>2, <1>3, <1>4, <1>5, <1>6 DEF Next

-----------------------------------------------------------------------------
(***************************************************************************)
(* One row for an account.                                                 *)
(***************************************************************************)
LEMMA AccountWrite ==
  ASSUME TypeInv, AccountInv, NEW w \in Workers,
         PollCreate(w) \/ LogoutRevoke(w) \/ CallbackCommit(w)
  PROVE  OneSessionPerAccount'
<1> USE DEF AccountInv, OneSessionPerAccount
<1>1. CASE PollCreate(w)
  BY <1>1, CreateEffect
<1>2. CASE LogoutRevoke(w)
  <2>1. PICK after \in SUBSET UserRecord :
          /\ Write(after) /\ users' = after
          /\ \A a \in after : \E u \in users :
               /\ a = Revoked(u, task[w].user)
               /\ a.id = u.id /\ a.device = u.device /\ a.mezon = u.mezon
               /\ a.token \in {u.token, NoToken}
          /\ Goes(w, [step |-> "clear", ends |-> Lost(after)])
    BY <1>2, RevokeEffect
  <2> QED
    BY <2>1
<1>3. CASE CallbackCommit(w)
  <2>1. CASE UNCHANGED <<users, ended>>
    BY <2>1
  <2>2. CASE ~UNCHANGED <<users, ended>>
    <3>1. PICK others \in SUBSET users, new \in SUBSET UserRecord :
            /\ users' = others \cup new /\ Write(others \cup new)
            /\ Goes(w, [step |-> "clear", ends |-> Lost(others \cup new)])
            /\ \A a, b \in new : a = b
            /\ \A n \in new :
                 /\ n.token = task[w].token /\ n.mezon = task[w].account
                 /\ \E u \in users \ others : n.id = u.id
                 /\ \A o \in others : o.device # n.device /\ o.mezon # n.mezon
      BY <1>3, <2>2, CommitEffect
    <3> QED
      BY <3>1
  <2> QED
    BY <2>1, <2>2
<1> QED
  BY <1>1, <1>2, <1>3

LEMMA AccountStep == TypeInv /\ AccountInv /\ [Next]_vars => AccountInv'
<1> SUFFICES ASSUME TypeInv, AccountInv, [Next]_vars
             PROVE  AccountInv'
  OBVIOUS
<1>1. OneSessionPerAccount'
  <2>1. CASE UNCHANGED users
    BY <2>1 DEF AccountInv, OneSessionPerAccount
  <2>2. CASE \E w \in Workers : PollCreate(w) \/ LogoutRevoke(w) \/ CallbackCommit(w)
    BY <2>2, AccountWrite
  <2> QED
    BY <2>1, <2>2, StateStep
<1>2. ASSUME NEW v \in Workers, task'[v].step = "commit"
      PROVE  \A a, b \in task'[v].existing : a = b
  <2>1. CASE task'[v] = task[v]
    BY <1>2, <2>1 DEF AccountInv
  <2>2. CASE CallbackExisting(v)
    <3>1. task[v].step = "profile" /\ task[v] \in Task
      BY <2>2 DEF CallbackExisting, TypeInv, TypeOK
    <3>2. task[v].account # NoAccount
      BY <3>1, TaskKinds, AccountsAssumption
    <3>3. task'[v].existing = {u.id : u \in {x \in users : x.mezon = task[v].account}}
      BY <2>2, GoesOne DEF CallbackExisting
    <3> QED
      BY <3>2, <3>3 DEF AccountInv, OneSessionPerAccount
  <2> QED
    BY <1>2, <2>1, <2>2, TaskStep
<1> QED
  BY <1>1, <1>2 DEF AccountInv

-----------------------------------------------------------------------------
(***************************************************************************)
(* A token that ended does not come back.                                  *)
(***************************************************************************)
LEMMA TokenWrite ==
  ASSUME TypeInv, TokenInv, NEW w \in Workers,
         NEW after \in SUBSET UserRecord, Write(after), UNCHANGED lastToken,
         \A a \in after : \/ a.token = NoToken \/ \E u \in users : a.token = u.token
                          \/ Holds(w) /\ a.token = task[w].token,
         task'[w].step \notin {"profile", "commit", "polled"},
         \A v \in Workers : v # w => task'[v] = task[v]
  PROVE  TokenInv'
<1>1. /\ users' = after /\ \A t \in Lost(after) : /\ \E u \in users : u.token = t
                                                /\ \A a \in after : a.token # t
      /\ \A x \in ended' : x \in ended \/ x.token \in Lost(after)
  BY WriteEffect
<1>2. /\ lastToken \in Nat /\ \A x \in ended : x.token \in Token
      /\ \A v \in Workers : Holds(v) => task[v].token \in Token
  BY TaskKinds DEF TypeInv, TypeOK, Holds
<1>3. \A a \in users' : a.token <= lastToken'
  BY <1>1, <1>2 DEF TokenInv, NoToken, Holds
<1>4. \A x \in ended' : x.token <= lastToken' /\ \A a \in users' : a.token # x.token
  BY <1>1, <1>2 DEF TokenInv, NoToken, Token, Holds
<1>5. \A v \in Workers : Holds(v)' => v # w /\ Holds(v) /\ task'[v] = task[v]
  BY DEF Holds
<1>6. ASSUME NEW v \in Workers, Holds(v)'
      PROVE  /\ task'[v].token <= lastToken'
             /\ \A a \in users' : a.token # task'[v].token
             /\ \A x \in ended' : x.token # task'[v].token
             /\ \A o \in Workers : o # v /\ Holds(o)' => task'[o].token # task'[v].token
  <2>1. v # w /\ Holds(v) /\ task'[v] = task[v]
    BY <1>5, <1>6
  <2>2. \A a \in users' : a.token # task'[v].token
    BY <1>1, <1>2, <2>1 DEF TokenInv, NoToken, Token
  <2>3. \A x \in ended' : x.token # task'[v].token
    BY <1>1, <2>1 DEF TokenInv
  <2> QED
    BY <1>5, <2>1, <2>2, <2>3 DEF TokenInv
<1>7. \A v \in Workers : task'[v].step = "polled" => task'[v].token \notin task'[v].dead
  BY DEF TokenInv
<1> QED
  BY <1>3, <1>4, <1>6, <1>7 DEF TokenInv, Holds

\* A step that writes no row: a new token is drawn, or none.
LEMMA TokenReads ==
  ASSUME TypeInv, TokenInv, [Next]_vars, UNCHANGED users,
         \A x \in ended' : \E e \in ended : x.token = e.token
  PROVE  TokenInv'
<1>0. lastToken \in Nat
  BY DEF TypeInv, TypeOK
<1>1. ASSUME NEW v \in Workers, CallbackExchange(v)
      PROVE  /\ task'[v].token = lastToken + 1 /\ lastToken' = lastToken + 1
             /\ \A o \in Workers : o # v => task'[o] = task[o]
  <2>1. PICK account \in Accounts :
          Goes(v, [step |-> "profile", device |-> task[v].device, user |-> task[v].user,
                   account |-> account, token |-> lastToken + 1])
    BY <1>1 DEF CallbackExchange
  <2> QED
    BY <1>1, <2>1, GoesOne DEF CallbackExchange
<1>2. lastToken' \in Nat /\ lastToken <= lastToken'
  BY <1>0, <1>1, StateStep
<1>3. \A v \in Workers : CallbackExisting(v) =>
        Holds(v) /\ task'[v].token = task[v].token
  BY GoesOne DEF CallbackExisting, Holds
<1>4. \A v \in Workers : Holds(v)' =>
        \/ Holds(v) /\ task'[v].token = task[v].token
        \/ CallbackExchange(v)
  BY <1>3, TaskStep DEF Holds
<1>5. \A u \in users' : u.token <= lastToken'
  BY <1>0, <1>2 DEF TokenInv, TypeInv, TypeOK, UserRecord, Token, NoToken
<1>6. \A x \in ended' : x.token <= lastToken' /\ \A u \in users' : u.token # x.token
  BY <1>0, <1>2 DEF TokenInv, TypeInv, TypeOK, Token
<1>7. ASSUME NEW v \in Workers, Holds(v)'
      PROVE  /\ task'[v].token <= lastToken'
             /\ \A u \in users' : u.token # task'[v].token
             /\ \A x \in ended' : x.token # task'[v].token
             /\ \A o \in Workers : o # v /\ Holds(o)' => task'[o].token # task'[v].token
  <2>0. \A o \in Workers : Holds(o) => task[o].token \in Nat /\ task[o].token <= lastToken
    BY TaskKinds DEF TypeInv, TypeOK, Holds, Token, TokenInv
  <2>1. CASE CallbackExchange(v)
    <3>1. /\ task'[v].token = lastToken + 1 /\ lastToken' = lastToken + 1
          /\ \A o \in Workers : o # v => task'[o] = task[o]
      BY <1>1, <2>1
    <3>2. \A u \in users : u.token # lastToken + 1
      BY <1>0 DEF TokenInv, TypeInv, TypeOK, UserRecord, Token, NoToken
    <3>3. \A x \in ended' : x.token # lastToken + 1
      BY <1>0 DEF TokenInv, TypeInv, TypeOK, Token
    <3>4. \A o \in Workers : o # v /\ Holds(o)' => task'[o].token # lastToken + 1
      BY <1>0, <2>0, <3>1 DEF Holds
    <3> QED
      BY <1>0, <3>1, <3>2, <3>3, <3>4
  <2>2. CASE Holds(v) /\ task'[v].token = task[v].token
    <3>1. task'[v].token <= lastToken'
      BY <1>0, <1>2, <2>0, <2>2
    <3>2. /\ \A u \in users' : u.token # task'[v].token
          /\ \A x \in ended' : x.token # task'[v].token
      BY <2>2 DEF TokenInv
    <3>3. \A o \in Workers : o # v /\ Holds(o)' => task'[o].token # task'[v].token
      BY <1>0, <1>1, <1>4, <2>0, <2>2 DEF TokenInv
    <3> QED
      BY <3>1, <3>2, <3>3
  <2> QED
    BY <1>4, <1>7, <2>1, <2>2
<1>8. ASSUME NEW v \in Workers, task'[v].step = "polled"
      PROVE  task'[v].token \notin task'[v].dead
  <2>1. CASE task'[v] = task[v]
    BY <1>8, <2>1 DEF TokenInv
  <2>2. CASE \E device \in Devices : PollFind(v, device)
    <3>1. PICK u \in users : Goes(v, [step |-> "polled", token |-> u.token, dead |-> Dead])
      <4>1. PICK device \in Devices : PollFind(v, device)
        BY <2>2
      <4>2. CASE Goes(v, [step |-> "create", device |-> device])
        BY <1>8, <4>2, GoesOne
      <4> QED
        BY <4>1, <4>2 DEF PollFind
    <3>2. u.token \notin Dead
      BY DEF Dead, TokenInv
    <3> QED
      BY <3>1, <3>2, GoesOne
  <2> QED
    BY <1>8, <2>1, <2>2, TaskStep
<1> QED
  BY <1>5, <1>6, <1>7, <1>8 DEF TokenInv, Holds

LEMMA TokenStep == TypeInv /\ AccountInv /\ TokenInv /\ [Next]_vars => TokenInv'
<1> SUFFICES ASSUME TypeInv, AccountInv, TokenInv, [Next]_vars
             PROVE  TokenInv'
  OBVIOUS
<1>1. CASE UNCHANGED <<users, ended>>
  BY <1>1, TokenReads
<1>2. CASE UNCHANGED users /\ \E w \in Workers : Clear(w)
  BY <1>2, ClearEffect, TokenReads
<1>3. ASSUME NEW w \in Workers, PollCreate(w), ~UNCHANGED <<users, ended>>
      PROVE  TokenInv'
  <2>1. PICK new \in UserRecord :
          /\ users' = users \cup {new} /\ Write(users \cup {new})
          /\ new.id = lastUser + 1 /\ lastUser' = lastUser + 1
          /\ new.mezon = NoAccount /\ new.token = NoToken
          /\ \A u \in users : u.device # new.device
    BY <1>3, CreateEffect
  <2>2. task'[w].step \notin {"profile", "commit", "polled"}
        /\ \A v \in Workers : v # w => task'[v] = task[v]
    BY <1>3, GoesOne DEF PollCreate, Idle
  <2>3. users \cup {new} \in SUBSET UserRecord
    BY DEF TypeInv, TypeOK
  <2>4. \A a \in users \cup {new} : a.token = NoToken \/ \E u \in users : a.token = u.token
    BY <2>1
  <2> QED
    BY <1>3, <2>1, <2>2, <2>3, <2>4, TokenWrite DEF PollCreate
<1>4. ASSUME NEW w \in Workers, LogoutRevoke(w)
      PROVE  TokenInv'
  <2>1. PICK after \in SUBSET UserRecord :
          /\ Write(after) /\ users' = after
          /\ \A a \in after : \E u \in users :
               /\ a = Revoked(u, task[w].user)
               /\ a.id = u.id /\ a.device = u.device /\ a.mezon = u.mezon
               /\ a.token \in {u.token, NoToken}
          /\ Goes(w, [step |-> "clear", ends |-> Lost(after)])
    BY <1>4, RevokeEffect
  <2>2. task'[w].step \notin {"profile", "commit", "polled"}
        /\ \A v \in Workers : v # w => task'[v] = task[v]
    BY <2>1, GoesOne
  <2>3. \A a \in after : a.token = NoToken \/ \E u \in users : a.token = u.token
    BY <2>1
  <2> QED
    BY <1>4, <2>1, <2>2, <2>3, TokenWrite DEF LogoutRevoke
<1>5. ASSUME NEW w \in Workers, CallbackCommit(w), ~UNCHANGED <<users, ended>>
      PROVE  TokenInv'
  <2>1. PICK others \in SUBSET users, new \in SUBSET UserRecord :
          /\ users' = others \cup new /\ Write(others \cup new)
          /\ Goes(w, [step |-> "clear", ends |-> Lost(others \cup new)])
          /\ \A a, b \in new : a = b
          /\ \A n \in new :
               /\ n.token = task[w].token /\ n.mezon = task[w].account
               /\ \E u \in users \ others : n.id = u.id
               /\ \A o \in others : o.device # n.device /\ o.mezon # n.mezon
    BY <1>5, CommitEffect
  <2>2. task'[w].step \notin {"profile", "commit", "polled"}
        /\ \A v \in Workers : v # w => task'[v] = task[v]
    BY <2>1, GoesOne
  <2>3. Holds(w) /\ UNCHANGED lastToken
    BY <1>5 DEF CallbackCommit, Holds
  <2>4. \A a \in others \cup new : (\E u \in users : a.token = u.token) \/ a.token = task[w].token
    BY <2>1
  <2>5. others \cup new \in SUBSET UserRecord
    BY DEF TypeInv, TypeOK
  <2> QED
    BY <2>1, <2>2, <2>3, <2>4, <2>5, TokenWrite
<1> QED
  BY <1>1, <1>2, <1>3, <1>4, <1>5, StateStep

-----------------------------------------------------------------------------
(***************************************************************************)
(* How long an ended token can be accepted.                                *)
(***************************************************************************)
LEMMA EndedStep ==
  ASSUME TypeInv, AccountInv, [Next]_vars
  PROVE  \A x \in ended' : \/ \E e \in ended : x.token = e.token /\ x.at = e.at
                           \/ x.at = now
<1>1. ASSUME NEW after \in SUBSET UserRecord, Write(after)
      PROVE  \A x \in ended' : x \in ended \/ x.at = now
  BY <1>1, WriteEffect
<1>2. CASE UNCHANGED <<users, ended>>
  BY <1>2
<1>3. CASE \E w \in Workers : Clear(w)
  BY <1>3, ClearEffect
<1>4. ASSUME NEW w \in Workers, PollCreate(w), ~UNCHANGED <<users, ended>>
      PROVE  \A x \in ended' : x \in ended \/ x.at = now
  <2>1. PICK new \in UserRecord : Write(users \cup {new})
    BY <1>4, CreateEffect
  <2> QED
    BY <1>1, <2>1 DEF TypeInv, TypeOK
<1>5. ASSUME NEW w \in Workers, LogoutRevoke(w)
      PROVE  \A x \in ended' : x \in ended \/ x.at = now
  <2>1. PICK after \in SUBSET UserRecord : Write(after)
    BY <1>5, RevokeEffect
  <2> QED
    BY <1>1, <2>1
<1>6. ASSUME NEW w \in Workers, CallbackCommit(w), ~UNCHANGED <<users, ended>>
      PROVE  \A x \in ended' : x \in ended \/ x.at = now
  <2>1. PICK others \in SUBSET users, new \in SUBSET UserRecord : Write(others \cup new)
    BY <1>6, CommitEffect
  <2> QED
    BY <1>1, <2>1 DEF TypeInv, TypeOK
<1> QED
  BY <1>2, <1>3, <1>4, <1>5, <1>6, StateStep

LEMMA ClockStep == TypeInv /\ AccountInv /\ TokenInv /\ ClockInv /\ [Next]_vars => ClockInv'
<1> SUFFICES ASSUME TypeInv, AccountInv, TokenInv, ClockInv, [Next]_vars
             PROVE  ClockInv'
  OBVIOUS
<1>0. /\ now \in Nat /\ TTL \in Nat /\ MaxDelay \in Nat
      /\ \A x \in ended : x.at \in Nat
      /\ \A e \in cache : e.expires \in Nat
      /\ TypeInv'
  BY SessionsAssumption, TypeStep DEF TypeInv, TypeOK, CacheItem
<1>1. now' \in Nat /\ now <= now'
  BY <1>0, StateStep DEF Tick
<1>2. \A x \in ended' : \/ \E e \in ended : x.token = e.token /\ x.at = e.at
                        \/ x.at = now
  BY EndedStep
<1>3. ASSUME NEW e \in cache'
      PROVE  \/ e \in cache
             \/ /\ e.expires = now + TTL /\ UNCHANGED <<now, ended>>
                /\ \A x \in ended : x.token = e.token => now <= x.at + MaxDelay
  <2>1. CASE cache' \subseteq cache
    BY <2>1
  <2>2. ASSUME NEW w \in Workers, SessionResume(w), ~(e \in cache)
        PROVE  /\ e.expires = now + TTL /\ UNCHANGED <<now, ended>>
               /\ \A x \in ended : x.token = e.token => now <= x.at + MaxDelay
    <3>1. task[w] \in Task /\ task[w].step = "resume"
      BY <2>2 DEF SessionResume, TypeInv, TypeOK
    <3>2. PICK u \in task[w].row : /\ u.token = task[w].token
                                   /\ SetEntry(task[w].device, u.id, u.token)
      BY <2>2 DEF SessionResume
    <3>3. u.id \in UserId /\ u.token \in Token /\ task[w].device \in Devices
          /\ task[w].since \in Nat
      BY <3>1, <3>2, TaskKinds DEF UserRecord
    <3>4. PICK fresh \in CacheItem :
            /\ fresh.token = u.token /\ fresh.expires = now + TTL
            /\ \A f \in cache' : f = fresh \/ (f \in cache /\ f.device # task[w].device)
      BY <3>2, <3>3, SetEffect
    <3>5. e.token = u.token /\ e.expires = now + TTL
      BY <2>2, <3>4
    <3>6. \A x \in ended : x.token = u.token => task[w].since <= x.at
      BY <3>1 DEF ClockInv
    <3>7. now <= task[w].since + MaxDelay
      BY <3>1 DEF ClockInv
    <3> QED
      BY <1>0, <2>2, <3>3, <3>5, <3>6, <3>7 DEF SessionResume
  <2> QED
    BY <2>1, <2>2, StateStep
<1>4. \A e \in cache' : e.expires <= now' + TTL
  BY <1>0, <1>1, <1>3 DEF ClockInv
<1>5. ASSUME NEW e \in cache', NEW x \in ended', x.token = e.token
      PROVE  e.expires <= x.at + TTL + MaxDelay
  <2>1. CASE e \in cache
    BY <1>0, <1>2, <1>5, <2>1 DEF ClockInv
  <2>2. CASE e \notin cache
    BY <1>0, <1>3, <1>5, <2>2
  <2> QED
    BY <2>1, <2>2
<1>6. ASSUME NEW w \in Workers, task'[w].step = "resume"
      PROVE  /\ task'[w].since <= now' /\ now' <= task'[w].since + MaxDelay
             /\ \A u \in task'[w].row, x \in ended' : x.token = u.token => task'[w].since <= x.at
  <2>1. CASE task'[w] = task[w]
    <3>1. task[w].step = "resume" /\ task[w].since \in Nat
      BY <1>6, <2>1, TaskKinds DEF TypeInv, TypeOK
    <3>2. task[w].since <= now /\ now <= task[w].since + MaxDelay
      BY <3>1 DEF ClockInv
    <3>3. now' <= task[w].since + MaxDelay
      BY <1>0, <3>1, <3>2, StateStep DEF Tick
    <3>4. \A u \in task[w].row, x \in ended' : x.token = u.token => task[w].since <= x.at
      BY <1>2, <3>1, <3>2 DEF ClockInv
    <3> QED
      BY <1>0, <1>1, <2>1, <3>1, <3>2, <3>3, <3>4
  <2>2. CASE \E device \in Devices, token \in 1 .. lastToken, goal \in {"serve", "logout"} :
               SessionFind(w, device, token, goal)
    <3>1. PICK device \in Devices, token \in 1 .. lastToken, goal \in {"serve", "logout"} :
            SessionFind(w, device, token, goal)
      BY <2>2
    <3>2. /\ task'[w].since = now /\ task'[w].row \subseteq users
          /\ UNCHANGED <<now, ended, users>>
      BY <3>1, GoesOne DEF SessionFind
    <3>3. \A u \in users, x \in ended : x.token # u.token
      BY DEF TokenInv
    <3> QED
      BY <1>0, <3>2, <3>3
  <2> QED
    BY <1>6, <2>1, <2>2, TaskStep
<1> QED
  BY <1>4, <1>5, <1>6 DEF ClockInv

-----------------------------------------------------------------------------
(***************************************************************************)
(* What a request is answered.                                             *)
(***************************************************************************)
LEMMA AnswerKinds ==
  ASSUME TypeInv, [Next]_vars
  PROVE  \/ UNCHANGED answer \/ answer'.kind = "none"
         \/ \E w \in Workers : PollAnswer(w) \/ SessionResume(w)
         \/ \E w \in Workers, device \in Devices, token \in 1 .. lastToken,
              goal \in {"serve", "logout"} : SessionCached(w, device, token, goal)
<1>1. CASE UNCHANGED vars
  BY <1>1 DEF vars
<1>2. ASSUME NEW w \in Workers, NEW device \in Devices,
             \/ PollFind(w, device) \/ CallbackFind(w, device)
             \/ \E token \in 1 .. lastToken, goal \in {"serve", "logout"} :
                  SessionFind(w, device, token, goal)
      PROVE  Silent
  BY <1>2 DEF PollFind, CallbackFind, SessionFind
<1>3. ASSUME NEW w \in Workers,
             \/ LogoutRevoke(w) \/ Clear(w) \/ PollCreate(w) \/ CallbackExchange(w)
             \/ CallbackExisting(w) \/ CallbackCommit(w) \/ Fail(w)
      PROVE  Silent
  BY <1>3 DEF LogoutRevoke, Clear, PollCreate, CallbackExchange, CallbackExisting,
      CallbackCommit, Fail
<1>4. CASE Restart \/ Tick
  BY <1>4, SilentAnswer DEF Restart, Tick
<1> QED
  BY <1>1, <1>2, <1>3, <1>4, SilentAnswer DEF Next

LEMMA AcceptBound ==
  ASSUME TypeInv, NEW w, NEW user, NEW token, NEW goal, NEW dead,
         Accept(w, user, token, goal, dead),
         \A x \in ended : x.token = token => now <= x.at + TTL + MaxDelay
  PROVE  answer'.kind = "session" /\ answer'.age <= TTL + MaxDelay
<1>1. answer'.kind = "session" /\ answer'.age = Age(token)
  BY NoteAnswer DEF Accept
<1>2. /\ TTL \in Nat /\ MaxDelay \in Nat /\ TTL + MaxDelay \in Nat /\ now \in Nat
      /\ \A x \in ended : x.at \in Nat
  BY SessionsAssumption DEF TypeInv, TypeOK
<1>3. \A x \in ended : x.token = token => now - x.at <= TTL + MaxDelay
  BY <1>2
<1>4. Age(token) <= TTL + MaxDelay
  BY <1>2, <1>3, AgeBound
<1> QED
  BY <1>1, <1>4

\* A session is answered from a live entry or from a row that was read at
\* most MaxDelay ago.
LEMMA StaleStep ==
  TypeInv /\ AccountInv /\ TokenInv /\ ClockInv /\ StaleSessionExpires /\ [Next]_vars
    => StaleSessionExpires'
<1> SUFFICES ASSUME TypeInv, ClockInv, StaleSessionExpires, [Next]_vars
             PROVE  StaleSessionExpires'
  OBVIOUS
<1>0. /\ now \in Nat /\ TTL \in Nat /\ MaxDelay \in Nat
      /\ \A x \in ended : x.at \in Nat
      /\ \A e \in cache : e.expires \in Nat
  BY SessionsAssumption DEF TypeInv, TypeOK, CacheItem
<1>1. CASE UNCHANGED answer
  BY <1>1 DEF StaleSessionExpires
<1>2. CASE answer'.kind = "none"
  BY <1>2 DEF StaleSessionExpires
<1>3. ASSUME NEW w \in Workers, PollAnswer(w)
      PROVE  answer'.kind # "session"
  BY <1>3, NoteAnswer, SilentAnswer DEF PollAnswer
<1>4. ASSUME NEW w \in Workers, NEW device \in Devices, NEW token \in 1 .. lastToken,
             NEW goal \in {"serve", "logout"}, SessionCached(w, device, token, goal)
      PROVE  answer'.age <= TTL + MaxDelay
  <2>1. PICK e \in Live(device) : e.token = token /\ Accept(w, e.user, token, goal, Dead)
    BY <1>4 DEF SessionCached
  <2>2. e \in cache /\ e.expires > now
    BY DEF Live
  <2>3. \A x \in ended : x.token = token => now <= x.at + TTL + MaxDelay
    BY <1>0, <2>1, <2>2 DEF ClockInv
  <2> QED
    BY <2>1, <2>3, AcceptBound
<1>5. ASSUME NEW w \in Workers, SessionResume(w)
      PROVE  StaleSessionExpires'
  <2>1. CASE Silent
    BY <2>1, SilentAnswer DEF StaleSessionExpires
  <2>2. CASE \E u \in task[w].row : /\ u.token = task[w].token
                                    /\ Accept(w, u.id, task[w].token, task[w].goal, task[w].dead)
    <3>1. PICK u \in task[w].row : /\ u.token = task[w].token
                                   /\ Accept(w, u.id, task[w].token, task[w].goal, task[w].dead)
      BY <2>2
    <3>2. task[w].step = "resume" /\ task[w].since \in Nat
      BY <1>5, TaskKinds DEF SessionResume, TypeInv, TypeOK
    <3>3. now <= task[w].since + MaxDelay
          /\ \A x \in ended : x.token = u.token => task[w].since <= x.at
      BY <3>2 DEF ClockInv
    <3>4. \A x \in ended : x.token = task[w].token => now <= x.at + TTL + MaxDelay
      BY <1>0, <3>1, <3>2, <3>3
    <3> QED
      BY <3>1, <3>4, AcceptBound DEF StaleSessionExpires
  <2> QED
    BY <1>5, <2>1, <2>2 DEF SessionResume
<1> QED
  BY <1>1, <1>2, <1>3, <1>4, <1>5, AnswerKinds DEF StaleSessionExpires

\* A poll answers with a token that had not ended when it was read.
LEMMA PollStep ==
  TypeInv /\ TokenInv /\ RevokedTokenNotPolled /\ [Next]_vars => RevokedTokenNotPolled'
<1> SUFFICES ASSUME TypeInv, TokenInv, RevokedTokenNotPolled, [Next]_vars
             PROVE  RevokedTokenNotPolled'
  OBVIOUS
<1>1. CASE UNCHANGED answer
  BY <1>1 DEF RevokedTokenNotPolled
<1>2. CASE answer'.kind = "none"
  BY <1>2 DEF RevokedTokenNotPolled
<1>3. ASSUME NEW w \in Workers, PollAnswer(w)
      PROVE  RevokedTokenNotPolled'
  <2>1. task[w].token \notin task[w].dead
    BY <1>3 DEF TokenInv, PollAnswer
  <2>2. CASE Silent
    BY <2>2, SilentAnswer DEF RevokedTokenNotPolled
  <2>3. CASE Note("poll", task[w].token, task[w].dead)
    BY <2>1, <2>3, NoteAnswer DEF RevokedTokenNotPolled
  <2> QED
    BY <1>3, <2>2, <2>3 DEF PollAnswer
<1>4. ASSUME NEW w \in Workers, NEW device \in Devices, NEW token \in 1 .. lastToken,
             NEW goal \in {"serve", "logout"}, SessionCached(w, device, token, goal)
      PROVE  answer'.kind # "poll"
  BY <1>4, NoteAnswer DEF SessionCached, Accept
<1>5. ASSUME NEW w \in Workers, SessionResume(w)
      PROVE  answer'.kind # "poll"
  BY <1>5, NoteAnswer, SilentAnswer DEF SessionResume, Accept
<1> QED
  BY <1>1, <1>2, <1>3, <1>4, <1>5, AnswerKinds DEF RevokedTokenNotPolled

-----------------------------------------------------------------------------
(***************************************************************************)
(* The theorems.                                                           *)
(***************************************************************************)
IInv == TypeInv /\ AccountInv /\ TokenInv /\ ClockInv /\ StaleSessionExpires
        /\ RevokedTokenNotPolled

LEMMA InitInv == Init => IInv
<1> SUFFICES ASSUME Init
             PROVE  IInv
  OBVIOUS
<1>1. /\ users = {} /\ cache = {} /\ ended = {} /\ now = 0 /\ lastUser = 0
      /\ lastToken = 0 /\ answer = NoAnswer
      /\ task \in [Workers -> Task] /\ \A w \in Workers : task[w].step = "idle"
  BY DEF Init, Task, Idle
<1>2. IsFiniteSet(cache) /\ Cardinality(cache) <= MaxEntries
  BY <1>1, FS_EmptySet, SessionsAssumption
<1>3. answer \in Answer /\ answer.kind = "none"
  BY <1>1 DEF Answer, NoAnswer
<1>4. TypeInv
  BY <1>1, <1>2, <1>3 DEF TypeInv, TypeOK
<1>5. AccountInv /\ TokenInv /\ ClockInv
  BY <1>1 DEF AccountInv, OneSessionPerAccount, TokenInv, ClockInv, Holds
<1> QED
  BY <1>3, <1>4, <1>5 DEF IInv, StaleSessionExpires, RevokedTokenNotPolled

LEMMA StepInv == IInv /\ [Next]_vars => IInv'
BY TypeStep, AccountStep, TokenStep, ClockStep, StaleStep, PollStep DEF IInv

LEMMA Invariance == Spec => []IInv
BY InitInv, StepInv, PTL DEF Spec

\* Type correctness of the sign-in state: among others, one row per device,
\* and a cache within its limit with one entry per device.
THEOREM TypeCorrect == Spec => []TypeOK
<1>1. IInv => TypeOK
  BY DEF IInv, TypeInv
<1> QED
  BY Invariance, <1>1, PTL

\* One account never has two rows, however many devices complete a sign-in at
\* the same time (the transaction in callback and its UNIQUE constraints).
THEOREM OneSession == Spec => []OneSessionPerAccount
<1>1. IInv => OneSessionPerAccount
  BY DEF IInv, AccountInv
<1> QED
  BY Invariance, <1>1, PTL

\* A token that was replaced or revoked is accepted for at most the lifetime
\* of a cache entry and the delay of the query that filled it, also when the
\* query straddles the logout (session and TtlCache).
THEOREM StaleExpires == Spec => []StaleSessionExpires
<1>1. IInv => StaleSessionExpires
  BY DEF IInv
<1> QED
  BY Invariance, <1>1, PTL

\* A poll that begins after a logout or a replacing login was answered does
\* not hand out the token that ended (poll, logout and callback).
THEOREM NotPolled == Spec => []RevokedTokenNotPolled
<1>1. IInv => RevokedTokenNotPolled
  BY DEF IInv
<1> QED
  BY Invariance, <1>1, PTL
=============================================================================
