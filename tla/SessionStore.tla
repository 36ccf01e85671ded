---------------------------- MODULE SessionStore ----------------------------
(***************************************************************************)
(* The in-memory session store of antrea-ui (pkg/auth/session): the map of  *)
(* live sessions, the per-session credential, the single-flight credential  *)
(* refresh, the transports cached in a session, and the sweep that evicts   *)
(* expired sessions.                                                        *)
(*                                                                         *)
(* One process per request goroutine (Threads) and one for the sweep.  A    *)
(* step is what a goroutine does between two lock operations another        *)
(* goroutine can observe: everything done under st.mutex or s.mutex in one  *)
(* critical section is one step, except Create's, which is split in two     *)
(* because the requests that already hold a *Session go on bumping          *)
(* lastSeen while Create holds st.mutex.                                    *)
(*                                                                         *)
(* An operator named Def_Slip is Def with one plausible slip in it; it is   *)
(* used only to confirm that a property would notice the slip.              *)
(***************************************************************************)
EXTENDS Integers, FiniteSets

CONSTANTS
  Threads,               \* request goroutines
  SessionIds,            \* random session IDs; each is drawn at most once
  Users,                 \* usernames the API server resolves a credential to
  NoUser,                \* the empty username, and the empty capKey
  Nobody,                \* the holder of a free lock
  Specs,                 \* the Specs handed to Create
  GrantTTLs,             \* lifetimes of the id_tokens the provider issues
  TransportKeys,         \* <<upstream, version>>; version 0 is a bare key
  OptMaxSessions,        \* Options.MaxSessions, as configured
  OptMaxSessionsPerUser, \* Options.MaxSessionsPerUser, as configured
  DefaultMaxSessions, DefaultMaxSessionsPerUser,
  IdleTimeout, MaxLifetime, RefreshWindow,
  GCBatchSize,
  MaxTime,               \* bound: last clock value
  MaxGrants              \* bound: credentials issued to one session

ASSUME DistinctNames ==
  /\ Nobody \notin Threads /\ Nobody \notin SessionIds
  /\ NoUser \notin Users

ASSUME FiniteIds == IsFiniteSet(SessionIds)

ASSUME OptionTypes ==
  /\ OptMaxSessions \in Int /\ OptMaxSessionsPerUser \in Int
  /\ DefaultMaxSessions \in Nat \ {0} /\ DefaultMaxSessionsPerUser \in Nat \ {0}
  /\ IdleTimeout \in Nat /\ MaxLifetime \in Nat /\ RefreshWindow \in Nat
  /\ GCBatchSize \in Nat \ {0}
  /\ MaxTime \in Nat /\ MaxGrants \in Nat

\* A credential lifetime of 0 stands for a credential without expiry.
SpecType == [mode : {"oidc", "kubeconfig", "admin", "serviceAccountToken"},
             username : Users \cup {NoUser}, ttl : Nat,
             refresher : BOOLEAN, tok : {0, 1}]

ASSUME InputTypes ==
  /\ Specs \subseteq SpecType
  /\ GrantTTLs \subseteq Nat \ {0}
  /\ \A k \in TransportKeys : k = <<k[1], k[2]>> /\ k[2] \in Nat

VARIABLES
  now,          \* the clock
  sessions,     \* the IDs in st.sessions
  sess,         \* the Session object of each ID ever drawn
  storeMutex,   \* who holds st.mutex for writing across steps
  refreshMutex, \* who holds s.refreshMutex
  req,          \* what each request goroutine is doing
  gc,           \* the sweep
  idp           \* the identity provider's side of each session

vars == <<now, sessions, sess, storeMutex, refreshMutex, req, gc, idp>>

NoExpiry == 0
NoToken  == 0

\* Options.setDefaults
MaxSessions == IF OptMaxSessions <= 0 THEN DefaultMaxSessions ELSE OptMaxSessions

PerUserOption == IF OptMaxSessionsPerUser <= 0 THEN DefaultMaxSessionsPerUser
                 ELSE OptMaxSessionsPerUser

MaxSessionsPerUser == IF PerUserOption > MaxSessions THEN MaxSessions ELSE PerUserOption

-----------------------------------------------------------------------------
(* Session objects *)

Transport == [key : TransportKeys, ver : Nat, live : BOOLEAN]

Session == [used : BOOLEAN,                \* the ID has been drawn
            capKey : Users \cup {NoUser}, refresher : BOOLEAN, createdAt : Nat,
            ver : Nat, live : BOOLEAN,     \* credential: which one, not yet zeroed
            credExp : Nat,                 \* credential.ExpiresAt
            tok : Nat,                     \* refreshToken, NoToken for nil
            lastSeen : Nat, expiresAt : Nat,
            transports : SUBSET Transport]

UnusedSession ==
  [used |-> FALSE, capKey |-> NoUser, refresher |-> FALSE, createdAt |-> 0,
   ver |-> 0, live |-> FALSE, credExp |-> NoExpiry, tok |-> NoToken,
   lastSeen |-> 0, expiresAt |-> 0, transports |-> {}]

PerUserCapKey(spec) == IF spec.mode = "admin" THEN NoUser ELSE spec.username

EffectiveExpiry(createdAt, credExp) ==
  IF credExp = NoExpiry \/ credExp > createdAt + MaxLifetime
  THEN createdAt + MaxLifetime ELSE credExp

NewSession(spec) ==
  LET exp == IF spec.ttl = 0 THEN NoExpiry ELSE now + spec.ttl IN
  [used |-> TRUE, capKey |-> PerUserCapKey(spec), refresher |-> spec.refresher,
   createdAt |-> now, ver |-> 1, live |-> TRUE, credExp |-> exp, tok |-> spec.tok,
   lastSeen |-> now, expiresAt |-> EffectiveExpiry(now, exp), transports |-> {}]

Zeroed_KeepsToken(s) == [s EXCEPT !.live = FALSE, !.transports = {}]

\* Session.zero: the material goes, ExpiresAt and the rest stay.
Zeroed(s) == [s EXCEPT !.live = FALSE, !.tok = NoToken, !.transports = {}]

Alive_NoCap(id, t) ==
  /\ \/ sess[id].refresher
     \/ sess[id].credExp = NoExpiry
     \/ t <= sess[id].credExp
  /\ t - sess[id].lastSeen <= IdleTimeout

Alive(id, t) ==
  /\ t <= sess[id].createdAt + MaxLifetime
  /\ \/ sess[id].refresher
     \/ sess[id].credExp = NoExpiry
     \/ t <= sess[id].credExp
  /\ t - sess[id].lastSeen <= IdleTimeout

CredentialExpired(id, t) == sess[id].credExp # NoExpiry /\ t > sess[id].credExp

NeedsRefresh(id, t) ==
  /\ sess[id].refresher
  /\ sess[id].credExp # NoExpiry
  /\ t + RefreshWindow >= sess[id].credExp

-----------------------------------------------------------------------------
(* Requests *)

PCs == {"idle",
        "create", "evict",                          \* Create
        "alive", "refresh", "refreshing", "granted", \* Get
        "check", "touch",
        "have",                                     \* Get returned the session
        "delete", "zero"}                           \* Delete

Request == [pc : PCs, id : SessionIds \cup {Nobody},
            start : Nat,                 \* clock when the operation began
            evict : SUBSET SessionIds,   \* Create: the sessions it is about to drop
            tok : Nat, exp : Nat, grant : Nat] \* refresh: token in flight, credential granted

Idle == [pc |-> "idle", id |-> Nobody, start |-> 0, evict |-> {},
         tok |-> NoToken, exp |-> NoExpiry, grant |-> 0]

Started_NoId(pc, id) == [Idle EXCEPT !.pc = pc, !.start = now]

Started(pc, id) == [Idle EXCEPT !.pc = pc, !.id = id, !.start = now]

Goto(t, pc) == req' = [req EXCEPT ![t].pc = pc, ![t].tok = NoToken,
                                  ![t].exp = NoExpiry, ![t].grant = 0]

Finish(t) == req' = [req EXCEPT ![t] = Idle]

IdPRecord == [tok : Nat,        \* the refresh token it would accept
              grants : Nat,     \* credentials issued so far, the login's included
              lost : BOOLEAN]   \* a rotated token never reached the store

Init ==
  /\ now = 1
  /\ sessions = {}
  /\ sess = [id \in SessionIds |-> UnusedSession]
  /\ storeMutex = Nobody
  /\ refreshMutex = [id \in SessionIds |-> Nobody]
  /\ req = [t \in Threads |-> Idle]
  /\ gc = [todo |-> {}, evicted |-> {}]
  /\ idp = [id \in SessionIds |-> [tok |-> NoToken, grants |-> 0, lost |-> FALSE]]

\* Bound: the clock stops at MaxTime.
Tick ==
  /\ now < MaxTime
  /\ now' = now + 1
  /\ UNCHANGED <<sessions, sess, storeMutex, refreshMutex, req, gc, idp>>

-----------------------------------------------------------------------------
(* Create *)

\* The Session is built, and the clock read, before st.mutex is taken.
CreateBegin(t, id, spec) ==
  /\ req[t].pc = "idle"
  /\ ~sess[id].used
  /\ sess' = [sess EXCEPT ![id] = NewSession(spec)]
  /\ idp' = [idp EXCEPT ![id] = [tok |-> spec.tok, grants |-> 1, lost |-> FALSE]]
  /\ req' = [req EXCEPT ![t] = Started("create", id)]
  /\ UNCHANGED <<now, sessions, storeMutex, refreshMutex, gc>>

Owned(capKey) == {id \in sessions : sess[id].capKey = capKey}

SeenBefore(a, b) ==
  \/ sess[a].lastSeen < sess[b].lastSeen
  \/ sess[a].lastSeen = sess[b].lastSeen /\ sess[a].createdAt < sess[b].createdAt

PerUserVictims_OffByOne(capKey) ==
  LET owned == Owned(capKey)
      excess == Cardinality(owned) - MaxSessionsPerUser
  IN  IF capKey = NoUser \/ excess <= 0 THEN {{}}
      ELSE {E \in SUBSET owned :
              /\ Cardinality(E) = excess
              /\ \A e \in E, k \in owned \ E : ~SeenBefore(k, e)}

PerUserVictims_AnyUser(capKey) ==
  LET excess == Cardinality(Owned(capKey)) - MaxSessionsPerUser + 1
  IN  IF capKey = NoUser \/ excess <= 0 THEN {{}}
      ELSE {E \in SUBSET sessions :
              /\ Cardinality(E) = excess
              /\ \A e \in E, k \in sessions \ E : ~SeenBefore(k, e)}

\* enforcePerUserLimitLocked: the sets of sessions it may drop to leave room for
\* one more under capKey.  The sort is unstable, so ties are broken arbitrarily.
PerUserVictims(capKey) ==
  LET owned == Owned(capKey)
      excess == Cardinality(owned) - MaxSessionsPerUser + 1
  IN  IF capKey = NoUser \/ excess <= 0 THEN {{}}
      ELSE {E \in SUBSET owned :
              /\ Cardinality(E) = excess
              /\ \A e \in E, k \in owned \ E : ~SeenBefore(k, e)}

\* st.mutex is taken, and enforcePerUserLimitLocked picks its victims.
CreateScan(t) ==
  /\ req[t].pc = "create"
  /\ storeMutex = Nobody
  /\ \E E \in PerUserVictims(sess[req[t].id].capKey) :
       req' = [req EXCEPT ![t].pc = "evict", ![t].evict = E]
  /\ storeMutex' = t
  /\ UNCHANGED <<now, sessions, sess, refreshMutex, gc, idp>>

ZeroAll(S) == sess' = [id \in SessionIds |-> IF id \in S THEN Zeroed(sess[id]) ELSE sess[id]]

\* The sessions evictOneExpiredLocked may drop: one that is not alive at the
\* time Create read before it took the lock.
ExpiredAt(t, S) == {id \in S : ~Alive(id, req[t].start)}

\* The victims are dropped and the new session goes in; when the store is full,
\* in the place of one expired session.
CreateInsert(t) ==
  LET id   == req[t].id
      left == sessions \ req[t].evict
  IN
  /\ req[t].pc = "evict"
  /\ \/ /\ Cardinality(left) < MaxSessions
        /\ sessions' = left \cup {id}
        /\ ZeroAll(req[t].evict)
     \/ /\ Cardinality(left) >= MaxSessions
        /\ \E e \in ExpiredAt(t, left) :
             /\ sessions' = (left \ {e}) \cup {id}
             /\ ZeroAll(req[t].evict \cup {e})
  /\ storeMutex' = Nobody
  /\ Finish(t)
  /\ UNCHANGED <<now, refreshMutex, gc, idp>>

CreateRefused_CapFirst(t) ==
  LET left == sessions \ req[t].evict IN
  /\ req[t].pc = "evict"
  /\ Cardinality(sessions) >= MaxSessions
  /\ ExpiredAt(t, left) = {}
  /\ sessions' = left
  /\ ZeroAll(req[t].evict \cup {req[t].id})
  /\ storeMutex' = Nobody
  /\ Finish(t)
  /\ UNCHANGED <<now, refreshMutex, gc, idp>>

\* ErrTooManySessions.  The caller (createSession) zeroes the Spec.
CreateRefused(t) ==
  LET left == sessions \ req[t].evict IN
  /\ req[t].pc = "evict"
  /\ Cardinality(left) >= MaxSessions
  /\ ExpiredAt(t, left) = {}
  /\ sessions' = left
  /\ ZeroAll(req[t].evict \cup {req[t].id})
  /\ storeMutex' = Nobody
  /\ Finish(t)
  /\ UNCHANGED <<now, refreshMutex, gc, idp>>

-----------------------------------------------------------------------------
(* Get *)

\* lookup, under st.mutex.RLock
GetLookup(t, id) ==
  /\ req[t].pc = "idle"
  /\ storeMutex = Nobody
  /\ id \in sessions
  /\ req' = [req EXCEPT ![t] = Started("alive", id)]
  /\ UNCHANGED <<now, sessions, sess, storeMutex, refreshMutex, gc, idp>>

\* ErrNotFound
GetNotFound(t, id) ==
  /\ req[t].pc = "idle"
  /\ storeMutex = Nobody
  /\ id \notin sessions
  /\ UNCHANGED vars

GetAlive_CapOnly(t) ==
  LET id == req[t].id IN
  /\ req[t].pc = "alive"
  /\ Goto(t, IF now > sess[id].createdAt + MaxLifetime THEN "delete"
             ELSE IF NeedsRefresh(id, now) THEN "refresh" ELSE "check")
  /\ UNCHANGED <<now, sessions, sess, storeMutex, refreshMutex, gc, idp>>

\* alive, then maybeRefresh's first needsRefresh, with one reading of the clock
GetAlive(t) ==
  LET id == req[t].id IN
  /\ req[t].pc = "alive"
  /\ Goto(t, IF ~Alive(id, now) THEN "delete"
             ELSE IF NeedsRefresh(id, now) THEN "refresh" ELSE "check")
  /\ UNCHANGED <<now, sessions, sess, storeMutex, refreshMutex, gc, idp>>

RefreshStart_NoMutex(t) ==
  LET id == req[t].id IN
  /\ req[t].pc = "refresh"
  /\ NeedsRefresh(id, now)
  /\ req' = [req EXCEPT ![t].pc = "refreshing", ![t].tok = sess[id].tok]
  /\ refreshMutex' = [refreshMutex EXCEPT ![id] = t]
  /\ UNCHANGED <<now, sessions, sess, storeMutex, gc, idp>>

RefreshStart_NoRecheck(t) ==
  LET id == req[t].id IN
  /\ req[t].pc = "refresh"
  /\ refreshMutex[id] = Nobody
  /\ req' = [req EXCEPT ![t].pc = "refreshing", ![t].tok = sess[id].tok]
  /\ refreshMutex' = [refreshMutex EXCEPT ![id] = t]
  /\ UNCHANGED <<now, sessions, sess, storeMutex, gc, idp>>

\* s.refreshMutex is taken, the need re-checked with a fresh clock, and the
\* refresh token copied and sent.
RefreshStart(t) ==
  LET id == req[t].id IN
  /\ req[t].pc = "refresh"
  /\ refreshMutex[id] = Nobody
  /\ NeedsRefresh(id, now)
  /\ req' = [req EXCEPT ![t].pc = "refreshing", ![t].tok = sess[id].tok]
  /\ refreshMutex' = [refreshMutex EXCEPT ![id] = t]
  /\ UNCHANGED <<now, sessions, sess, storeMutex, gc, idp>>

\* Another goroutine refreshed the credential while this one waited.
RefreshSkip(t) ==
  LET id == req[t].id IN
  /\ req[t].pc = "refresh"
  /\ refreshMutex[id] = Nobody
  /\ ~NeedsRefresh(id, now)
  /\ Goto(t, "check")
  /\ UNCHANGED <<now, sessions, sess, storeMutex, refreshMutex, gc, idp>>

\* The identity provider accepts the token it last issued and issues a new
\* credential; one that rotates refresh tokens burns the old one here.
\* Bound: MaxGrants credentials per session.
RefreshGrant(t, ttl, rotate) ==
  LET id == req[t].id
      n  == idp[id].grants + 1
  IN
  /\ req[t].pc = "refreshing"
  /\ req[t].tok # NoToken /\ req[t].tok = idp[id].tok
  /\ n <= MaxGrants
  /\ req' = [req EXCEPT ![t].pc = "granted", ![t].grant = n, ![t].exp = now + ttl,
                        ![t].tok = IF rotate THEN n ELSE NoToken]
  /\ idp' = [idp EXCEPT ![id].grants = n, ![id].tok = IF rotate THEN n ELSE @]
  /\ UNCHANGED <<now, sessions, sess, storeMutex, refreshMutex, gc>>

RefreshFail_KeepsMutex(t) ==
  LET id == req[t].id IN
  /\ req[t].pc \in {"refreshing", "granted"}
  /\ idp' = [idp EXCEPT ![id].lost = @ \/ (req[t].pc = "granted" /\ req[t].tok # NoToken)]
  /\ Goto(t, "check")
  /\ UNCHANGED <<now, sessions, sess, storeMutex, refreshMutex, gc>>

\* Refresh returns an error: no token to send, token refused, provider
\* unreachable, refreshTimeout, or the answer lost or not verifiable after the
\* provider has already rotated the token.  Not fatal to the session.
RefreshFail(t) ==
  LET id == req[t].id IN
  /\ req[t].pc \in {"refreshing", "granted"}
  /\ refreshMutex' = [refreshMutex EXCEPT ![id] = Nobody]
  /\ idp' = [idp EXCEPT ![id].lost = @ \/ (req[t].pc = "granted" /\ req[t].tok # NoToken)]
  /\ Goto(t, "check")
  /\ UNCHANGED <<now, sessions, sess, storeMutex, gc>>

Refreshed_KeepsTransports(s, r) ==
  [s EXCEPT !.ver = r.grant, !.live = TRUE, !.credExp = r.exp,
            !.tok = IF r.tok # NoToken THEN r.tok ELSE @,
            !.expiresAt = EffectiveExpiry(s.createdAt, r.exp)]

\* applyRefresh's assignments, for the answer in r
Refreshed(s, r) ==
  [s EXCEPT !.ver = r.grant, !.live = TRUE, !.credExp = r.exp,
            !.tok = IF r.tok # NoToken THEN r.tok ELSE @,
            !.transports = {},
            !.expiresAt = EffectiveExpiry(s.createdAt, r.exp)]

ApplyRefresh(t) ==
  LET id == req[t].id IN
  /\ req[t].pc = "granted"
  /\ sess' = [sess EXCEPT ![id] = Refreshed(@, req[t])]
  /\ refreshMutex' = [refreshMutex EXCEPT ![id] = Nobody]
  /\ Goto(t, "check")
  /\ UNCHANGED <<now, sessions, storeMutex, gc, idp>>

\* credentialExpired, with a fresh clock
GetCheck(t) ==
  /\ req[t].pc = "check"
  /\ Goto(t, IF CredentialExpired(req[t].id, now) THEN "delete" ELSE "touch")
  /\ UNCHANGED <<now, sessions, sess, storeMutex, refreshMutex, gc, idp>>

GetTouch(t) ==
  /\ req[t].pc = "touch"
  /\ sess' = [sess EXCEPT ![req[t].id].lastSeen = now]
  /\ Goto(t, "have")
  /\ UNCHANGED <<now, sessions, storeMutex, refreshMutex, gc, idp>>

-----------------------------------------------------------------------------
(* What a request does with the session Get returned *)

\* dropSupersededTransportsLocked: other versions of the same upstream
Superseded(id, key) ==
  {tr \in sess[id].transports :
     key[2] # 0 /\ tr.key # key /\ tr.key[1] = key[1] /\ tr.key[2] # 0}

\* transportFor: return the cached transport, or drop the superseded ones and
\* build one from the credential the session holds now, which may fail (ok).
UseTransport(t, key, ok) ==
  LET id == req[t].id
      built == [key |-> key, ver |-> sess[id].ver, live |-> sess[id].live]
  IN
  /\ req[t].pc = "have"
  /\ IF \E tr \in sess[id].transports : tr.key = key
     THEN UNCHANGED sess
     ELSE sess' = [sess EXCEPT ![id].transports =
                     (@ \ Superseded(id, key)) \cup (IF ok THEN {built} ELSE {})]
  /\ UNCHANGED <<now, sessions, storeMutex, refreshMutex, req, gc, idp>>

RequestDone(t) ==
  /\ req[t].pc = "have"
  /\ Finish(t)
  /\ UNCHANGED <<now, sessions, sess, storeMutex, refreshMutex, gc, idp>>

\* Invalidate, on an upstream 401
Invalidate(t) ==
  /\ req[t].pc = "have"
  /\ Goto(t, "delete")
  /\ UNCHANGED <<now, sessions, sess, storeMutex, refreshMutex, gc, idp>>

-----------------------------------------------------------------------------
(* Delete, on behalf of a logout (DeleteBegin), of Get or of Invalidate *)

DeleteBegin(t, id) ==
  /\ req[t].pc = "idle"
  /\ req' = [req EXCEPT ![t] = Started("delete", id)]
  /\ UNCHANGED <<now, sessions, sess, storeMutex, refreshMutex, gc, idp>>

DeleteRemove_NoZero(t) ==
  LET id == req[t].id IN
  /\ req[t].pc = "delete"
  /\ storeMutex = Nobody
  /\ sessions' = sessions \ {id}
  /\ Finish(t)
  /\ UNCHANGED <<now, sess, storeMutex, refreshMutex, gc, idp>>

DeleteRemove(t) ==
  LET id == req[t].id IN
  /\ req[t].pc = "delete"
  /\ storeMutex = Nobody
  /\ sessions' = sessions \ {id}
  /\ IF id \in sessions THEN Goto(t, "zero") ELSE Finish(t)
  /\ UNCHANGED <<now, sess, storeMutex, refreshMutex, gc, idp>>

DeleteZero(t) ==
  /\ req[t].pc = "zero"
  /\ ZeroAll({req[t].id})
  /\ Finish(t)
  /\ UNCHANGED <<now, sessions, storeMutex, refreshMutex, gc, idp>>

-----------------------------------------------------------------------------
(* The sweep *)

\* doGC's snapshot of the expired IDs, under st.mutex.RLock
GCSnapshot ==
  /\ gc.todo = {} /\ gc.evicted = {}
  /\ storeMutex = Nobody
  /\ gc' = [gc EXCEPT !.todo = {id \in sessions : ~Alive(id, now)}]
  /\ UNCHANGED <<now, sessions, sess, storeMutex, refreshMutex, req, idp>>

GCBatch_NoZero ==
  /\ gc.todo # {} /\ gc.evicted = {}
  /\ storeMutex = Nobody
  /\ \E B \in SUBSET gc.todo :
       /\ Cardinality(B) <= GCBatchSize
       /\ B = gc.todo \/ Cardinality(B) = GCBatchSize
       /\ sessions' = sessions \ B
       /\ gc' = [todo |-> gc.todo \ B, evicted |-> {}]
  /\ UNCHANGED <<now, sess, storeMutex, refreshMutex, req, idp>>

\* One batch of deletions under st.mutex.  Aliveness is not checked again.
GCBatch ==
  /\ gc.todo # {} /\ gc.evicted = {}
  /\ storeMutex = Nobody
  /\ \E B \in SUBSET gc.todo :
       /\ Cardinality(B) <= GCBatchSize
       /\ B = gc.todo \/ Cardinality(B) = GCBatchSize
       /\ sessions' = sessions \ B
       /\ gc' = [todo |-> gc.todo \ B, evicted |-> B \cap sessions]
  /\ UNCHANGED <<now, sess, storeMutex, refreshMutex, req, idp>>

\* The evicted sessions are zeroed one by one, outside st.mutex.
GCZero(id) ==
  /\ id \in gc.evicted
  /\ ZeroAll({id})
  /\ gc' = [gc EXCEPT !.evicted = @ \ {id}]
  /\ UNCHANGED <<now, sessions, storeMutex, refreshMutex, req, idp>>

-----------------------------------------------------------------------------
Create(t) ==
  \/ \E id \in SessionIds, spec \in Specs : CreateBegin(t, id, spec)
  \/ CreateScan(t) \/ CreateInsert(t) \/ CreateRefused(t)

Get(t) ==
  \/ \E id \in SessionIds : GetLookup(t, id) \/ GetNotFound(t, id)
  \/ GetAlive(t)
  \/ RefreshStart(t) \/ RefreshSkip(t)
  \/ \E ttl \in GrantTTLs, rotate \in BOOLEAN : RefreshGrant(t, ttl, rotate)
  \/ RefreshFail(t) \/ ApplyRefresh(t)
  \/ GetCheck(t) \/ GetTouch(t)

Use(t) ==
  \/ \E key \in TransportKeys, ok \in BOOLEAN : UseTransport(t, key, ok)
  \/ RequestDone(t) \/ Invalidate(t)

Delete(t) ==
  \/ \E id \in SessionIds : DeleteBegin(t, id)
  \/ DeleteRemove(t) \/ DeleteZero(t)

doGC == GCSnapshot \/ GCBatch \/ \E id \in SessionIds : GCZero(id)

Next ==
  \/ Tick
  \/ \E t \in Threads : Create(t) \/ Get(t) \/ Use(t) \/ Delete(t)
  \/ doGC

Spec == Init /\ [][Next]_vars

(***************************************************************************)
(* Fairness.  A goroutine inside an operation is scheduled until it is done *)
(* (a refresh because refreshTimeout bounds it), and the sweep runs every   *)
(* gcPeriod.  Go's mutexes do not starve a waiter, hence strong fairness    *)
(* for the steps that wait for one.  Nothing makes a client send a request, *)
(* a provider answer, or the clock advance.                                 *)
(***************************************************************************)
Running(t) ==
  \/ CreateInsert(t) \/ CreateRefused(t)
  \/ GetAlive(t) \/ RefreshFail(t) \/ ApplyRefresh(t) \/ GetCheck(t) \/ GetTouch(t)
  \/ RequestDone(t) \/ DeleteZero(t)

Waiting(t) == CreateScan(t) \/ RefreshStart(t) \/ RefreshSkip(t) \/ DeleteRemove(t)

Fairness ==
  /\ \A t \in Threads : WF_vars(Running(t)) /\ SF_vars(Waiting(t))
  /\ SF_vars(GCSnapshot) /\ SF_vars(GCBatch)
  /\ WF_vars(\E id \in SessionIds : GCZero(id))

FairSpec == Spec /\ Fairness

-----------------------------------------------------------------------------
(* Properties *)

\* Type invariant.
TypeOK ==
  /\ now \in Nat
  /\ sessions \subseteq SessionIds
  /\ sess \in [SessionIds -> Session]
  /\ storeMutex \in Threads \cup {Nobody}
  /\ refreshMutex \in [SessionIds -> Threads \cup {Nobody}]
  /\ req \in [Threads -> Request]
  /\ \A t \in Threads : req[t].pc # "idle" => req[t].id \in SessionIds
  /\ gc \in [todo : SUBSET SessionIds, evicted : SUBSET SessionIds]
  /\ idp \in [SessionIds -> IdPRecord]

\* The store never holds more than MaxSessions sessions, nor more than
\* MaxSessionsPerUser of one identity, however logins, logouts and sweeps
\* interleave (Create: enforcePerUserLimitLocked, then the global cap).
WithinCaps ==
  /\ Cardinality(sessions) <= MaxSessions
  /\ \A u \in Users : Cardinality(Owned(u)) <= MaxSessionsPerUser

InCreate(t) == req[t].pc \in {"create", "evict"}

InRefresh(t) == req[t].pc \in {"refreshing", "granted"}

\* A Session that is out of the store for good, and that no goroutine is still
\* on its way to zero.
Ended(id) ==
  /\ sess[id].used
  /\ id \notin sessions
  /\ id \notin gc.evicted
  /\ \A t \in Threads : req[t].id = id => ~InCreate(t) /\ req[t].pc # "zero"

Wiped(id) == ~sess[id].live /\ sess[id].tok = NoToken

\* Nothing of an ended session is left, and no refresh of it that is under way has
\* a token to offer or an answer to install.
Gone(id) ==
  /\ Ended(id) /\ Wiped(id)
  /\ \A t \in Threads :
       req[t].id = id /\ InRefresh(t) => req[t].pc = "refreshing" /\ req[t].tok = NoToken

\* Whatever ends a session (logout, Get, 401, the sweep, a login over the caps, a
\* refused login), the step that ends it overwrites its credential and its refresh
\* token, also while a refresh of it is under way; and only such a refresh, which had
\* sent the token before, can bring a credential back (zero, applyRefresh).
EndedSessionZeroed ==
  [][\A id \in SessionIds :
       /\ ~Ended(id) /\ Ended(id)' => Wiped(id)'
       /\ Gone(id) => Gone(id)']_vars

\* maybeRefresh is single-flight: concurrent requests never present a refresh
\* token that an earlier refresh has rotated away, unless the answer carrying
\* the new token was lost.
BurntTokenOnlyAfterLoss ==
  \A t \in Threads :
    req[t].pc = "refreshing" /\ req[t].tok # NoToken
      => idp[req[t].id].lost \/ req[t].tok = idp[req[t].id].tok

\* A request that waited for another's refresh does not start its own: every
\* refresh in flight is for a credential that is still due.
RefreshOnlyWhenDue ==
  \A t \in Threads : InRefresh(t) => NeedsRefresh(req[t].id, now)

\* Get never hands out a session to a request that began after the session's
\* absolute cap, or after the expiry of a credential nothing can renew, even if
\* another request revived the session in between.
AdmittedWithinLife ==
  \A t \in Threads : LET s == sess[req[t].id] IN
    req[t].pc \in {"touch", "have"} =>
      /\ req[t].start <= s.createdAt + MaxLifetime
      /\ s.refresher \/ s.credExp = NoExpiry \/ req[t].start <= s.credExp

\* A session that has expired, which the sweep may already have listed, comes back to
\* life only when a request returns that Get let in while the session was alive (the
\* sweep does not look again: it then takes a session its user has just used).
OnlyGuestsRevive ==
  [][\A id \in sessions : id \in sessions' /\ ~Alive(id, now) /\ Alive(id, now)' =>
       \E t \in Threads : req[t].pc = "touch" /\ req[t].id = id /\ Alive(id, req[t].start)]_vars

\* A cached transport authenticates with the credential the session holds now,
\* never with one a refresh has replaced, and a versioned upstream has at most
\* one (applyRefresh, zero, dropSupersededTransportsLocked).
TransportsCurrent ==
  \A id \in SessionIds : \A tr \in sess[id].transports :
    /\ tr.ver = sess[id].ver /\ tr.live = sess[id].live
    /\ \A other \in sess[id].transports :
         other.key[1] = tr.key[1] /\ other.key[2] # 0 /\ tr.key[2] # 0 => other = tr

\* The expiry GET /auth/session reports is never past the absolute cap nor past
\* the expiry of the credential held, across refreshes.
ReportedExpiryHonest ==
  \A id \in SessionIds : sess[id].used =>
    /\ sess[id].expiresAt <= sess[id].createdAt + MaxLifetime
    /\ sess[id].credExp # NoExpiry => sess[id].expiresAt <= sess[id].credExp

\* No two requests racing through Get move a session's last-seen time back.
LastSeenMonotone ==
  [][\A id \in SessionIds : sess[id].used => sess'[id].lastSeen >= sess[id].lastSeen]_vars

\* A login pushes out only sessions of its own identity, and one that had
\* expired when it began; a static-admin login, or one without a username,
\* only the latter.
LoginEvictsOwnOrExpired ==
  [][\A t \in Threads : req[t].pc = "evict" /\ req'[t].pc = "idle" =>
       \E spared \in SUBSET SessionIds :
         /\ Cardinality(spared) <= 1
         /\ spared \subseteq ExpiredAt(t, SessionIds)
         /\ \A id \in (sessions \ sessions') \ spared :
              sess[req[t].id].capKey \in Users /\ sess[id].capKey = sess[req[t].id].capKey]_vars

\* A refused login (ErrTooManySessions) costs nobody a session, and is never
\* the fault of the refused user's own sessions alone.
RefusalIsClean ==
  [][\A t \in Threads : req[t].pc = "evict" /\ req'[t].pc = "idle" /\ req[t].id \notin sessions' =>
       /\ sessions' = sessions
       /\ sess[req[t].id].capKey \in Users => sessions # Owned(sess[req[t].id].capKey)]_vars

\* A call of Get always returns: a failed, slow or lost refresh never leaves
\* the requests queued on refreshMutex waiting for ever.
GetReturns ==
  \A t \in Threads :
    req[t].pc \in {"alive", "refresh", "refreshing", "granted", "check", "touch"}
      ~> req[t].pc \in {"idle", "have"}

\* A session past its absolute cap leaves the store, and its credential is
\* zeroed if nothing can renew it.
ExpiredSwept ==
  \A id \in SessionIds :
    id \in sessions /\ now > sess[id].createdAt + MaxLifetime
      ~> id \notin sessions /\ (sess[id].refresher \/ ~sess[id].live)
=============================================================================
