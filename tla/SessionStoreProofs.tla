------------------------- MODULE SessionStoreProofs -------------------------
(* Theorems about SessionStore, for every value of its constants. *)
EXTENDS SessionStore, FiniteSetTheorems, TLAPS

-----------------------------------------------------------------------------
(* Typing *)

\* The caps setDefaults settles on are positive, and the per-user one is within
\* the global one.
LEMMA CapsPositive ==
  /\ MaxSessions \in Nat \ {0}
  /\ MaxSessionsPerUser \in Nat \ {0}
  /\ MaxSessionsPerUser <= MaxSessions
BY OptionTypes DEF MaxSessions, MaxSessionsPerUser, PerUserOption

\* Reading a credential's lifetime off the clock gives a well-typed session.
LEMMA NewSessionType ==
  ASSUME now \in Nat, NEW spec \in Specs
  PROVE  NewSession(spec) \in Session
BY InputTypes, OptionTypes
   DEF NewSession, Session, SpecType, PerUserCapKey, EffectiveExpiry, NoExpiry

\* zero() leaves a well-typed session.
LEMMA ZeroedType == ASSUME NEW s \in Session PROVE Zeroed(s) \in Session
BY DEF Zeroed, Session, NoToken

\* applyRefresh leaves a well-typed session.
LEMMA RefreshedType ==
  ASSUME NEW s \in Session, NEW r \in Request
  PROVE  Refreshed(s, r) \in Session
<1> DEFINE x == EffectiveExpiry(s.createdAt, r.exp)
           k == IF r.tok # NoToken THEN r.tok ELSE s.tok
<1>1. x \in Nat /\ k \in Nat
  BY OptionTypes DEF EffectiveExpiry, Session, Request, NoExpiry
<1>2. Refreshed(s, r) = [s EXCEPT !.ver = r.grant, !.live = TRUE, !.credExp = r.exp,
                                  !.tok = k, !.transports = {}, !.expiresAt = x]
  BY DEF Refreshed
<1>3. r.grant \in Nat /\ r.exp \in Nat
  BY DEF Request
<1> HIDE DEF x, k
<1> QED
  BY <1>1, <1>2, <1>3 DEF Session

\* A finished request is a request.
LEMMA IdleType == Idle \in Request /\ Idle.pc = "idle"
BY DEF Idle, Request, NoToken, NoExpiry, PCs

\* A request that starts an operation is a request, for the session it names.
LEMMA StartedType ==
  ASSUME now \in Nat, NEW id \in SessionIds, NEW pc \in PCs
  PROVE  Started(pc, id) \in Request /\ Started(pc, id).id = id /\ Started(pc, id).pc = pc
BY DEF Idle, Request, Started, NoToken, NoExpiry, PCs

\* A request that moves on within an operation is a request, for the same session.
LEMMA MovedType ==
  ASSUME NEW r \in Request, NEW pc \in PCs
  PROVE  LET m == [r EXCEPT !.pc = pc, !.tok = NoToken, !.exp = NoExpiry, !.grant = 0]
         IN  m \in Request /\ m.id = r.id /\ m.pc = pc
BY DEF Request, NoToken, NoExpiry

\* So is one that chose its victims, sent its refresh token, or got an answer.
LEMMA StepTypes ==
  ASSUME NEW r \in Request, NEW E \in SUBSET SessionIds,
         NEW n \in Nat, NEW x \in Nat, NEW k \in Nat
  PROVE  /\ [r EXCEPT !.pc = "evict", !.evict = E] \in Request
         /\ [r EXCEPT !.pc = "refreshing", !.tok = k] \in Request
         /\ [r EXCEPT !.pc = "granted", !.grant = n, !.exp = x, !.tok = k] \in Request
<1>1. {"evict", "refreshing", "granted"} \subseteq PCs
  BY DEF PCs
<1>2. [r EXCEPT !.pc = "evict", !.evict = E] \in Request
  BY <1>1 DEF Request
<1>3. [r EXCEPT !.pc = "refreshing", !.tok = k] \in Request
  BY <1>1 DEF Request
<1>4. [r EXCEPT !.pc = "granted", !.grant = n, !.exp = x, !.tok = k] \in Request
  BY <1>1 DEF Request
<1> QED
  BY <1>2, <1>3, <1>4

\* Updates of the provider's record.
LEMMA IdPType ==
  ASSUME NEW d \in IdPRecord, NEW n \in Nat, NEW k \in Nat, NEW b \in BOOLEAN
  PROVE  [d EXCEPT !.grants = n, !.tok = k] \in IdPRecord /\ [d EXCEPT !.lost = b] \in IdPRecord
BY DEF IdPRecord

\* Every step preserves the type invariant.
LEMMA TypeStep == TypeOK /\ [Next]_vars => TypeOK'
<1> SUFFICES ASSUME TypeOK, [Next]_vars PROVE TypeOK'
  OBVIOUS
<1> USE CapsPositive, OptionTypes, InputTypes, DistinctNames
<1>1. CASE Tick
  BY <1>1 DEF Tick, TypeOK
<1>2. ASSUME NEW t \in Threads, Create(t) PROVE TypeOK'
  <2>1. ASSUME NEW id \in SessionIds, NEW spec \in Specs, CreateBegin(t, id, spec) PROVE TypeOK'
    <3>1. NewSession(spec) \in Session /\ Started("create", id) \in Request
      BY NewSessionType, StartedType DEF TypeOK, PCs
    <3>2. spec.tok \in Nat
      BY DEF SpecType
    <3>3. Started("create", id).id \in SessionIds
      BY StartedType DEF TypeOK, PCs
    <3>4. idp' \in [SessionIds -> IdPRecord]
      BY <2>1, <3>2 DEF CreateBegin, TypeOK, IdPRecord
    <3> QED
      BY <2>1, <3>1, <3>3, <3>4 DEF CreateBegin, TypeOK
  <2>2. CASE CreateScan(t)
    <3>1. PICK E \in PerUserVictims(sess[req[t].id].capKey) :
             req' = [req EXCEPT ![t].pc = "evict", ![t].evict = E]
      BY <2>2 DEF CreateScan
    <3>2. E \in SUBSET SessionIds
      BY <3>1 DEF PerUserVictims, Owned, TypeOK
    <3> DEFINE m == [req[t] EXCEPT !.pc = "evict", !.evict = E]
    <3>3. m \in Request /\ m.id = req[t].id
      <4>1. req[t] \in Request
        BY DEF TypeOK
      <4>2. m \in Request
        BY <3>2, <4>1, StepTypes
      <4> QED
        BY <4>1, <4>2 DEF Request
    <3>4. req' = [req EXCEPT ![t] = m]
      BY <3>1 DEF TypeOK, Request
    <3> QED
      BY <2>2, <3>3, <3>4 DEF CreateScan, TypeOK
  <2>3. ASSUME NEW S, ZeroAll(S) PROVE sess' \in [SessionIds -> Session]
    BY <2>3, ZeroedType DEF ZeroAll, TypeOK
  <2>4. Finish(t) => /\ req' \in [Threads -> Request]
                     /\ \A u \in Threads : req'[u].pc # "idle" => req'[u].id \in SessionIds
    BY IdleType DEF Finish, TypeOK
  <2>5. CASE CreateInsert(t)
    <3>1. req[t].id \in SessionIds
      BY <2>5 DEF CreateInsert, TypeOK
    <3> QED
      BY <2>5, <2>3, <2>4, <3>1 DEF CreateInsert, TypeOK
  <2>6. CASE CreateRefused(t)
    BY <2>6, <2>3, <2>4 DEF CreateRefused, TypeOK
  <2> QED
    BY <1>2, <2>1, <2>2, <2>5, <2>6 DEF Create
<1>3. ASSUME NEW t \in Threads, NEW pc \in PCs, Goto(t, pc), req[t].pc # "idle"
      PROVE  /\ req' \in [Threads -> Request]
             /\ \A u \in Threads : req'[u].pc # "idle" => req'[u].id \in SessionIds
  <2> DEFINE m == [req[t] EXCEPT !.pc = pc, !.tok = NoToken, !.exp = NoExpiry, !.grant = 0]
  <2>1. m \in Request /\ m.id = req[t].id
    BY MovedType DEF TypeOK
  <2>2. req' = [req EXCEPT ![t] = m]
    BY <1>3 DEF Goto, TypeOK, Request
  <2> QED
    BY <1>3, <2>1, <2>2 DEF TypeOK
<1>4. ASSUME NEW t \in Threads, Finish(t)
      PROVE  /\ req' \in [Threads -> Request]
             /\ \A u \in Threads : req'[u].pc # "idle" => req'[u].id \in SessionIds
  BY <1>4, IdleType DEF Finish, TypeOK
<1>5. ASSUME NEW t \in Threads, NEW pc \in PCs, NEW id \in SessionIds,
             req' = [req EXCEPT ![t] = Started(pc, id)]
      PROVE  /\ req' \in [Threads -> Request]
             /\ \A u \in Threads : req'[u].pc # "idle" => req'[u].id \in SessionIds
  <2>1. Started(pc, id) \in Request /\ Started(pc, id).id = id
    BY StartedType DEF TypeOK
  <2> QED
    BY <1>5, <2>1 DEF TypeOK
<1>6. ASSUME NEW t \in Threads, Get(t) PROVE TypeOK'
  <2>1. ASSUME NEW id \in SessionIds, GetLookup(t, id) PROVE TypeOK'
    <3>1. "alive" \in PCs
      BY DEF PCs
    <3> QED
      BY <2>1, <3>1, <1>5 DEF GetLookup, TypeOK
  <2>2. ASSUME NEW id \in SessionIds, GetNotFound(t, id) PROVE TypeOK'
    BY <2>2 DEF GetNotFound, vars, TypeOK
  <2>3. CASE GetAlive(t)
    <3>1. PICK pc \in {"delete", "refresh", "check"} : Goto(t, pc)
      BY <2>3 DEF GetAlive
    <3> QED
      BY <2>3, <3>1, <1>3 DEF GetAlive, TypeOK, PCs
  <2>4. CASE RefreshStart(t)
    <3>1. req[t].id \in SessionIds /\ sess[req[t].id].tok \in Nat
      BY <2>4 DEF RefreshStart, TypeOK, Session
    <3> DEFINE m == [req[t] EXCEPT !.pc = "refreshing", !.tok = sess[req[t].id].tok]
    <3>2. m \in Request /\ m.id = req[t].id
      <4>1. req[t] \in Request
        BY DEF TypeOK
      <4>2. m \in Request
        BY <3>1, <4>1, StepTypes
      <4> QED
        BY <4>1, <4>2 DEF Request
    <3>3. req' = [req EXCEPT ![t] = m]
      BY <2>4 DEF RefreshStart, TypeOK, Request
    <3> QED
      BY <2>4, <3>1, <3>2, <3>3 DEF RefreshStart, TypeOK
  <2>5. CASE RefreshSkip(t)
    BY <2>5, <1>3 DEF RefreshSkip, TypeOK, PCs
  <2>6. ASSUME NEW ttl \in GrantTTLs, NEW rotate \in BOOLEAN, RefreshGrant(t, ttl, rotate)
        PROVE  TypeOK'
    <3> DEFINE id == req[t].id
               n == idp[id].grants + 1
               tok == IF rotate THEN n ELSE NoToken
    <3>1. id \in SessionIds /\ idp[id] \in IdPRecord
      BY <2>6 DEF RefreshGrant, TypeOK
    <3>2. n \in Nat /\ tok \in Nat /\ now + ttl \in Nat
      BY <3>1 DEF IdPRecord, NoToken, TypeOK
    <3>3. /\ req' = [req EXCEPT ![t].pc = "granted", ![t].grant = n,
                                ![t].exp = now + ttl, ![t].tok = tok]
          /\ idp' = [idp EXCEPT ![id].grants = n, ![id].tok = IF rotate THEN n ELSE @]
      BY <2>6 DEF RefreshGrant
    <3> DEFINE m == [req[t] EXCEPT !.pc = "granted", !.grant = n, !.exp = now + ttl, !.tok = tok]
    <3> HIDE DEF n, tok, id
    <3>4. m \in Request /\ m.id = req[t].id
      <4>1. req[t] \in Request
        BY DEF TypeOK
      <4>2. m \in Request
        BY <3>2, <4>1, StepTypes
      <4> QED
        BY <4>1, <4>2 DEF Request
    <3>5. req' = [req EXCEPT ![t] = m]
      BY <3>3 DEF TypeOK, Request
    <3>6. idp' \in [SessionIds -> IdPRecord]
      <4> DEFINE k == IF rotate THEN n ELSE idp[id].tok
                 d == [idp[id] EXCEPT !.grants = n, !.tok = k]
      <4>1. k \in Nat
        BY <3>1, <3>2 DEF IdPRecord
      <4>2. d \in IdPRecord
        BY <3>1, <3>2, <4>1, IdPType
      <4>3. idp' = [idp EXCEPT ![id] = d]
        BY <3>1, <3>3 DEF TypeOK, IdPRecord
      <4> QED
        BY <3>1, <4>2, <4>3 DEF TypeOK
    <3>7. UNCHANGED <<now, sessions, sess, storeMutex, refreshMutex, gc>>
      BY <2>6 DEF RefreshGrant
    <3>8. req[t].id \in SessionIds
      BY <3>1 DEF id
    <3> HIDE DEF m
    <3> QED
      BY <3>4, <3>5, <3>6, <3>7, <3>8 DEF TypeOK
  <2>7. CASE RefreshFail(t)
    <3>1. req[t].id \in SessionIds /\ req[t].pc # "idle"
      BY <2>7 DEF RefreshFail, TypeOK
    <3>2. PICK b \in BOOLEAN : idp' = [idp EXCEPT ![req[t].id].lost = b]
      BY <2>7, <3>1 DEF RefreshFail, TypeOK, IdPRecord
    <3>5. idp' \in [SessionIds -> IdPRecord]
      BY <3>1, <3>2 DEF TypeOK, IdPRecord
    <3>3. refreshMutex' \in [SessionIds -> Threads \cup {Nobody}]
      BY <2>7, <3>1 DEF RefreshFail, TypeOK
    <3>4. "check" \in PCs
      BY DEF PCs
    <3> QED
      BY <2>7, <3>1, <3>3, <3>4, <3>5, <1>3 DEF RefreshFail, TypeOK
  <2>8. CASE ApplyRefresh(t)
    <3>1. req[t].id \in SessionIds /\ req[t].pc # "idle" /\ req[t] \in Request
      BY <2>8 DEF ApplyRefresh, TypeOK
    <3>2. sess' \in [SessionIds -> Session]
      BY <2>8, <3>1, RefreshedType DEF ApplyRefresh, TypeOK
    <3>3. "check" \in PCs
      BY DEF PCs
    <3> QED
      BY <2>8, <3>1, <3>2, <3>3, <1>3 DEF ApplyRefresh, TypeOK
  <2>9. CASE GetCheck(t)
    <3>1. PICK pc \in {"delete", "touch"} : Goto(t, pc)
      BY <2>9 DEF GetCheck
    <3> QED
      BY <2>9, <3>1, <1>3 DEF GetCheck, TypeOK, PCs
  <2>10. CASE GetTouch(t)
    <3>1. sess' \in [SessionIds -> Session]
      BY <2>10 DEF GetTouch, TypeOK, Session
    <3> QED
      BY <2>10, <3>1, <1>3 DEF GetTouch, TypeOK, PCs
  <2> QED
    BY <1>6, <2>1, <2>2, <2>3, <2>4, <2>5, <2>6, <2>7, <2>8, <2>9, <2>10 DEF Get
<1>7. ASSUME NEW t \in Threads, Use(t) PROVE TypeOK'
  <2>1. ASSUME NEW key \in TransportKeys, NEW ok \in BOOLEAN, UseTransport(t, key, ok)
        PROVE  TypeOK'
    <3> DEFINE id == req[t].id
               built == [key |-> key, ver |-> sess[id].ver, live |-> sess[id].live]
               trs == (sess[id].transports \ Superseded(id, key)) \cup (IF ok THEN {built} ELSE {})
    <3>1. id \in SessionIds /\ sess[id] \in Session
      BY <2>1 DEF UseTransport, TypeOK
    <3>2. trs \in SUBSET Transport
      BY <3>1 DEF Session, Transport
    <3>3. sess' = sess \/ sess' = [sess EXCEPT ![id].transports = trs]
      BY <2>1 DEF UseTransport
    <3> HIDE DEF trs, id
    <3>4. sess' \in [SessionIds -> Session]
      BY <3>1, <3>2, <3>3 DEF TypeOK, Session
    <3> QED
      BY <2>1, <3>4 DEF UseTransport, TypeOK
  <2>2. CASE RequestDone(t)
    BY <2>2, <1>4 DEF RequestDone, TypeOK
  <2>3. CASE Invalidate(t)
    BY <2>3, <1>3 DEF Invalidate, TypeOK, PCs
  <2> QED
    BY <1>7, <2>1, <2>2, <2>3 DEF Use
<1>8. ASSUME NEW t \in Threads, Delete(t) PROVE TypeOK'
  <2>1. ASSUME NEW id \in SessionIds, DeleteBegin(t, id) PROVE TypeOK'
    <3>1. "delete" \in PCs
      BY DEF PCs
    <3> QED
      BY <2>1, <3>1, <1>5 DEF DeleteBegin, TypeOK
  <2>2. CASE DeleteRemove(t)
    <3>1. "zero" \in PCs
      BY DEF PCs
    <3> QED
      BY <2>2, <3>1, <1>3, <1>4 DEF DeleteRemove, TypeOK
  <2>3. CASE DeleteZero(t)
    BY <2>3, <1>4, ZeroedType DEF DeleteZero, ZeroAll, TypeOK
  <2> QED
    BY <1>8, <2>1, <2>2, <2>3 DEF Delete
<1>9. CASE doGC
  <2>1. CASE GCSnapshot
    BY <2>1 DEF GCSnapshot, TypeOK
  <2>2. CASE GCBatch
    BY <2>2 DEF GCBatch, TypeOK
  <2>3. ASSUME NEW id \in SessionIds, GCZero(id) PROVE TypeOK'
    BY <2>3, ZeroedType DEF GCZero, ZeroAll, TypeOK
  <2> QED
    BY <1>9, <2>1, <2>2, <2>3 DEF doGC
<1>10. CASE UNCHANGED vars
  BY <1>10 DEF vars, TypeOK
<1> QED
  BY <1>1, <1>2, <1>6, <1>7, <1>8, <1>9, <1>10 DEF Next

\* The variables keep their types in every execution of the store.
THEOREM TypeCorrect == Spec => []TypeOK
<1>1. Init => TypeOK
  BY DEF Init, TypeOK, UnusedSession, Session, Idle, Request, PCs, IdPRecord, NoExpiry, NoToken
<1> QED
  BY <1>1, TypeStep, PTL DEF Spec

-----------------------------------------------------------------------------
(***************************************************************************)
(* The caps.  What a login counted when it took st.mutex must still be true *)
(* when it inserts its session, so the inductive invariant says who holds   *)
(* the mutex and what the victims it picked leave room for.                 *)
(***************************************************************************)

\* Sessions in the store, or on their way into it, have drawn their ID, and
\* only one login is bringing a given ID.
MapInv ==
  /\ \A id \in sessions : sess[id].used
  /\ \A t \in Threads : InCreate(t) => sess[req[t].id].used /\ req[t].id \notin sessions
  /\ \A t, u \in Threads : InCreate(t) /\ InCreate(u) /\ req[t].id = req[u].id => t = u

\* A login between its scan and its insertion holds st.mutex.
LockInv == \A t \in Threads : req[t].pc = "evict" => storeMutex = t

\* The victims are the login's own, and without them it fits its own cap.
VictimsOK(t) ==
  LET capKey == sess[req[t].id].capKey IN
  /\ req[t].evict \subseteq Owned(capKey)
  /\ capKey \notin Users => req[t].evict = {}
  /\ capKey \in Users => Cardinality(Owned(capKey) \ req[t].evict) < MaxSessionsPerUser

VictimInv == \A t \in Threads : req[t].pc = "evict" => VictimsOK(t)

StoreInv == TypeOK /\ MapInv /\ LockInv /\ VictimInv /\ WithinCaps

\* Sets of sessions are finite, and taking sessions away counts as it should.
LEMMA SessionSets ==
  ASSUME NEW S \in SUBSET SessionIds, NEW T \in SUBSET S
  PROVE  /\ IsFiniteSet(S)
         /\ Cardinality(S) \in Nat /\ Cardinality(T) \in Nat
         /\ Cardinality(T) <= Cardinality(S)
         /\ Cardinality(S \ T) = Cardinality(S) - Cardinality(T)
<1>1. IsFiniteSet(S)
  BY FiniteIds, FS_Subset
<1>2. IsFiniteSet(T) /\ IsFiniteSet(S \ T)
  BY <1>1, FS_Subset
<1>3. Cardinality(S) \in Nat /\ Cardinality(T) \in Nat /\ Cardinality(S \ T) \in Nat
  BY <1>1, <1>2, FS_CardinalityType
<1>4. Cardinality(T) <= Cardinality(S)
  BY <1>1, FS_Subset
<1>5. S = T \cup (S \ T) /\ T \cap (S \ T) = {}
  OBVIOUS
<1>6. Cardinality(S) = Cardinality(T) + Cardinality(S \ T) - 0
  BY <1>2, <1>5, FS_Union, FS_EmptySet
<1> QED
  BY <1>1, <1>3, <1>4, <1>6

\* One more session counts for at most one more.
LEMMA OneMore ==
  ASSUME NEW S \in SUBSET SessionIds, NEW id
  PROVE  Cardinality(S \cup {id}) <= Cardinality(S) + 1
<1>1. IsFiniteSet(S)
  BY FiniteIds, FS_Subset
<1>2. Cardinality(S) \in Nat
  BY <1>1, FS_CardinalityType
<1> QED
  BY <1>1, <1>2, FS_AddElement

\* What zero() and the other writes of a session leave alone.
LEMMA ZeroAllKeeps ==
  ASSUME TypeOK, NEW S, ZeroAll(S), NEW id \in SessionIds
  PROVE  /\ sess'[id].used = sess[id].used /\ sess'[id].capKey = sess[id].capKey
         /\ sess'[id].refresher = sess[id].refresher /\ sess'[id].credExp = sess[id].credExp
         /\ sess'[id].createdAt = sess[id].createdAt /\ sess'[id].lastSeen = sess[id].lastSeen
         /\ sess'[id].tok \in {sess[id].tok, NoToken}
BY DEF ZeroAll, Zeroed, TypeOK, Session

\* A step that neither starts nor finishes a login: it only takes sessions away,
\* and only while no login holds the mutex.
StoreQuiet ==
  /\ UNCHANGED storeMutex
  /\ sessions' \subseteq sessions
  /\ sessions' # sessions => storeMutex = Nobody
  /\ \A id \in SessionIds : sess'[id].used = sess[id].used /\ sess'[id].capKey = sess[id].capKey
  /\ \A t \in Threads : InCreate(t) \/ InCreate(t)' => req'[t] = req[t]

\* Every step is one of Create's or quiet for the store.
LEMMA StoreSteps ==
  ASSUME TypeOK, [Next]_vars
  PROVE  \/ \E t \in Threads : Create(t)
         \/ StoreQuiet
<1>1. CASE Tick
  BY <1>1 DEF Tick, StoreQuiet, InCreate
<1>2. ASSUME NEW t \in Threads, NEW pc \in PCs \ {"create", "evict"}, Goto(t, pc), ~InCreate(t)
      PROVE  \A u \in Threads : InCreate(u) \/ InCreate(u)' => req'[u] = req[u]
  BY <1>2 DEF Goto, TypeOK, InCreate, Request
<1>3. ASSUME NEW t \in Threads, Finish(t), ~InCreate(t)
      PROVE  \A u \in Threads : InCreate(u) \/ InCreate(u)' => req'[u] = req[u]
  BY <1>3, IdleType DEF Finish, TypeOK, InCreate
<1>4. ASSUME NEW t \in Threads, NEW pc \in PCs \ {"create", "evict"}, NEW id \in SessionIds,
             req' = [req EXCEPT ![t] = Started(pc, id)], req[t].pc = "idle"
      PROVE  \A u \in Threads : InCreate(u) \/ InCreate(u)' => req'[u] = req[u]
  BY <1>4, StartedType DEF TypeOK, InCreate
<1>5. ASSUME NEW t \in Threads, Get(t) PROVE StoreQuiet
  <2>1. ASSUME NEW id \in SessionIds, GetLookup(t, id) PROVE StoreQuiet
    BY <2>1, <1>4 DEF GetLookup, StoreQuiet, PCs
  <2>2. ASSUME NEW id \in SessionIds, GetNotFound(t, id) PROVE StoreQuiet
    BY <2>2 DEF GetNotFound, vars, StoreQuiet, InCreate
  <2>3. CASE GetAlive(t)
    BY <2>3, <1>2 DEF GetAlive, StoreQuiet, PCs, InCreate
  <2>4. CASE RefreshStart(t)
    BY <2>4 DEF RefreshStart, StoreQuiet, InCreate, TypeOK, Request
  <2>5. CASE RefreshSkip(t)
    BY <2>5, <1>2 DEF RefreshSkip, StoreQuiet, PCs, InCreate
  <2>6. ASSUME NEW ttl \in GrantTTLs, NEW rotate \in BOOLEAN, RefreshGrant(t, ttl, rotate)
        PROVE  StoreQuiet
    BY <2>6 DEF RefreshGrant, StoreQuiet, InCreate, TypeOK, Request
  <2>7. CASE RefreshFail(t)
    BY <2>7, <1>2 DEF RefreshFail, StoreQuiet, PCs, InCreate
  <2>8. CASE ApplyRefresh(t)
    <3>1. \A id \in SessionIds : sess'[id].used = sess[id].used /\ sess'[id].capKey = sess[id].capKey
      BY <2>8 DEF ApplyRefresh, Refreshed, TypeOK, Session
    <3> QED
      BY <2>8, <3>1, <1>2 DEF ApplyRefresh, StoreQuiet, PCs, InCreate
  <2>9. CASE GetCheck(t)
    BY <2>9, <1>2 DEF GetCheck, StoreQuiet, PCs, InCreate
  <2>10. CASE GetTouch(t)
    <3>1. \A id \in SessionIds : sess'[id].used = sess[id].used /\ sess'[id].capKey = sess[id].capKey
      BY <2>10 DEF GetTouch, TypeOK, Session
    <3> QED
      BY <2>10, <3>1, <1>2 DEF GetTouch, StoreQuiet, PCs, InCreate
  <2> QED
    BY <1>5, <2>1, <2>2, <2>3, <2>4, <2>5, <2>6, <2>7, <2>8, <2>9, <2>10 DEF Get
<1>6. ASSUME NEW t \in Threads, Use(t) PROVE StoreQuiet
  <2>1. ASSUME NEW key \in TransportKeys, NEW ok \in BOOLEAN, UseTransport(t, key, ok)
        PROVE  StoreQuiet
    <3>1. \A id \in SessionIds : sess'[id].used = sess[id].used /\ sess'[id].capKey = sess[id].capKey
      BY <2>1 DEF UseTransport, TypeOK, Session
    <3> QED
      BY <2>1, <3>1 DEF UseTransport, StoreQuiet, InCreate
  <2>2. CASE RequestDone(t)
    BY <2>2, <1>3 DEF RequestDone, StoreQuiet, InCreate
  <2>3. CASE Invalidate(t)
    BY <2>3, <1>2 DEF Invalidate, StoreQuiet, PCs, InCreate
  <2> QED
    BY <1>6, <2>1, <2>2, <2>3 DEF Use
<1>7. ASSUME NEW t \in Threads, Delete(t) PROVE StoreQuiet
  <2>1. ASSUME NEW id \in SessionIds, DeleteBegin(t, id) PROVE StoreQuiet
    BY <2>1, <1>4 DEF DeleteBegin, StoreQuiet, PCs
  <2>2. CASE DeleteRemove(t)
    BY <2>2, <1>2, <1>3 DEF DeleteRemove, StoreQuiet, PCs, InCreate
  <2>3. CASE DeleteZero(t)
    BY <2>3, <1>3, ZeroAllKeeps DEF DeleteZero, StoreQuiet, InCreate
  <2> QED
    BY <1>7, <2>1, <2>2, <2>3 DEF Delete
<1>8. CASE doGC
  <2>1. CASE GCSnapshot
    BY <2>1 DEF GCSnapshot, StoreQuiet, InCreate
  <2>2. CASE GCBatch
    BY <2>2 DEF GCBatch, StoreQuiet, InCreate
  <2>3. ASSUME NEW id \in SessionIds, GCZero(id) PROVE StoreQuiet
    BY <2>3, ZeroAllKeeps DEF GCZero, StoreQuiet, InCreate
  <2> QED
    BY <1>8, <2>1, <2>2, <2>3 DEF doGC
<1>9. CASE UNCHANGED vars
  BY <1>9 DEF vars, StoreQuiet, InCreate
<1> QED
  BY <1>1, <1>5, <1>6, <1>7, <1>8, <1>9 DEF Next

\* The victims enforcePerUserLimitLocked picks are the user's own, and leave
\* room for one more.
LEMMA VictimsLeaveRoom ==
  ASSUME TypeOK, NEW k \in Users \cup {NoUser}, NEW E \in PerUserVictims(k)
  PROVE  /\ E \subseteq Owned(k)
         /\ k \notin Users => E = {}
         /\ k \in Users => Cardinality(Owned(k) \ E) < MaxSessionsPerUser
<1>1. Owned(k) \in SUBSET SessionIds
  BY DEF Owned, TypeOK
<1>2. Cardinality(Owned(k)) \in Nat
  BY <1>1, SessionSets
<1>3. E \subseteq Owned(k)
  BY DEF PerUserVictims
<1>4. Cardinality(Owned(k) \ E) = Cardinality(Owned(k)) - Cardinality(E)
  BY <1>1, <1>3, SessionSets
<1>5. k \notin Users => E = {}
  BY DEF PerUserVictims
<1>6. ASSUME k \in Users PROVE Cardinality(Owned(k) \ E) < MaxSessionsPerUser
  <2>1. k # NoUser
    BY <1>6, DistinctNames
  <2>2. CASE Cardinality(Owned(k)) - MaxSessionsPerUser + 1 <= 0
    <3>1. Owned(k) \ E = Owned(k)
      BY <2>2 DEF PerUserVictims
    <3> QED
      BY <2>2, <3>1, <1>2, CapsPositive
  <2>3. CASE ~(Cardinality(Owned(k)) - MaxSessionsPerUser + 1 <= 0)
    <3>1. Cardinality(E) = Cardinality(Owned(k)) - MaxSessionsPerUser + 1
      BY <2>1, <2>3 DEF PerUserVictims
    <3> QED
      BY <3>1, <1>2, <1>4, CapsPositive
  <2> QED
    BY <2>2, <2>3
<1> QED
  BY <1>3, <1>5, <1>6

\* Taking sessions away keeps the caps.
LEMMA FewerWithinCaps ==
  ASSUME TypeOK, WithinCaps, sessions' \subseteq sessions,
         \A id \in sessions : sess'[id].capKey = sess[id].capKey
  PROVE  WithinCaps'
<1>1. Cardinality(sessions') <= Cardinality(sessions) /\ Cardinality(sessions) \in Nat
      /\ Cardinality(sessions') \in Nat
  BY SessionSets DEF TypeOK
<1>2. ASSUME NEW u \in Users PROVE Cardinality(Owned(u)') <= MaxSessionsPerUser
  <2>1. Owned(u)' \subseteq Owned(u) /\ Owned(u) \in SUBSET SessionIds
    BY DEF Owned, TypeOK
  <2>2. /\ Cardinality(Owned(u)') <= Cardinality(Owned(u))
        /\ Cardinality(Owned(u)') \in Nat /\ Cardinality(Owned(u)) \in Nat
    BY <2>1, SessionSets
  <2> QED
    BY <2>2, CapsPositive DEF WithinCaps
<1> QED
  BY <1>1, <1>2, CapsPositive DEF WithinCaps

\* A login that inserts its session keeps the caps.
LEMMA InsertWithinCaps ==
  ASSUME StoreInv, NEW t \in Threads, CreateInsert(t)
  PROVE  WithinCaps'
<1> DEFINE id == req[t].id
           k == sess[id].capKey
           left == sessions \ req[t].evict
<1>1. id \in SessionIds /\ k \in Users \cup {NoUser} /\ left \in SUBSET SessionIds
  BY DEF StoreInv, TypeOK, CreateInsert, Session
<1>2. PICK rest \in SUBSET left : sessions' = rest \cup {id} /\ Cardinality(rest) < MaxSessions
  <2>1. CASE Cardinality(left) < MaxSessions /\ sessions' = left \cup {id}
    BY <2>1
  <2>2. ASSUME NEW e \in left, sessions' = (left \ {e}) \cup {id}
        PROVE  Cardinality(left \ {e}) < MaxSessions
    <3>1. Cardinality(left \ {e}) = Cardinality(left) - 1
      <4>1. IsFiniteSet(left)
        BY <1>1, FiniteIds, FS_Subset
      <4> HIDE DEF left
      <4> QED
        BY <2>2, <4>1, FS_RemoveElement
    <3>2. Cardinality(left) <= Cardinality(sessions) /\ Cardinality(left) \in Nat
          /\ Cardinality(sessions) \in Nat
      BY SessionSets DEF StoreInv, TypeOK
    <3> QED
      BY <3>1, <3>2, CapsPositive DEF StoreInv, WithinCaps
  <2> QED
    BY <2>1, <2>2 DEF CreateInsert, ExpiredAt
<1>3. \A i \in SessionIds : sess'[i].capKey = sess[i].capKey
  BY ZeroAllKeeps DEF CreateInsert, StoreInv
<1>4. rest \in SUBSET SessionIds /\ rest \subseteq sessions
  BY <1>1
<1>5. Cardinality(sessions') <= MaxSessions
  <2>1. Cardinality(rest \cup {id}) <= Cardinality(rest) + 1 /\ Cardinality(rest) \in Nat
    BY <1>4, OneMore, SessionSets
  <2>2. Cardinality(rest \cup {id}) \in Nat
    BY <1>1, <1>4, SessionSets
  <2> QED
    BY <1>2, <2>1, <2>2, CapsPositive
<1>6. ASSUME NEW u \in Users PROVE Cardinality(Owned(u)') <= MaxSessionsPerUser
  <2>1. Owned(u) \in SUBSET SessionIds
    BY DEF Owned, StoreInv, TypeOK
  <2>2. Cardinality(Owned(u)) <= MaxSessionsPerUser
    BY DEF StoreInv, WithinCaps
  <2>3. CASE k = u
    <3> DEFINE room == Owned(u) \ req[t].evict
    <3>1. Owned(u)' \subseteq room \cup {id} /\ room \in SUBSET SessionIds
      BY <1>2, <1>3, <1>4, <2>1 DEF Owned
    <3>2. Cardinality(room) < MaxSessionsPerUser
      BY <2>3 DEF StoreInv, VictimInv, VictimsOK, CreateInsert
    <3>3. /\ Cardinality(Owned(u)') <= Cardinality(room \cup {id})
          /\ Cardinality(room \cup {id}) <= Cardinality(room) + 1
          /\ Cardinality(room) \in Nat /\ Cardinality(Owned(u)') \in Nat
          /\ Cardinality(room \cup {id}) \in Nat
      BY <1>1, <3>1, OneMore, SessionSets
    <3> QED
      BY <3>2, <3>3, CapsPositive
  <2>4. CASE k # u
    <3>1. Owned(u)' \subseteq Owned(u)
      BY <1>1, <1>2, <1>3, <1>4, <2>4 DEF Owned
    <3>2. /\ Cardinality(Owned(u)') <= Cardinality(Owned(u))
          /\ Cardinality(Owned(u)') \in Nat /\ Cardinality(Owned(u)) \in Nat
      BY <2>1, <3>1, SessionSets
    <3> QED
      BY <2>2, <3>2, CapsPositive
  <2> QED
    BY <2>3, <2>4
<1> QED
  BY <1>5, <1>6 DEF WithinCaps

\* Every step preserves the inductive invariant of the caps.
LEMMA StoreStep == StoreInv /\ [Next]_vars => StoreInv'
<1> SUFFICES ASSUME StoreInv, [Next]_vars PROVE StoreInv'
  OBVIOUS
<1>1. TypeOK /\ TypeOK'
  BY TypeStep DEF StoreInv
<1>2. CASE StoreQuiet
  <2>1. MapInv'
    BY <1>1, <1>2 DEF StoreQuiet, StoreInv, MapInv, TypeOK, InCreate
  <2>2. LockInv'
    BY <1>1, <1>2 DEF StoreQuiet, StoreInv, LockInv, InCreate
  <2>3. VictimInv'
    <3> SUFFICES ASSUME NEW t \in Threads, req'[t].pc = "evict" PROVE VictimsOK(t)'
      BY DEF VictimInv
    <3> DEFINE k == sess[req[t].id].capKey
    <3>1. req'[t] = req[t] /\ req[t].pc = "evict" /\ req[t].id \in SessionIds
      BY <1>1, <1>2 DEF StoreQuiet, InCreate, TypeOK
    <3>2. sessions' = sessions
      BY <1>2, <3>1, DistinctNames DEF StoreQuiet, StoreInv, LockInv
    <3>3. sess'[req'[t].id].capKey = k
      BY <1>2, <3>1 DEF StoreQuiet
    <3>4. {i \in sessions' : sess'[i].capKey = k} = {i \in sessions : sess[i].capKey = k}
      BY <1>1, <1>2, <3>2 DEF StoreQuiet, TypeOK
    <3>5. VictimsOK(t)
      BY <3>1 DEF StoreInv, VictimInv
    <3> QED
      BY <3>1, <3>3, <3>4, <3>5 DEF VictimsOK, Owned
  <2>4. WithinCaps'
    BY <1>1, <1>2, FewerWithinCaps DEF StoreQuiet, StoreInv, TypeOK
  <2> QED
    BY <1>1, <2>1, <2>2, <2>3, <2>4 DEF StoreInv
<1>3. ASSUME NEW t \in Threads, NEW id \in SessionIds, NEW spec \in Specs, CreateBegin(t, id, spec)
      PROVE  StoreInv'
  <2>1. id \notin sessions /\ \A u \in Threads : InCreate(u) => req[u].id # id
    BY <1>3 DEF CreateBegin, StoreInv, MapInv
  <2>2. sess' = [sess EXCEPT ![id] = NewSession(spec)] /\ NewSession(spec).used
    BY <1>3 DEF CreateBegin, NewSession
  <2>3. /\ req' = [req EXCEPT ![t] = Started("create", id)] /\ req[t].pc = "idle"
        /\ Started("create", id).id = id /\ Started("create", id).pc = "create"
    BY <1>1, <1>3, StartedType DEF CreateBegin, PCs, TypeOK
  <2>4. UNCHANGED <<sessions, storeMutex>>
    BY <1>3 DEF CreateBegin
  <2>5. \A u \in Threads : u # t => req'[u] = req[u]
    BY <1>1, <2>3 DEF TypeOK
  <2>6. req'[t].id = id /\ req'[t].pc = "create"
    BY <1>1, <2>3 DEF TypeOK
  <2>7. \A i \in SessionIds : i # id => sess'[i] = sess[i]
    BY <1>1, <2>2 DEF TypeOK
  <2>8. MapInv'
    BY <1>1, <2>1, <2>2, <2>4, <2>5, <2>6, <2>7 DEF StoreInv, MapInv, InCreate, TypeOK
  <2>9. LockInv'
    BY <2>4, <2>5, <2>6 DEF StoreInv, LockInv
  <2>10. \A k : Owned(k)' = Owned(k)
    BY <1>1, <2>1, <2>4, <2>7 DEF Owned, TypeOK
  <2>11. VictimInv'
    <3> SUFFICES ASSUME NEW u \in Threads, req'[u].pc = "evict" PROVE VictimsOK(u)'
      BY DEF VictimInv
    <3> DEFINE k == sess[req[u].id].capKey
    <3>1. u # t /\ req'[u] = req[u] /\ req[u].pc = "evict"
      BY <2>5, <2>6
    <3>2. sess'[req'[u].id].capKey = k
      BY <1>1, <2>1, <2>7, <3>1 DEF InCreate, TypeOK
    <3>3. {i \in sessions' : sess'[i].capKey = k} = {i \in sessions : sess[i].capKey = k}
      BY <1>1, <2>1, <2>4, <2>7 DEF TypeOK
    <3>4. VictimsOK(u)
      BY <3>1 DEF StoreInv, VictimInv
    <3> QED
      BY <3>1, <3>2, <3>3, <3>4 DEF VictimsOK, Owned
  <2>12. WithinCaps'
    BY <2>4, <2>10 DEF StoreInv, WithinCaps
  <2> QED
    BY <1>1, <2>8, <2>9, <2>11, <2>12 DEF StoreInv
<1>4. ASSUME NEW t \in Threads, CreateScan(t) PROVE StoreInv'
  <2>1. PICK E \in PerUserVictims(sess[req[t].id].capKey) :
           req' = [req EXCEPT ![t].pc = "evict", ![t].evict = E]
    BY <1>4 DEF CreateScan
  <2>2. req'[t].pc = "evict" /\ req'[t].evict = E /\ req'[t].id = req[t].id
    BY <1>1, <2>1 DEF TypeOK, Request
  <2>3. \A u \in Threads : u # t => req'[u] = req[u]
    BY <1>1, <2>1 DEF TypeOK
  <2>4. UNCHANGED <<sessions, sess>> /\ storeMutex = Nobody /\ storeMutex' = t /\ req[t].pc = "create"
    BY <1>4 DEF CreateScan
  <2>5. req[t].id \in SessionIds /\ sess[req[t].id].capKey \in Users \cup {NoUser}
    BY <1>1, <2>4 DEF TypeOK, Session
  <2>6. MapInv'
    BY <2>2, <2>3, <2>4 DEF StoreInv, MapInv, InCreate
  <2>7. \A u \in Threads : req[u].pc # "evict"
    BY <2>4, DistinctNames DEF StoreInv, LockInv
  <2>8. LockInv'
    BY <2>3, <2>4, <2>7 DEF LockInv
  <2>9. \A k : Owned(k)' = Owned(k)
    BY <2>4 DEF Owned
  <2>10. VictimInv'
    BY <1>1, <2>2, <2>3, <2>4, <2>5, <2>7, <2>9, VictimsLeaveRoom DEF VictimInv, VictimsOK
  <2>11. WithinCaps'
    BY <2>4, <2>9 DEF StoreInv, WithinCaps
  <2> QED
    BY <1>1, <2>6, <2>8, <2>10, <2>11 DEF StoreInv
<1>5. ASSUME NEW t \in Threads, Finish(t), req[t].pc = "evict"
      PROVE  \A u \in Threads : InCreate(u)' => InCreate(u) /\ u # t /\ req'[u] = req[u] /\ req'[u].pc # "evict"
  <2>1. req'[t].pc = "idle" /\ \A u \in Threads : u # t => req'[u] = req[u]
    BY <1>1, <1>5, IdleType DEF Finish, TypeOK
  <2> QED
    BY <1>5, <2>1 DEF InCreate, StoreInv, LockInv
<1>6. ASSUME NEW t \in Threads, CreateInsert(t) PROVE StoreInv'
  <2>1. \A i \in SessionIds : sess'[i].used = sess[i].used
    BY <1>1, <1>6, ZeroAllKeeps DEF CreateInsert
  <2>2. sessions' \subseteq sessions \cup {req[t].id} /\ req[t].pc = "evict"
    BY <1>6 DEF CreateInsert
  <2>3. \A u \in Threads : InCreate(u)' => InCreate(u) /\ u # t /\ req'[u] = req[u] /\ req'[u].pc # "evict"
    BY <1>5, <1>6 DEF CreateInsert
  <2>4. MapInv'
    BY <1>1, <2>1, <2>2, <2>3 DEF StoreInv, MapInv, InCreate, TypeOK
  <2>5. LockInv' /\ VictimInv'
    BY <2>3 DEF LockInv, VictimInv, InCreate
  <2> QED
    BY <1>1, <1>6, <2>4, <2>5, InsertWithinCaps DEF StoreInv
<1>7. ASSUME NEW t \in Threads, CreateRefused(t) PROVE StoreInv'
  <2>1. \A i \in SessionIds : sess'[i].used = sess[i].used /\ sess'[i].capKey = sess[i].capKey
    BY <1>1, <1>7, ZeroAllKeeps DEF CreateRefused
  <2>2. sessions' \subseteq sessions
    BY <1>7 DEF CreateRefused
  <2>3. \A u \in Threads : InCreate(u)' => InCreate(u) /\ u # t /\ req'[u] = req[u] /\ req'[u].pc # "evict"
    BY <1>5, <1>7 DEF CreateRefused
  <2>4. MapInv'
    BY <1>1, <2>1, <2>2, <2>3 DEF StoreInv, MapInv, InCreate, TypeOK
  <2>5. LockInv' /\ VictimInv'
    BY <2>3 DEF LockInv, VictimInv, InCreate
  <2>6. WithinCaps'
    BY <1>1, <2>1, <2>2, FewerWithinCaps DEF StoreInv, TypeOK
  <2> QED
    BY <1>1, <2>4, <2>5, <2>6 DEF StoreInv
<1> QED
  BY <1>1, <1>2, <1>3, <1>4, <1>6, <1>7, StoreSteps DEF Create

\* The inductive invariant of the caps holds throughout.
LEMMA StoreInvariant == Spec => []StoreInv
<1>1. Init => StoreInv
  <2> SUFFICES ASSUME Init PROVE StoreInv
    OBVIOUS
  <2>1. TypeOK
    BY DEF Init, TypeOK, UnusedSession, Session, Idle, Request, PCs, IdPRecord, NoExpiry, NoToken
  <2>2. MapInv /\ LockInv /\ VictimInv
    BY IdleType DEF Init, MapInv, LockInv, VictimInv, InCreate
  <2>3. WithinCaps
    <3>1. sessions = {} /\ \A u : Owned(u) = {}
      BY DEF Init, Owned
    <3> QED
      BY <3>1, FS_EmptySet, CapsPositive DEF WithinCaps
  <2> QED
    BY <2>1, <2>2, <2>3 DEF StoreInv
<1> QED
  BY <1>1, StoreStep, PTL DEF Spec

\* However many goroutines log in, log out and sweep, the store never exceeds
\* MaxSessions nor any user MaxSessionsPerUser.
THEOREM CapsHold == Spec => []WithinCaps
<1>1. StoreInv => WithinCaps
  BY DEF StoreInv
<1> QED
  BY <1>1, StoreInvariant, PTL

\* A login refused with ErrTooManySessions has evicted nobody, and somebody
\* else's sessions share the blame for the full store.
THEOREM RefusalsAreClean == Spec => RefusalIsClean
<1> DEFINE Clean(t) ==
      /\ sessions' = sessions
      /\ sess[req[t].id].capKey \in Users => sessions # Owned(sess[req[t].id].capKey)
<1>1. ASSUME StoreInv, [Next]_vars, NEW t \in Threads, req[t].pc = "evict",
             req'[t].pc = "idle", req[t].id \notin sessions'
      PROVE  Clean(t)
  <2>1. TypeOK
    BY <1>1 DEF StoreInv
  <2>2. ~StoreQuiet
    BY <1>1 DEF StoreQuiet, InCreate
  <2>3. PICK u \in Threads : Create(u)
    BY <1>1, <2>1, <2>2, StoreSteps
  <2>4. u = t
    BY <1>1, <2>1, <2>3 DEF Create, CreateBegin, CreateScan, CreateInsert, CreateRefused, Finish, TypeOK
  <2>5. CreateRefused(t)
    <3>1. \A id \in SessionIds, spec \in Specs : ~CreateBegin(t, id, spec)
      BY <1>1 DEF CreateBegin
    <3>2. ~CreateScan(t)
      BY <1>1 DEF CreateScan
    <3>3. ~CreateInsert(t)
      BY <1>1 DEF CreateInsert
    <3> QED
      BY <2>3, <2>4, <3>1, <3>2, <3>3 DEF Create
  <2> DEFINE E == req[t].evict
             k == sess[req[t].id].capKey
  <2>6. Cardinality(sessions \ E) >= MaxSessions /\ sessions' = sessions \ E
    BY <2>5 DEF CreateRefused
  <2>7. E \subseteq sessions /\ sessions \in SUBSET SessionIds
    BY <1>1, <2>1 DEF StoreInv, VictimInv, VictimsOK, Owned, TypeOK
  <2>8. /\ Cardinality(sessions) \in Nat /\ Cardinality(sessions \ E) \in Nat
        /\ Cardinality(sessions \ E) <= Cardinality(sessions)
        /\ IsFiniteSet(sessions)
    BY <2>7, SessionSets
  <2>9. Cardinality(sessions) <= MaxSessions
    BY <1>1 DEF StoreInv, WithinCaps
  <2>10. Cardinality(sessions \ E) = Cardinality(sessions)
    BY <2>6, <2>8, <2>9, CapsPositive
  <2>11. sessions \ E = sessions
    BY <2>8, <2>10, FS_Subset
  <2>12. ASSUME k \in Users, sessions = Owned(k) PROVE FALSE
    <3>1. Cardinality(Owned(k) \ E) < MaxSessionsPerUser
      BY <1>1, <2>12 DEF StoreInv, VictimInv, VictimsOK
    <3> QED
      BY <2>6, <2>8, <2>12, <3>1, CapsPositive
  <2> QED
    BY <2>6, <2>11, <2>12
<1>2. StoreInv /\ [Next]_vars =>
        [\A t \in Threads : req[t].pc = "evict" /\ req'[t].pc = "idle" /\ req[t].id \notin sessions'
           => Clean(t)]_vars
  BY <1>1
<1> QED
  BY <1>2, StoreInvariant, PTL DEF Spec, RefusalIsClean

-----------------------------------------------------------------------------
(***************************************************************************)
(* Refreshes.  refreshMutex makes the refresh of a session one goroutine's  *)
(* business, so the credential it found due stays due until its own answer  *)
(* is applied, and the refresh token in the session is the provider's       *)
(* current one except while a rotated one is on its way.                    *)
(***************************************************************************)

InGet(t) == req[t].pc \in {"alive", "refresh", "refreshing", "granted", "check", "touch", "have"}

\* A refresh in flight holds its session's refreshMutex and is still due.
DueInv ==
  /\ \A t \in Threads : InRefresh(t) => refreshMutex[req[t].id] = t /\ NeedsRefresh(req[t].id, now)
  /\ \A t \in Threads : InGet(t) => sess[req[t].id].used

\* A token is missing, current, or out of date because an answer was lost.
TokenFine(id, tok) == tok = NoToken \/ idp[id].lost \/ tok = idp[id].tok

Rotated(t, id) == req[t].pc = "granted" /\ req[t].id = id /\ req[t].tok # NoToken

\* Tokens in flight, tokens on their way back, and tokens at rest.
TokenInv ==
  /\ \A t \in Threads : req[t].pc = "refreshing" => TokenFine(req[t].id, req[t].tok)
  /\ \A t \in Threads : req[t].pc = "granted" /\ req[t].tok # NoToken => req[t].tok = idp[req[t].id].tok
  /\ \A id \in SessionIds : sess[id].used =>
       TokenFine(id, sess[id].tok) \/ \E t \in Threads : Rotated(t, id)

RefreshInv == StoreInv /\ DueInv /\ TokenInv

\* A step that is neither a refresh's nor the birth of a session.
RefreshQuiet ==
  /\ now' >= now
  /\ UNCHANGED <<refreshMutex, idp>>
  /\ \A id \in SessionIds :
       /\ sess'[id].used = sess[id].used /\ sess'[id].refresher = sess[id].refresher
       /\ sess'[id].credExp = sess[id].credExp /\ sess'[id].tok \in {sess[id].tok, NoToken}
  /\ \A t \in Threads : InRefresh(t) \/ InRefresh(t)' => req'[t] = req[t]
  /\ \A t \in Threads : InGet(t)' => (InGet(t) /\ req'[t].id = req[t].id) \/ req'[t].id \in sessions

\* Every step is one of these.
LEMMA RefreshSteps ==
  ASSUME TypeOK, [Next]_vars
  PROVE  \/ \E t \in Threads, id \in SessionIds, spec \in Specs : CreateBegin(t, id, spec)
         \/ \E t \in Threads : RefreshStart(t) \/ RefreshFail(t) \/ ApplyRefresh(t)
         \/ \E t \in Threads, ttl \in GrantTTLs, rotate \in BOOLEAN : RefreshGrant(t, ttl, rotate)
         \/ RefreshQuiet
<1> DEFINE SessKept ==
      \A id \in SessionIds :
        /\ sess'[id].used = sess[id].used /\ sess'[id].refresher = sess[id].refresher
        /\ sess'[id].credExp = sess[id].credExp /\ sess'[id].tok \in {sess[id].tok, NoToken}
    ReqKept ==
      /\ \A t \in Threads : InRefresh(t) \/ InRefresh(t)' => req'[t] = req[t]
      /\ \A t \in Threads : InGet(t)' => (InGet(t) /\ req'[t].id = req[t].id) \/ req'[t].id \in sessions
<1>1. CASE Tick
  BY <1>1 DEF Tick, RefreshQuiet, InRefresh, InGet, TypeOK
<1>2. ASSUME NEW t \in Threads, NEW pc \in PCs \ {"refreshing", "granted"}, Goto(t, pc),
             ~InRefresh(t), InGet(t) \/ pc \in {"delete", "zero"}
      PROVE  ReqKept
  BY <1>2 DEF Goto, TypeOK, InRefresh, InGet, Request
<1>3. ASSUME NEW t \in Threads, Finish(t), ~InRefresh(t)
      PROVE  ReqKept
  BY <1>3, IdleType DEF Finish, TypeOK, InRefresh, InGet
<1>4. ASSUME NEW t \in Threads, NEW pc \in PCs \ {"refreshing", "granted"}, NEW id \in SessionIds,
             req' = [req EXCEPT ![t] = Started(pc, id)], req[t].pc = "idle",
             pc = "delete" \/ id \in sessions
      PROVE  ReqKept
  <2>1. Started(pc, id).pc = pc /\ Started(pc, id).id = id
    BY StartedType DEF TypeOK
  <2>2. req'[t] = Started(pc, id) /\ \A u \in Threads : u # t => req'[u] = req[u]
    BY <1>4 DEF TypeOK
  <2> QED
    BY <1>4, <2>1, <2>2 DEF InRefresh, InGet
<1>5. ASSUME UNCHANGED req PROVE ReqKept
  BY <1>5 DEF InRefresh, InGet
<1>6. ASSUME UNCHANGED sess PROVE SessKept
  BY <1>6
<1>7. ASSUME UNCHANGED <<now, refreshMutex, idp>>, SessKept, ReqKept PROVE RefreshQuiet
  BY <1>7 DEF RefreshQuiet, TypeOK
<1> HIDE DEF SessKept, ReqKept
<1>8. ASSUME NEW S, ZeroAll(S) PROVE SessKept
  BY <1>8, ZeroAllKeeps DEF SessKept
<1>9. ASSUME NEW t \in Threads, CreateScan(t) \/ CreateInsert(t) \/ CreateRefused(t) PROVE RefreshQuiet
  <2>1. CASE CreateScan(t)
    <3>1. ReqKept
      BY <2>1 DEF CreateScan, TypeOK, InRefresh, InGet, Request, ReqKept
    <3> QED
      BY <2>1, <3>1, <1>6, <1>7 DEF CreateScan
  <2>2. CASE CreateInsert(t)
    BY <2>2, <1>3, <1>7, <1>8 DEF CreateInsert, InRefresh
  <2>3. CASE CreateRefused(t)
    BY <2>3, <1>3, <1>7, <1>8 DEF CreateRefused, InRefresh
  <2> QED
    BY <1>9, <2>1, <2>2, <2>3
<1>10. ASSUME NEW t \in Threads, Get(t),
              ~RefreshStart(t), ~RefreshFail(t), ~ApplyRefresh(t),
              \A ttl \in GrantTTLs, rotate \in BOOLEAN : ~RefreshGrant(t, ttl, rotate)
       PROVE  RefreshQuiet
  <2>1. ASSUME NEW id \in SessionIds, GetLookup(t, id) PROVE RefreshQuiet
    BY <2>1, <1>4, <1>6, <1>7 DEF GetLookup, PCs
  <2>2. ASSUME NEW id \in SessionIds, GetNotFound(t, id) PROVE RefreshQuiet
    BY <2>2, <1>5, <1>6, <1>7 DEF GetNotFound, vars
  <2>3. CASE GetAlive(t)
    <3>1. PICK pc \in {"delete", "refresh", "check"} : Goto(t, pc)
      BY <2>3 DEF GetAlive
    <3> QED
      BY <2>3, <3>1, <1>2, <1>6, <1>7 DEF GetAlive, PCs, InRefresh, InGet
  <2>4. CASE RefreshSkip(t)
    BY <2>4, <1>2, <1>6, <1>7 DEF RefreshSkip, PCs, InRefresh, InGet
  <2>5. CASE GetCheck(t)
    <3>1. PICK pc \in {"delete", "touch"} : Goto(t, pc)
      BY <2>5 DEF GetCheck
    <3> QED
      BY <2>5, <3>1, <1>2, <1>6, <1>7 DEF GetCheck, PCs, InRefresh, InGet
  <2>6. CASE GetTouch(t)
    <3>1. SessKept
      BY <2>6 DEF GetTouch, TypeOK, Session, SessKept
    <3> QED
      BY <2>6, <3>1, <1>2, <1>7 DEF GetTouch, PCs, InRefresh, InGet
  <2> QED
    BY <1>10, <2>1, <2>2, <2>3, <2>4, <2>5, <2>6 DEF Get
<1>11. ASSUME NEW t \in Threads, Use(t) PROVE RefreshQuiet
  <2>1. ASSUME NEW key \in TransportKeys, NEW ok \in BOOLEAN, UseTransport(t, key, ok)
        PROVE  RefreshQuiet
    <3>1. SessKept
      BY <2>1 DEF UseTransport, TypeOK, Session, SessKept
    <3> QED
      BY <2>1, <3>1, <1>5, <1>7 DEF UseTransport
  <2>2. CASE RequestDone(t)
    BY <2>2, <1>3, <1>6, <1>7 DEF RequestDone, InRefresh
  <2>3. CASE Invalidate(t)
    BY <2>3, <1>2, <1>6, <1>7 DEF Invalidate, PCs, InRefresh
  <2> QED
    BY <1>11, <2>1, <2>2, <2>3 DEF Use
<1>12. ASSUME NEW t \in Threads, Delete(t) PROVE RefreshQuiet
  <2>1. ASSUME NEW id \in SessionIds, DeleteBegin(t, id) PROVE RefreshQuiet
    BY <2>1, <1>4, <1>6, <1>7 DEF DeleteBegin, PCs
  <2>2. CASE DeleteRemove(t)
    BY <2>2, <1>2, <1>3, <1>6, <1>7 DEF DeleteRemove, PCs, InRefresh
  <2>3. CASE DeleteZero(t)
    BY <2>3, <1>3, <1>7, <1>8 DEF DeleteZero, InRefresh
  <2> QED
    BY <1>12, <2>1, <2>2, <2>3 DEF Delete
<1>13. CASE doGC
  <2>1. CASE GCSnapshot
    BY <2>1, <1>5, <1>6, <1>7 DEF GCSnapshot
  <2>2. CASE GCBatch
    BY <2>2, <1>5, <1>6, <1>7 DEF GCBatch
  <2>3. ASSUME NEW id \in SessionIds, GCZero(id) PROVE RefreshQuiet
    BY <2>3, <1>5, <1>7, <1>8 DEF GCZero
  <2> QED
    BY <1>13, <2>1, <2>2, <2>3 DEF doGC
<1>14. CASE UNCHANGED vars
  BY <1>14, <1>5, <1>6, <1>7 DEF vars
<1> QED
  BY <1>1, <1>9, <1>10, <1>11, <1>12, <1>13, <1>14 DEF Next, Create

\* Every step preserves the inductive invariant of the refreshes.
LEMMA RefreshStep == RefreshInv /\ [Next]_vars => RefreshInv'
<1> SUFFICES ASSUME RefreshInv, [Next]_vars PROVE DueInv' /\ TokenInv'
  BY StoreStep DEF RefreshInv
<1>1. TypeOK /\ MapInv /\ DueInv /\ TokenInv /\ TypeOK'
  BY TypeStep DEF RefreshInv, StoreInv
<1>2. \A t \in Threads : InRefresh(t) => InGet(t) /\ req[t].id \in SessionIds
  BY <1>1 DEF InRefresh, InGet, TypeOK
<1>3. \A t, u \in Threads : InRefresh(t) /\ InRefresh(u) /\ req[t].id = req[u].id => t = u
  BY <1>1 DEF DueInv
<1>4. CASE RefreshQuiet
  <2>1. \A t \in Threads : InRefresh(t)' => InRefresh(t) /\ req'[t] = req[t]
    BY <1>4 DEF RefreshQuiet, InRefresh
  <2>2. \A t \in Threads, id \in SessionIds : NeedsRefresh(id, now) => NeedsRefresh(id, now)'
    <3> SUFFICES ASSUME NEW id \in SessionIds, NeedsRefresh(id, now) PROVE NeedsRefresh(id, now)'
      OBVIOUS
    <3>1. sess[id].credExp \in Nat /\ now \in Nat /\ now' \in Nat
      BY <1>1 DEF TypeOK, Session
    <3> QED
      BY <1>4, <3>1, OptionTypes DEF RefreshQuiet, NeedsRefresh
  <2>3. DueInv'
    <3>1. \A t \in Threads : InGet(t)' => sess'[req'[t].id].used
      BY <1>1, <1>4 DEF DueInv, MapInv, RefreshQuiet, TypeOK, InGet
    <3> QED
      BY <1>1, <1>2, <1>4, <2>1, <2>2, <3>1 DEF DueInv, RefreshQuiet, NeedsRefresh
  <2>4. TokenInv'
    <3>1. \A id, tok : TokenFine(id, tok) => TokenFine(id, tok)'
      BY <1>4 DEF RefreshQuiet, TokenFine
    <3>2. \A t \in Threads, id \in SessionIds : Rotated(t, id) => Rotated(t, id)'
      BY <1>4 DEF RefreshQuiet, Rotated, InRefresh
    <3>3. \A id \in SessionIds : sess'[id].used =>
            TokenFine(id, sess[id].tok)' \/ \E t \in Threads : Rotated(t, id)'
      BY <1>1, <1>4, <3>2 DEF TokenInv, RefreshQuiet, TokenFine
    <3>4. \A t \in Threads : req'[t].pc \in {"refreshing", "granted"} => req'[t] = req[t]
      BY <2>1 DEF InRefresh
    <3> QED
      BY <1>1, <1>4, <3>3, <3>4 DEF TokenInv, RefreshQuiet, TokenFine
  <2> QED
    BY <2>3, <2>4
<1>5. ASSUME NEW t \in Threads, NEW id \in SessionIds, NEW spec \in Specs, CreateBegin(t, id, spec)
      PROVE  DueInv' /\ TokenInv'
  <2>1. ~sess[id].used /\ \A u \in Threads : InGet(u) => req[u].id # id
    BY <1>1, <1>5 DEF CreateBegin, DueInv
  <2>2. /\ sess'[id].tok = idp'[id].tok
        /\ \A i \in SessionIds : i # id => sess'[i] = sess[i] /\ idp'[i] = idp[i]
    BY <1>1, <1>5 DEF CreateBegin, NewSession, TypeOK
  <2>3. Started("create", id).pc = "create"
    BY <1>1, StartedType DEF TypeOK, PCs
  <2>4. req'[t].pc = "create" /\ \A u \in Threads : u # t => req'[u] = req[u]
    BY <1>1, <1>5, <2>3 DEF CreateBegin, TypeOK
  <2>5. UNCHANGED <<now, refreshMutex>> /\ req[t].pc = "idle"
    BY <1>5 DEF CreateBegin
  <2>6. \A u \in Threads : InGet(u)' => InGet(u) /\ req'[u] = req[u] /\ req[u].id # id /\ req[u].id \in SessionIds
    BY <1>1, <2>1, <2>4 DEF InGet, TypeOK
  <2>7. \A u \in Threads : InRefresh(u)' => InRefresh(u) /\ InGet(u)'
    BY <2>4 DEF InRefresh, InGet
  <2>8. DueInv'
    BY <1>1, <2>2, <2>5, <2>6, <2>7 DEF DueInv, NeedsRefresh
  <2>9. \A u \in Threads, i \in SessionIds : Rotated(u, i) => Rotated(u, i)'
    BY <2>4, <2>5 DEF Rotated
  <2>10. \A u \in Threads : req'[u].pc \in {"refreshing", "granted"} =>
           req'[u] = req[u] /\ idp'[req[u].id] = idp[req[u].id]
    BY <2>2, <2>6, <2>7 DEF InRefresh
  <2> QED
    BY <1>1, <2>2, <2>8, <2>9, <2>10 DEF TokenInv, TokenFine
<1>6. ASSUME NEW t \in Threads, RefreshStart(t) PROVE DueInv' /\ TokenInv'
  <2> PICK id \in SessionIds : id = req[t].id
    BY <1>1, <1>6 DEF RefreshStart, TypeOK
  <2>1. id \in SessionIds /\ sess[id].used /\ refreshMutex[id] = Nobody /\ NeedsRefresh(id, now)
    BY <1>1, <1>6 DEF RefreshStart, DueInv, InGet, TypeOK
  <2>2. /\ req'[t].pc = "refreshing" /\ req'[t].tok = sess[id].tok /\ req'[t].id = id
        /\ \A u \in Threads : u # t => req'[u] = req[u]
    BY <1>1, <1>6 DEF RefreshStart, TypeOK, Request
  <2>3. refreshMutex'[id] = t /\ \A i \in SessionIds : i # id => refreshMutex'[i] = refreshMutex[i]
    BY <1>1, <1>6, <2>1 DEF RefreshStart, TypeOK
  <2>4. UNCHANGED <<now, sess, idp>> /\ req[t].pc = "refresh"
    BY <1>6 DEF RefreshStart
  <2>5. \A u \in Threads : InRefresh(u) => req[u].id # id
    BY <1>1, <2>1, DistinctNames DEF DueInv
  <2>6. DueInv'
    <3>1. \A u \in Threads : InRefresh(u)' => u = t \/ (InRefresh(u) /\ req'[u] = req[u])
      BY <2>2 DEF InRefresh
    <3>2. \A u \in Threads : InGet(u)' => u = t \/ (InGet(u) /\ req'[u] = req[u])
      BY <2>2 DEF InGet
    <3> QED
      BY <1>1, <1>2, <2>1, <2>2, <2>3, <2>4, <2>5, <3>1, <3>2 DEF DueInv, NeedsRefresh
  <2>7. \A u \in Threads : ~Rotated(u, id)
    BY <2>5 DEF Rotated, InRefresh
  <2>8. TokenFine(id, sess[id].tok)
    BY <1>1, <2>1, <2>7 DEF TokenInv
  <2>9. \A u \in Threads, i \in SessionIds : Rotated(u, i) => Rotated(u, i)'
    BY <2>2, <2>4 DEF Rotated
  <2> QED
    BY <1>1, <2>2, <2>4, <2>6, <2>8, <2>9 DEF TokenInv, TokenFine
<1>7. ASSUME NEW t \in Threads, NEW ttl \in GrantTTLs, NEW rotate \in BOOLEAN, RefreshGrant(t, ttl, rotate)
      PROVE  DueInv' /\ TokenInv'
  <2> PICK id \in SessionIds : id = req[t].id
    BY <1>1, <1>7 DEF RefreshGrant, TypeOK
  <2> PICK n : n = idp[id].grants + 1
    OBVIOUS
  <2>1. InRefresh(t) /\ id \in SessionIds /\ sess[id].used
    BY <1>1, <1>7 DEF RefreshGrant, InRefresh, DueInv, InGet, TypeOK
  <2>2. /\ req'[t].pc = "granted" /\ req'[t].id = id /\ req'[t].tok = (IF rotate THEN n ELSE NoToken)
        /\ \A u \in Threads : u # t => req'[u] = req[u]
    BY <1>1, <1>7 DEF RefreshGrant, TypeOK, Request
  <2>3. /\ idp'[id].tok = (IF rotate THEN n ELSE idp[id].tok) /\ idp'[id].lost = idp[id].lost
        /\ \A i \in SessionIds : i # id => idp'[i] = idp[i]
    BY <1>1, <1>7, <2>1 DEF RefreshGrant, TypeOK, IdPRecord
  <2>4. UNCHANGED <<now, sess, refreshMutex>> /\ req[t].pc = "refreshing"
    BY <1>7 DEF RefreshGrant
  <2>5. n # NoToken
    BY <1>1, <2>1 DEF TypeOK, IdPRecord, NoToken
  <2>6. \A u \in Threads : u # t /\ InRefresh(u) => req[u].id # id /\ req[u].id \in SessionIds
    BY <1>2, <1>3, <2>1
  <2>7. DueInv'
    <3>1. \A u \in Threads : InRefresh(u)' => InRefresh(u) /\ req'[u].id = req[u].id
      BY <2>1, <2>2 DEF InRefresh
    <3>2. \A u \in Threads : InGet(u)' => InGet(u) /\ req'[u].id = req[u].id
      BY <2>2, <2>4 DEF InGet
    <3> QED
      BY <1>1, <2>4, <3>1, <3>2 DEF DueInv, NeedsRefresh
  <2>8. \A u \in Threads : u # t /\ req'[u].pc \in {"refreshing", "granted"} =>
          req'[u] = req[u] /\ idp'[req[u].id] = idp[req[u].id]
    BY <2>2, <2>3, <2>6 DEF InRefresh
  <2>9. \A u \in Threads, i \in SessionIds : i # id /\ Rotated(u, i) => Rotated(u, i)'
    BY <2>2 DEF Rotated
  <2>10. \A u \in Threads : ~Rotated(u, id)
    BY <2>4, <2>6 DEF Rotated, InRefresh
  <2>11. rotate => Rotated(t, id)'
    BY <2>2, <2>5 DEF Rotated
  <2>12. \A i \in SessionIds : sess'[i].used =>
           TokenFine(i, sess[i].tok)' \/ \E u \in Threads : Rotated(u, i)'
    BY <1>1, <2>3, <2>4, <2>9, <2>10, <2>11 DEF TokenInv, TokenFine
  <2> QED
    BY <1>1, <2>2, <2>3, <2>7, <2>8, <2>12 DEF TokenInv, TokenFine
<1>8. ASSUME NEW t \in Threads, Goto(t, "check"), InRefresh(t),
             refreshMutex' = [refreshMutex EXCEPT ![req[t].id] = Nobody]
      PROVE  /\ \A u \in Threads : InRefresh(u)' =>
                   InRefresh(u) /\ u # t /\ req'[u] = req[u] /\ req[u].id # req[t].id
                   /\ req[u].id \in SessionIds /\ refreshMutex'[req[u].id] = u
             /\ \A u \in Threads : InGet(u)' => InGet(u) /\ req'[u].id = req[u].id
  <2>1. /\ req'[t].pc = "check" /\ req'[t].id = req[t].id
        /\ \A u \in Threads : u # t => req'[u] = req[u]
    BY <1>1, <1>8 DEF Goto, TypeOK, Request
  <2>2. \A u \in Threads : InRefresh(u)' => InRefresh(u) /\ u # t /\ req'[u] = req[u]
    BY <2>1 DEF InRefresh
  <2>3. \A u \in Threads : InGet(u)' => InGet(u) /\ req'[u].id = req[u].id
    BY <1>2, <1>8, <2>1 DEF InGet
  <2> QED
    BY <1>1, <1>2, <1>3, <1>8, <2>2, <2>3 DEF TypeOK, DueInv
<1>9. ASSUME NEW t \in Threads, RefreshFail(t) PROVE DueInv' /\ TokenInv'
  <2> PICK id \in SessionIds : id = req[t].id
    BY <1>1, <1>9 DEF RefreshFail, TypeOK
  <2>1. InRefresh(t) /\ id \in SessionIds
    BY <1>2, <1>9 DEF RefreshFail, InRefresh
  <2>2. UNCHANGED <<now, sess>>
    BY <1>9 DEF RefreshFail
  <2>3. /\ idp'[id].tok = idp[id].tok
        /\ idp'[id].lost = (idp[id].lost \/ (req[t].pc = "granted" /\ req[t].tok # NoToken))
        /\ \A i \in SessionIds : i # id => idp'[i] = idp[i]
    BY <1>1, <1>9, <2>1 DEF RefreshFail, TypeOK, IdPRecord
  <2>4. /\ \A u \in Threads : InRefresh(u)' =>
             InRefresh(u) /\ u # t /\ req'[u] = req[u] /\ req[u].id # id
             /\ req[u].id \in SessionIds /\ refreshMutex'[req[u].id] = u
        /\ \A u \in Threads : InGet(u)' => InGet(u) /\ req'[u].id = req[u].id
    BY <1>8, <1>9, <2>1 DEF RefreshFail
  <2>5. DueInv'
    BY <1>1, <2>2, <2>4 DEF DueInv, NeedsRefresh
  <2>6. \A u \in Threads : u # t => req'[u] = req[u]
    BY <1>1, <1>9 DEF RefreshFail, Goto, TypeOK
  <2>7. \A u \in Threads, i \in SessionIds : i # id /\ Rotated(u, i) => Rotated(u, i)'
    BY <2>6 DEF Rotated
  <2>8. \A u \in Threads : Rotated(u, id) => u = t
    BY <1>3, <2>1 DEF Rotated, InRefresh
  <2>9. ASSUME NEW i \in SessionIds, sess'[i].used
        PROVE  TokenFine(i, sess[i].tok)' \/ \E u \in Threads : Rotated(u, i)'
    <3>1. CASE i # id
      BY <1>1, <2>2, <2>3, <2>7, <2>9, <3>1 DEF TokenInv, TokenFine
    <3>2. CASE i = id
      <4>1. TokenFine(id, sess[id].tok) \/ Rotated(t, id)
        BY <1>1, <2>2, <2>8, <2>9, <3>2 DEF TokenInv
      <4>2. idp[id].lost \in BOOLEAN
        BY <1>1 DEF TypeOK, IdPRecord
      <4>3. Rotated(t, id) => idp'[id].lost
        BY <2>3 DEF Rotated
      <4>4. TokenFine(id, sess[id].tok) => TokenFine(id, sess[id].tok)'
        BY <2>2, <2>3, <4>2 DEF TokenFine
      <4> QED
        BY <3>2, <4>1, <4>3, <4>4 DEF TokenFine
    <3> QED
      BY <3>1, <3>2
  <2>10. \A u \in Threads : req'[u].pc \in {"refreshing", "granted"} =>
           req'[u] = req[u] /\ idp'[req[u].id] = idp[req[u].id]
    BY <2>3, <2>4 DEF InRefresh
  <2> QED
    BY <1>1, <2>5, <2>9, <2>10 DEF TokenInv, TokenFine
<1>10. ASSUME NEW t \in Threads, ApplyRefresh(t) PROVE DueInv' /\ TokenInv'
  <2> PICK id \in SessionIds : id = req[t].id
    BY <1>1, <1>10 DEF ApplyRefresh, TypeOK
  <2>1. InRefresh(t) /\ id \in SessionIds /\ req[t].pc = "granted"
    BY <1>2, <1>10 DEF ApplyRefresh, InRefresh
  <2>2. UNCHANGED <<now, idp>>
    BY <1>10 DEF ApplyRefresh
  <2>3. /\ sess'[id].tok = (IF req[t].tok # NoToken THEN req[t].tok ELSE sess[id].tok)
        /\ sess'[id].used = sess[id].used
        /\ \A i \in SessionIds : i # id => sess'[i] = sess[i]
    BY <1>1, <1>10, <2>1 DEF ApplyRefresh, Refreshed, TypeOK, Session
  <2>4. /\ \A u \in Threads : InRefresh(u)' =>
             InRefresh(u) /\ u # t /\ req'[u] = req[u] /\ req[u].id # id
             /\ req[u].id \in SessionIds /\ refreshMutex'[req[u].id] = u
        /\ \A u \in Threads : InGet(u)' => InGet(u) /\ req'[u].id = req[u].id
    BY <1>8, <1>10, <2>1 DEF ApplyRefresh
  <2>5. \A u \in Threads : InGet(u) => req[u].id \in SessionIds
    BY <1>1 DEF InGet, TypeOK
  <2>6. DueInv'
    BY <1>1, <2>1, <2>2, <2>3, <2>4, <2>5 DEF DueInv, NeedsRefresh
  <2>7. \A u \in Threads : u # t => req'[u] = req[u]
    BY <1>1, <1>10 DEF ApplyRefresh, Goto, TypeOK
  <2>8. \A u \in Threads, i \in SessionIds : i # id /\ Rotated(u, i) => Rotated(u, i)'
    BY <2>7 DEF Rotated
  <2>9. \A u \in Threads : Rotated(u, id) => u = t
    BY <1>3, <2>1 DEF Rotated, InRefresh
  <2>10. TokenFine(id, sess'[id].tok) \/ ~sess[id].used
    BY <1>1, <2>1, <2>3, <2>9 DEF TokenInv, TokenFine, Rotated
  <2>11. ASSUME NEW i \in SessionIds, sess'[i].used
        PROVE  TokenFine(i, sess[i].tok)' \/ \E u \in Threads : Rotated(u, i)'
    <3>1. CASE i # id
      BY <1>1, <2>2, <2>3, <2>8, <2>11, <3>1 DEF TokenInv, TokenFine
    <3>2. CASE i = id
      BY <2>2, <2>3, <2>10, <2>11, <3>2 DEF TokenFine
    <3> QED
      BY <3>1, <3>2
  <2>12. \A u \in Threads : req'[u].pc \in {"refreshing", "granted"} => req'[u] = req[u]
    BY <2>4 DEF InRefresh
  <2> QED
    BY <1>1, <2>2, <2>6, <2>11, <2>12 DEF TokenInv, TokenFine
<1> QED
  BY <1>1, <1>4, <1>5, <1>6, <1>7, <1>9, <1>10, RefreshSteps

\* The inductive invariant of the refreshes holds throughout.
LEMMA RefreshInvariant == Spec => []RefreshInv
<1>1. Init => DueInv /\ TokenInv
  BY IdleType DEF Init, DueInv, TokenInv, InRefresh, InGet, UnusedSession
<1>2. Init /\ StoreInv => RefreshInv
  BY <1>1 DEF RefreshInv
<1> QED
  BY <1>2, StoreInvariant, RefreshStep, PTL DEF Spec

\* Requests that wait for another's refresh never start one of their own on the
\* credential it has just renewed.
THEOREM RefreshesAreDue == Spec => []RefreshOnlyWhenDue
<1>1. RefreshInv => RefreshOnlyWhenDue
  BY DEF RefreshInv, DueInv, RefreshOnlyWhenDue
<1> QED
  BY <1>1, RefreshInvariant, PTL

\* Concurrent requests never burn each other's refresh token.
THEOREM TokensNotBurnt == Spec => []BurntTokenOnlyAfterLoss
<1>1. RefreshInv => BurntTokenOnlyAfterLoss
  BY DEF RefreshInv, TokenInv, TokenFine, BurntTokenOnlyAfterLoss
<1> QED
  BY <1>1, RefreshInvariant, PTL

-----------------------------------------------------------------------------
(* What a session tells about itself: its transports and its times *)

\* Each session's last-seen time has come, and its expiry is that of the credential
\* it holds.
ClockInv ==
  \A id \in SessionIds : sess[id].used =>
    /\ sess[id].lastSeen <= now
    /\ sess[id].expiresAt = EffectiveExpiry(sess[id].createdAt, sess[id].credExp)

FactsInv == TypeOK /\ TransportsCurrent /\ ClockInv

\* The steps that write a session.
LEMMA SessionWrites ==
  ASSUME TypeOK, [Next]_vars
  PROVE  \/ UNCHANGED sess /\ now' \in {now, now + 1}
         \/ /\ UNCHANGED now
            /\ \/ \E t \in Threads, id \in SessionIds, spec \in Specs : CreateBegin(t, id, spec)
               \/ \E t \in Threads : ApplyRefresh(t) \/ GetTouch(t)
               \/ \E t \in Threads, key \in TransportKeys, ok \in BOOLEAN : UseTransport(t, key, ok)
               \/ \E S \in SUBSET SessionIds : ZeroAll(S)
<1>1. ASSUME NEW t \in Threads, CreateInsert(t) \/ CreateRefused(t)
      PROVE  UNCHANGED now /\ \E S \in SUBSET SessionIds : ZeroAll(S)
  <2>1. req[t].evict \subseteq SessionIds /\ req[t].id \in SessionIds /\ sessions \subseteq SessionIds
    BY <1>1 DEF CreateInsert, CreateRefused, TypeOK, Request
  <2>2. CASE CreateInsert(t)
    BY <2>1, <2>2 DEF CreateInsert, ExpiredAt
  <2>3. CASE CreateRefused(t)
    BY <2>1, <2>3 DEF CreateRefused
  <2> QED
    BY <1>1, <2>2, <2>3
<1>2. ASSUME NEW t \in Threads, DeleteZero(t)
      PROVE  UNCHANGED now /\ \E S \in SUBSET SessionIds : ZeroAll(S)
  BY <1>2 DEF DeleteZero, TypeOK
<1>3. ASSUME NEW id \in SessionIds, GCZero(id)
      PROVE  UNCHANGED now /\ \E S \in SUBSET SessionIds : ZeroAll(S)
  BY <1>3 DEF GCZero
<1>4. ASSUME NEW t \in Threads, ApplyRefresh(t) \/ GetTouch(t) PROVE UNCHANGED now
  BY <1>4 DEF ApplyRefresh, GetTouch
<1>5. ASSUME NEW t \in Threads, NEW id \in SessionIds, NEW spec \in Specs, CreateBegin(t, id, spec)
      PROVE  UNCHANGED now
  BY <1>5 DEF CreateBegin
<1>6. ASSUME NEW t \in Threads, NEW key \in TransportKeys, NEW ok \in BOOLEAN, UseTransport(t, key, ok)
      PROVE  UNCHANGED now
  BY <1>6 DEF UseTransport
<1>7. CASE Tick \/ UNCHANGED vars
  BY <1>7 DEF Tick, vars
<1>8. ASSUME NEW t \in Threads, Create(t), ~(\E id \in SessionIds, spec \in Specs : CreateBegin(t, id, spec)),
             ~CreateInsert(t), ~CreateRefused(t)
      PROVE  UNCHANGED <<sess, now>>
  BY <1>8 DEF Create, CreateScan
<1>9. ASSUME NEW t \in Threads, Get(t), ~ApplyRefresh(t), ~GetTouch(t) PROVE UNCHANGED <<sess, now>>
  BY <1>9 DEF Get, GetLookup, GetNotFound, GetAlive, RefreshStart, RefreshSkip, RefreshGrant,
              RefreshFail, GetCheck, vars
<1>10. ASSUME NEW t \in Threads, Use(t),
              ~(\E key \in TransportKeys, ok \in BOOLEAN : UseTransport(t, key, ok))
       PROVE  UNCHANGED <<sess, now>>
  BY <1>10 DEF Use, RequestDone, Invalidate
<1>11. ASSUME NEW t \in Threads, Delete(t), ~DeleteZero(t) PROVE UNCHANGED <<sess, now>>
  BY <1>11 DEF Delete, DeleteBegin, DeleteRemove
<1>12. ASSUME doGC, ~(\E id \in SessionIds : GCZero(id)) PROVE UNCHANGED <<sess, now>>
  BY <1>12 DEF doGC, GCSnapshot, GCBatch
<1> QED
  BY <1>1, <1>2, <1>3, <1>4, <1>5, <1>6, <1>7, <1>8, <1>9, <1>10, <1>11, <1>12 DEF Next

\* A session with the facts in order.
FactsOK(s) ==
  /\ \A tr \in s.transports :
       /\ tr.ver = s.ver /\ tr.live = s.live
       /\ \A other \in s.transports :
            other.key[1] = tr.key[1] /\ other.key[2] # 0 /\ tr.key[2] # 0 => other = tr
  /\ s.used => s.lastSeen <= now /\ s.expiresAt = EffectiveExpiry(s.createdAt, s.credExp)

\* Every write of a session leaves its facts in order, and its last-seen time where it
\* was or later.
LEMMA FactsStep ==
  ASSUME FactsInv, [Next]_vars, NEW i \in SessionIds
  PROVE  FactsOK(sess[i])' /\ (sess[i].used => sess'[i].lastSeen >= sess[i].lastSeen)
<1>1. /\ now \in Nat /\ sess[i] \in Session /\ FactsOK(sess[i])
      /\ sess[i].lastSeen \in Nat /\ sess \in [SessionIds -> Session]
  BY DEF FactsInv, TypeOK, TransportsCurrent, ClockInv, FactsOK, Session
<1>2. CASE UNCHANGED sess /\ now' \in {now, now + 1}
  <2>1. now' >= now /\ now' \in Nat
    BY <1>1, <1>2
  <2> QED
    BY <1>1, <1>2, <2>1 DEF FactsOK, EffectiveExpiry
<1>3. ASSUME UNCHANGED now, NEW t \in Threads, NEW id \in SessionIds, NEW spec \in Specs,
             CreateBegin(t, id, spec)
      PROVE  FactsOK(sess[i])' /\ (sess[i].used => sess'[i].lastSeen >= sess[i].lastSeen)
  <2>1. CASE i = id
    <3>1. sess'[i] = NewSession(spec) /\ ~sess[i].used
      BY <1>1, <1>3, <2>1 DEF CreateBegin
    <3>2. /\ NewSession(spec).transports = {} /\ NewSession(spec).lastSeen = now
          /\ NewSession(spec).expiresAt =
               EffectiveExpiry(NewSession(spec).createdAt, NewSession(spec).credExp)
      BY DEF NewSession
    <3> QED
      BY <1>1, <1>3, <3>1, <3>2 DEF FactsOK, EffectiveExpiry
  <2>2. CASE i # id
    <3>1. sess'[i] = sess[i]
      BY <1>1, <1>3, <2>2 DEF CreateBegin
    <3> QED
      BY <1>1, <1>3, <3>1 DEF FactsOK, EffectiveExpiry
  <2> QED
    BY <2>1, <2>2
<1>4. ASSUME UNCHANGED now, NEW t \in Threads, ApplyRefresh(t) \/ GetTouch(t)
      PROVE  FactsOK(sess[i])' /\ (sess[i].used => sess'[i].lastSeen >= sess[i].lastSeen)
  <2>1. CASE i # req[t].id
    <3>1. sess'[i] = sess[i]
      BY <1>1, <1>4, <2>1 DEF ApplyRefresh, GetTouch
    <3> QED
      BY <1>1, <1>4, <3>1 DEF FactsOK, EffectiveExpiry
  <2>2. CASE i = req[t].id /\ ApplyRefresh(t)
    <3>1. sess'[i] = Refreshed(sess[i], req[t])
      BY <1>1, <2>2 DEF ApplyRefresh
    <3>2. /\ sess'[i].transports = {} /\ sess'[i].lastSeen = sess[i].lastSeen
          /\ sess'[i].used = sess[i].used
          /\ sess'[i].expiresAt = EffectiveExpiry(sess'[i].createdAt, sess'[i].credExp)
      BY <1>1, <3>1 DEF Refreshed, Session
    <3> QED
      BY <1>1, <1>4, <3>2 DEF FactsOK, EffectiveExpiry
  <2>3. CASE i = req[t].id /\ GetTouch(t)
    <3>1. sess'[i] = [sess[i] EXCEPT !.lastSeen = now]
      BY <1>1, <2>3 DEF GetTouch
    <3>2. /\ sess'[i].lastSeen = now /\ sess'[i].used = sess[i].used
          /\ sess'[i].transports = sess[i].transports /\ sess'[i].ver = sess[i].ver
          /\ sess'[i].live = sess[i].live /\ sess'[i].createdAt = sess[i].createdAt
          /\ sess'[i].credExp = sess[i].credExp /\ sess'[i].expiresAt = sess[i].expiresAt
      BY <1>1, <3>1 DEF Session
    <3> QED
      BY <1>1, <1>4, <3>2 DEF FactsOK, EffectiveExpiry
  <2> QED
    BY <1>4, <2>1, <2>2, <2>3
<1>5. ASSUME UNCHANGED now, NEW t \in Threads, NEW key \in TransportKeys, NEW ok \in BOOLEAN,
             UseTransport(t, key, ok)
      PROVE  FactsOK(sess[i])' /\ (sess[i].used => sess'[i].lastSeen >= sess[i].lastSeen)
  <2>1. CASE i # req[t].id \/ \E tr \in sess[i].transports : tr.key = key
    <3>1. sess'[i] = sess[i]
      BY <1>1, <1>5, <2>1 DEF UseTransport
    <3> QED
      BY <1>1, <1>5, <3>1 DEF FactsOK, EffectiveExpiry
  <2>2. CASE i = req[t].id /\ ~(\E tr \in sess[i].transports : tr.key = key)
    <3> DEFINE built == [key |-> key, ver |-> sess[i].ver, live |-> sess[i].live]
               T == (sess[i].transports \ Superseded(i, key)) \cup (IF ok THEN {built} ELSE {})
    <3>1. sess'[i] = [sess[i] EXCEPT !.transports = T]
      BY <1>1, <1>5, <2>2 DEF UseTransport
    <3>2. /\ built.key = key /\ built.ver = sess[i].ver /\ built.live = sess[i].live
          /\ T \subseteq sess[i].transports \cup {built}
      OBVIOUS
    <3>3. \A tr \in T : tr # built => key[2] = 0 \/ tr.key[1] # key[1] \/ tr.key[2] = 0
      BY <2>2 DEF Superseded
    <3> HIDE DEF built, T
    <3>4. /\ sess'[i].lastSeen = sess[i].lastSeen /\ sess'[i].used = sess[i].used
          /\ sess'[i].transports = T /\ sess'[i].ver = sess[i].ver
          /\ sess'[i].live = sess[i].live /\ sess'[i].createdAt = sess[i].createdAt
          /\ sess'[i].credExp = sess[i].credExp /\ sess'[i].expiresAt = sess[i].expiresAt
      BY <1>1, <3>1 DEF Session
    <3>5. ASSUME NEW tr \in T
          PROVE  /\ tr.ver = sess[i].ver /\ tr.live = sess[i].live
                 /\ \A other \in T :
                      other.key[1] = tr.key[1] /\ other.key[2] # 0 /\ tr.key[2] # 0 => other = tr
      BY <1>1, <3>2, <3>3 DEF FactsOK
    <3> QED
      BY <1>1, <1>5, <3>4, <3>5 DEF FactsOK, EffectiveExpiry
  <2> QED
    BY <2>1, <2>2
<1>6. ASSUME UNCHANGED now, NEW S \in SUBSET SessionIds, ZeroAll(S)
      PROVE  FactsOK(sess[i])' /\ (sess[i].used => sess'[i].lastSeen >= sess[i].lastSeen)
  <2>1. CASE i \notin S
    <3>1. sess'[i] = sess[i]
      BY <1>6, <2>1 DEF ZeroAll
    <3> QED
      BY <1>1, <1>6, <3>1 DEF FactsOK, EffectiveExpiry
  <2>2. CASE i \in S
    <3>1. sess'[i] = Zeroed(sess[i])
      BY <1>6, <2>2 DEF ZeroAll
    <3>2. /\ sess'[i].transports = {} /\ sess'[i].lastSeen = sess[i].lastSeen
          /\ sess'[i].used = sess[i].used /\ sess'[i].createdAt = sess[i].createdAt
          /\ sess'[i].credExp = sess[i].credExp /\ sess'[i].expiresAt = sess[i].expiresAt
      BY <1>1, <3>1 DEF Zeroed, Session
    <3> QED
      BY <1>1, <1>6, <3>2 DEF FactsOK, EffectiveExpiry
  <2> QED
    BY <2>1, <2>2
<1>7. TypeOK
  BY DEF FactsInv
<1> QED
  BY <1>2, <1>3, <1>4, <1>5, <1>6, <1>7, SessionWrites

LEMMA FactsInvariant == Spec => []FactsInv
<1>1. Init => TransportsCurrent /\ ClockInv
  BY DEF Init, UnusedSession, TransportsCurrent, ClockInv
<1>2. FactsInv /\ [Next]_vars => TransportsCurrent' /\ ClockInv'
  <2> SUFFICES ASSUME FactsInv, [Next]_vars PROVE TransportsCurrent' /\ ClockInv'
    OBVIOUS
  <2>1. \A i \in SessionIds : FactsOK(sess[i])'
    BY FactsStep
  <2> QED
    BY <2>1 DEF FactsOK, TransportsCurrent, ClockInv
<1> QED
  BY <1>1, <1>2, TypeCorrect, PTL DEF Spec, FactsInv

\* No cached transport authenticates with a credential that a refresh or a logout has
\* replaced, and a versioned upstream has at most one (applyRefresh, zero,
\* dropSupersededTransportsLocked).
THEOREM TransportsAreCurrent == Spec => []TransportsCurrent
<1>1. FactsInv => TransportsCurrent
  BY DEF FactsInv
<1> QED
  BY <1>1, FactsInvariant, PTL

\* GET /auth/session never reports an expiry past the cap or past that of the
\* credential (effectiveExpiry in Create and applyRefresh).
THEOREM ReportedExpiriesHonest == Spec => []ReportedExpiryHonest
<1>1. ASSUME FactsInv, NEW id \in SessionIds, sess[id].used
      PROVE  /\ sess[id].expiresAt <= sess[id].createdAt + MaxLifetime
             /\ sess[id].credExp # NoExpiry => sess[id].expiresAt <= sess[id].credExp
  <2>1. sess[id].createdAt \in Nat /\ sess[id].credExp \in Nat
    BY <1>1 DEF FactsInv, TypeOK, Session
  <2>2. sess[id].expiresAt = EffectiveExpiry(sess[id].createdAt, sess[id].credExp)
    BY <1>1 DEF FactsInv, ClockInv
  <2>3. MaxLifetime \in Nat
    BY OptionTypes
  <2> QED
    BY <2>1, <2>2, <2>3 DEF EffectiveExpiry
<1>2. FactsInv => ReportedExpiryHonest
  BY <1>1 DEF ReportedExpiryHonest
<1> QED
  BY <1>2, FactsInvariant, PTL

\* No two requests racing through Get move a session's last-seen time back (touch).
THEOREM LastSeenForward == Spec => LastSeenMonotone
<1>1. FactsInv /\ [Next]_vars =>
        [\A id \in SessionIds : sess[id].used => sess'[id].lastSeen >= sess[id].lastSeen]_vars
  BY FactsStep
<1> QED
  BY <1>1, FactsInvariant, PTL DEF Spec, LastSeenMonotone

-----------------------------------------------------------------------------
(***************************************************************************)
(* Guests.  What a request learnt of its session when it was let in, it     *)
(* learnt once: the proofs below show that it stays true of the session for  *)
(* as long as the request holds it, whatever the others do.                 *)
(***************************************************************************)

\* Get has found the session alive, and has not returned or is not done with it.
LetIn(t) == req[t].pc \in {"refresh", "refreshing", "granted", "check", "touch", "have"}

\* A request that was let in came while its session was alive.
GuestInv ==
  /\ \A t \in Threads : InGet(t) => req[t].start <= now
  /\ \A t \in Threads : LetIn(t) => Alive(req[t].id, req[t].start)

LifeInv == RefreshInv /\ FactsInv /\ GuestInv

\* What no step does to a session once its ID is drawn: only a refresh that has its
\* answer, and needs a refresher, renews its credential, and only a request that Get
\* let in is seen.
LEMMA SessionKept ==
  ASSUME RefreshInv, FactsInv, [Next]_vars, NEW i \in SessionIds, sess[i].used
  PROVE  /\ sess'[i].used
         /\ sess'[i].createdAt = sess[i].createdAt /\ sess'[i].refresher = sess[i].refresher
         /\ sess[i].refresher \/ sess'[i].credExp = sess[i].credExp
         /\ \/ \E t \in Threads : req[t].pc = "granted" /\ req[t].id = i
            \/ /\ sess'[i].live => sess[i].live
               /\ sess'[i].tok \in {sess[i].tok, NoToken}
         /\ \/ sess'[i].lastSeen = sess[i].lastSeen
            \/ \E t \in Threads : req[t].pc = "touch" /\ req[t].id = i
<1>1. TypeOK /\ sess \in [SessionIds -> Session] /\ sess[i] \in Session
  BY DEF FactsInv, TypeOK
<1>2. CASE UNCHANGED sess
  BY <1>1, <1>2
<1>3. ASSUME NEW t \in Threads, NEW id \in SessionIds, NEW spec \in Specs, CreateBegin(t, id, spec)
      PROVE  sess'[i] = sess[i]
  BY <1>1, <1>3 DEF CreateBegin
<1>4. ASSUME NEW t \in Threads, ApplyRefresh(t), i = req[t].id
      PROVE  req[t].pc = "granted" /\ sess[i].refresher
             /\ sess'[i].used /\ sess'[i].createdAt = sess[i].createdAt
             /\ sess'[i].refresher = sess[i].refresher /\ sess'[i].lastSeen = sess[i].lastSeen
  <2>1. req[t].pc = "granted" /\ sess[i].refresher
    BY <1>4 DEF RefreshInv, DueInv, ApplyRefresh, InRefresh, NeedsRefresh
  <2>2. sess'[i] = Refreshed(sess[i], req[t])
    BY <1>1, <1>4 DEF ApplyRefresh
  <2> QED
    BY <1>1, <2>1, <2>2 DEF Refreshed, Session
<1>5. ASSUME NEW t \in Threads, GetTouch(t), i = req[t].id
      PROVE  /\ req[t].pc = "touch"
             /\ sess'[i].used = sess[i].used /\ sess'[i].createdAt = sess[i].createdAt
             /\ sess'[i].refresher = sess[i].refresher /\ sess'[i].credExp = sess[i].credExp
             /\ sess'[i].live = sess[i].live /\ sess'[i].tok = sess[i].tok
  <2>1. sess'[i] = [sess[i] EXCEPT !.lastSeen = now]
    BY <1>1, <1>5 DEF GetTouch
  <2> QED
    BY <1>1, <1>5, <2>1 DEF GetTouch, Session
<1>6. ASSUME NEW t \in Threads, ApplyRefresh(t) \/ GetTouch(t), i # req[t].id
      PROVE  sess'[i] = sess[i]
  BY <1>1, <1>6 DEF ApplyRefresh, GetTouch
<1>7. ASSUME NEW t \in Threads, NEW key \in TransportKeys, NEW ok \in BOOLEAN, UseTransport(t, key, ok)
      PROVE  /\ sess'[i].used = sess[i].used /\ sess'[i].createdAt = sess[i].createdAt
             /\ sess'[i].refresher = sess[i].refresher /\ sess'[i].credExp = sess[i].credExp
             /\ sess'[i].live = sess[i].live /\ sess'[i].tok = sess[i].tok
             /\ sess'[i].lastSeen = sess[i].lastSeen
  <2>1. CASE sess'[i] = sess[i]
    BY <2>1
  <2>2. CASE sess'[i] # sess[i]
    <3> DEFINE built == [key |-> key, ver |-> sess[i].ver, live |-> sess[i].live]
               T == (sess[i].transports \ Superseded(i, key)) \cup (IF ok THEN {built} ELSE {})
    <3>1. sess'[i] = [sess[i] EXCEPT !.transports = T]
      BY <1>1, <1>7, <2>2 DEF UseTransport
    <3> HIDE DEF T
    <3> QED
      BY <1>1, <3>1 DEF Session
  <2> QED
    BY <2>1, <2>2
<1>8. ASSUME NEW S \in SUBSET SessionIds, ZeroAll(S)
      PROVE  /\ sess'[i].used = sess[i].used /\ sess'[i].createdAt = sess[i].createdAt
             /\ sess'[i].refresher = sess[i].refresher /\ sess'[i].credExp = sess[i].credExp
             /\ sess'[i].live => sess[i].live
             /\ sess'[i].tok \in {sess[i].tok, NoToken} /\ sess'[i].lastSeen = sess[i].lastSeen
  <2>1. sess'[i] = sess[i] \/ sess'[i] = Zeroed(sess[i])
    BY <1>8 DEF ZeroAll
  <2> QED
    BY <1>1, <2>1 DEF Zeroed, Session
<1> QED
  BY <1>1, <1>2, <1>3, <1>4, <1>5, <1>6, <1>7, <1>8, SessionWrites

\* A session that was alive at some time in the past still was then.
LEMMA PastKept ==
  ASSUME RefreshInv, FactsInv, [Next]_vars, NEW i \in SessionIds, sess[i].used,
         NEW x \in Nat, Alive(i, x)
  PROVE  Alive(i, x)'
<1>1. sess[i].lastSeen \in Nat /\ sess'[i].lastSeen \in Nat
  BY TypeStep DEF FactsInv, TypeOK, Session
<1>2. sess'[i].lastSeen >= sess[i].lastSeen
  BY FactsStep
<1>3. x - sess'[i].lastSeen <= IdleTimeout
  BY <1>1, <1>2, OptionTypes DEF Alive
<1> QED
  BY <1>3, SessionKept DEF Alive

\* How a request comes to be let in: it stays where it was, or Get finds its session
\* alive now.
LEMMA GuestSteps ==
  ASSUME TypeOK, [Next]_vars, NEW t \in Threads
  PROVE  /\ InGet(t)' => \/ InGet(t) /\ req'[t].id = req[t].id /\ req'[t].start = req[t].start
                         \/ req'[t].start = now /\ req'[t].pc = "alive" /\ UNCHANGED now
         /\ LetIn(t)' => LetIn(t) \/ (req[t].pc = "alive" /\ Alive(req[t].id, now) /\ UNCHANGED now)
<1> DEFINE Goal ==
      /\ InGet(t)' => \/ InGet(t) /\ req'[t].id = req[t].id /\ req'[t].start = req[t].start
                      \/ req'[t].start = now /\ req'[t].pc = "alive" /\ UNCHANGED now
      /\ LetIn(t)' => LetIn(t) \/ (req[t].pc = "alive" /\ Alive(req[t].id, now) /\ UNCHANGED now)
<1>1. req \in [Threads -> Request] /\ req[t] \in Request
  BY DEF TypeOK
<1>2. CASE req'[t] = req[t]
  BY <1>2 DEF InGet, LetIn
<1>3. ASSUME NEW pc, Goto(t, pc), pc \in {"delete", "zero"} \/ LetIn(t) PROVE Goal
  <2>1. req'[t].pc = pc /\ req'[t].id = req[t].id /\ req'[t].start = req[t].start
    BY <1>1, <1>3 DEF Goto, Request
  <2> QED
    BY <1>3, <2>1 DEF InGet, LetIn
<1>4. CASE Finish(t)
  <2>1. req'[t].pc = "idle"
    BY <1>1, <1>4, IdleType DEF Finish
  <2> QED
    BY <2>1 DEF InGet, LetIn
<1>5. ASSUME NEW u \in Threads, u # t, Create(u) \/ Get(u) \/ Use(u) \/ Delete(u) PROVE req'[t] = req[t]
  BY <1>1, <1>5 DEF Create, CreateBegin, CreateScan, CreateInsert, CreateRefused, Get, GetLookup,
     GetNotFound, GetAlive, RefreshStart, RefreshSkip, RefreshGrant, RefreshFail, ApplyRefresh,
     GetCheck, GetTouch, Use, UseTransport, RequestDone, Invalidate, Delete, DeleteBegin,
     DeleteRemove, DeleteZero, Goto, Finish, vars
<1>6. CASE Tick \/ doGC \/ UNCHANGED vars
  BY <1>2, <1>6 DEF Tick, doGC, GCSnapshot, GCBatch, GCZero, vars
<1>7. CASE Create(t)
  <2>1. ASSUME NEW id \in SessionIds, NEW spec \in Specs, CreateBegin(t, id, spec) PROVE Goal
    <3>1. req'[t].pc = "create"
      BY <1>1, <2>1, StartedType DEF CreateBegin, TypeOK, PCs
    <3> QED
      BY <3>1 DEF InGet, LetIn
  <2>2. CASE CreateScan(t)
    <3>1. req'[t].pc = "evict"
      BY <1>1, <2>2 DEF CreateScan, Request
    <3> QED
      BY <3>1 DEF InGet, LetIn
  <2> QED
    BY <1>4, <1>7, <2>1, <2>2 DEF Create, CreateInsert, CreateRefused
<1>8. CASE Get(t)
  <2>1. ASSUME NEW id \in SessionIds, GetLookup(t, id) PROVE Goal
    <3>1. req'[t] = Started("alive", id) /\ UNCHANGED now
      BY <1>1, <2>1 DEF GetLookup
    <3>2. Started("alive", id).start = now /\ Started("alive", id).pc = "alive"
      BY DEF Started, Idle
    <3> QED
      BY <3>1, <3>2 DEF InGet, LetIn
  <2>2. CASE GetAlive(t)
    <3>1. PICK pc \in {"delete", "refresh", "check"} :
            Goto(t, pc) /\ (pc # "delete" => Alive(req[t].id, now))
      BY <2>2 DEF GetAlive
    <3>2. req'[t].pc = pc /\ req'[t].id = req[t].id /\ req'[t].start = req[t].start
      BY <1>1, <3>1 DEF Goto, Request
    <3>3. req[t].pc = "alive" /\ UNCHANGED now
      BY <2>2 DEF GetAlive
    <3> QED
      BY <3>1, <3>2, <3>3 DEF InGet, LetIn
  <2>3. CASE RefreshStart(t)
    <3>1. req'[t].pc = "refreshing" /\ req'[t].id = req[t].id /\ req'[t].start = req[t].start
      BY <1>1, <2>3 DEF RefreshStart, Request
    <3> QED
      BY <2>3, <3>1 DEF RefreshStart, InGet, LetIn
  <2>4. ASSUME NEW ttl \in GrantTTLs, NEW rotate \in BOOLEAN, RefreshGrant(t, ttl, rotate) PROVE Goal
    <3>1. req'[t].pc = "granted" /\ req'[t].id = req[t].id /\ req'[t].start = req[t].start
      BY <1>1, <2>4 DEF RefreshGrant, Request
    <3> QED
      BY <2>4, <3>1 DEF RefreshGrant, InGet, LetIn
  <2>5. CASE RefreshSkip(t) \/ RefreshFail(t) \/ ApplyRefresh(t) \/ GetCheck(t) \/ GetTouch(t)
    <3>1. LetIn(t) /\ \E pc : Goto(t, pc)
      BY <2>5 DEF RefreshSkip, RefreshFail, ApplyRefresh, GetCheck, GetTouch, LetIn
    <3> QED
      BY <1>3, <3>1
  <2>6. ASSUME NEW id \in SessionIds, GetNotFound(t, id) PROVE Goal
    BY <1>2, <2>6 DEF GetNotFound, vars
  <2> QED
    BY <1>8, <2>1, <2>2, <2>3, <2>4, <2>5, <2>6 DEF Get
<1>9. CASE Use(t)
  BY <1>2, <1>3, <1>4, <1>9 DEF Use, UseTransport, RequestDone, Invalidate
<1>10. CASE Delete(t)
  <2>1. ASSUME NEW id \in SessionIds, DeleteBegin(t, id) PROVE Goal
    <3>1. req'[t].pc = "delete"
      BY <1>1, <2>1, StartedType DEF DeleteBegin, TypeOK, PCs
    <3> QED
      BY <3>1 DEF InGet, LetIn
  <2> QED
    BY <1>3, <1>4, <1>10, <2>1 DEF Delete, DeleteRemove, DeleteZero
<1> QED
  BY <1>2, <1>5, <1>6, <1>7, <1>8, <1>9, <1>10 DEF Next

LEMMA LifeInvariant == Spec => []LifeInv
<1>1. Init => GuestInv
  BY IdleType DEF Init, GuestInv, InGet, LetIn
<1>2. LifeInv /\ [Next]_vars => GuestInv'
  <2> SUFFICES ASSUME LifeInv, [Next]_vars, NEW t \in Threads
               PROVE  /\ InGet(t)' => req'[t].start <= now'
                      /\ LetIn(t)' => Alive(req[t].id, req[t].start)'
    BY DEF GuestInv
  <2>1. TypeOK /\ RefreshInv /\ FactsInv /\ GuestInv /\ now \in Nat /\ req[t].start \in Nat
    BY DEF LifeInv, FactsInv, TypeOK, Request
  <2>2. now' \in {now, now + 1}
    BY <2>1, SessionWrites
  <2>3. InGet(t)' => req'[t].start <= now'
    BY <2>1, <2>2, GuestSteps DEF GuestInv
  <2>4. ASSUME LetIn(t)' PROVE Alive(req[t].id, req[t].start)'
    <3>1. InGet(t)' /\ req'[t].pc # "alive"
      BY <2>4 DEF LetIn, InGet
    <3>2. InGet(t) /\ req'[t].id = req[t].id /\ req'[t].start = req[t].start
      BY <2>1, <3>1, GuestSteps
    <3>3. req[t].id \in SessionIds /\ sess[req[t].id].used /\ sess[req[t].id].lastSeen \in Nat
      BY <2>1, <3>2 DEF InGet, TypeOK, RefreshInv, DueInv, Session
    <3>4. Alive(req[t].id, req[t].start)
      <4>1. CASE LetIn(t)
        BY <2>1, <4>1 DEF GuestInv
      <4>2. CASE Alive(req[t].id, now)
        <5>1. req[t].start <= now /\ sess[req[t].id].createdAt \in Nat /\ sess[req[t].id].credExp \in Nat
          BY <2>1, <3>2, <3>3 DEF GuestInv, TypeOK, Session
        <5> QED
          BY <2>1, <3>3, <4>2, <5>1, OptionTypes DEF Alive
      <4> QED
        BY <2>1, <2>4, <4>1, <4>2, GuestSteps
    <3> DEFINE i == req[t].id
               x == req[t].start
    <3>5. i \in SessionIds /\ x \in Nat /\ sess[i].used /\ Alive(i, x)
      BY <2>1, <3>3, <3>4
    <3>6. i' = i /\ x' = x
      BY <3>2
    <3> HIDE DEF i, x
    <3>7. \A j \in SessionIds, y \in Nat : sess[j].used /\ Alive(j, y) => Alive(j, y)'
      BY <2>1, PastKept
    <3>8. PICK j \in SessionIds, y \in Nat : j = i /\ y = x
      BY <3>5
    <3>9. Alive(j, y)'
      BY <3>5, <3>7, <3>8
    <3> QED
      BY <3>2, <3>8, <3>9 DEF i, x, Alive
  <2> QED
    BY <2>3, <2>4
<1> QED
  BY <1>1, <1>2, RefreshInvariant, FactsInvariant, PTL DEF Spec, LifeInv

\* Get never hands a session to a request that came after the session's absolute cap, or
\* after the expiry of a credential nothing can renew, however long the request waited for
\* a refresh and whatever happened to the session meanwhile (alive, maybeRefresh).
THEOREM GuestsCameInTime == Spec => []AdmittedWithinLife
<1>1. LifeInv => AdmittedWithinLife
  BY DEF LifeInv, GuestInv, LetIn, Alive, AdmittedWithinLife
<1> QED
  BY <1>1, LifeInvariant, PTL

\* The time of a session that is gone does not come back: only touch(), for a request that
\* Get let in while the session was alive, revives one that has expired and that the sweep
\* may have on its list.
THEOREM OnlyGuestsReviveSessions == Spec => OnlyGuestsRevive
<1>1. ASSUME LifeInv, [Next]_vars, NEW id \in sessions, ~Alive(id, now), Alive(id, now)'
      PROVE  \E t \in Threads : req[t].pc = "touch" /\ req[t].id = id /\ Alive(id, req[t].start)
  <2>1. TypeOK /\ MapInv /\ RefreshInv /\ FactsInv /\ id \in SessionIds /\ sess[id].used
    BY <1>1 DEF LifeInv, RefreshInv, StoreInv, MapInv, TypeOK
  <2>2. now \in Nat /\ sess[id] \in Session /\ sess'[id] \in Session
    BY <1>1, <2>1, TypeStep DEF TypeOK
  <2>3. now' \in {now, now + 1}
    BY <1>1, <2>1, SessionWrites
  <2>4. sess'[id].lastSeen # sess[id].lastSeen
    <3> SUFFICES ASSUME sess'[id].lastSeen = sess[id].lastSeen PROVE FALSE
      OBVIOUS
    <3>1. /\ sess'[id].createdAt = sess[id].createdAt /\ sess'[id].refresher = sess[id].refresher
          /\ sess[id].refresher \/ sess'[id].credExp = sess[id].credExp
      BY <1>1, <2>1, SessionKept
    <3>2. /\ sess[id].createdAt \in Nat /\ sess[id].credExp \in Nat /\ sess[id].lastSeen \in Nat
      BY <2>2 DEF Session
    <3> QED
      BY <1>1, <2>2, <2>3, <3>1, <3>2, OptionTypes DEF Alive
  <2>5. PICK t \in Threads : req[t].pc = "touch" /\ req[t].id = id
    BY <1>1, <2>1, <2>4, SessionKept
  <2> QED
    BY <1>1, <2>5 DEF LifeInv, GuestInv, LetIn
<1>2. LifeInv /\ [Next]_vars =>
        [\A id \in sessions : id \in sessions' /\ ~Alive(id, now) /\ Alive(id, now)' =>
           \E t \in Threads : req[t].pc = "touch" /\ req[t].id = id /\ Alive(id, req[t].start)]_vars
  BY <1>1
<1> QED
  BY <1>2, LifeInvariant, PTL DEF Spec, OnlyGuestsRevive

-----------------------------------------------------------------------------
(* Ends *)

\* How a session comes to an end: the step that takes it from the last place where
\* somebody still holds it (the store, the sweep's batch, a refused login, a Delete on its
\* way to zero it) zeroes it.
LEMMA EndSteps ==
  ASSUME TypeOK, MapInv, [Next]_vars, NEW i \in SessionIds, ~Ended(i), Ended(i)'
  PROVE  ~sess'[i].live /\ sess'[i].tok = NoToken
<1> DEFINE Goal == ~sess'[i].live /\ sess'[i].tok = NoToken
<1>1. /\ sess \in [SessionIds -> Session] /\ sess[i] \in Session
      /\ req \in [Threads -> Request] /\ \A t \in Threads : req[t] \in Request
  BY DEF TypeOK
<1>2. ASSUME NEW S \in SUBSET SessionIds, ZeroAll(S), i \in S PROVE Goal
  <2>1. sess'[i] = Zeroed(sess[i])
    BY <1>2 DEF ZeroAll
  <2> QED
    BY <1>1, <2>1 DEF Zeroed, Session
<1>3. ASSUME NEW u \in Threads, Create(u) \/ Get(u) \/ Use(u) \/ Delete(u)
      PROVE  \A t \in Threads \ {u} : req'[t] = req[t]
  BY <1>1, <1>3 DEF Create, CreateBegin, CreateScan, CreateInsert, CreateRefused, Get, GetLookup,
     GetNotFound, GetAlive, RefreshStart, RefreshSkip, RefreshGrant, RefreshFail, ApplyRefresh,
     GetCheck, GetTouch, Use, UseTransport, RequestDone, Invalidate, Delete, DeleteBegin,
     DeleteRemove, DeleteZero, Goto, Finish, vars
<1>4. ASSUME NEW t \in Threads, NEW id \in SessionIds, NEW spec \in Specs, CreateBegin(t, id, spec)
      PROVE  i # id /\ sess'[i] = sess[i]
  <2>1. req'[t].pc = "create" /\ req'[t].id = id
    <3>1. req'[t] = Started("create", id)
      BY <1>1, <1>4 DEF CreateBegin
    <3> QED
      BY <3>1 DEF Started, Idle
  <2>2. i # id
    BY <2>1 DEF Ended, InCreate
  <2> QED
    BY <1>1, <1>4, <2>2 DEF CreateBegin
<1>5. sess[i].used
  <2>1. ASSUME NEW t \in Threads, ApplyRefresh(t) PROVE sess'[i].used = sess[i].used
    <3>1. sess'[i] = sess[i] \/ sess'[i] = Refreshed(sess[i], req[t])
      BY <1>1, <2>1 DEF ApplyRefresh
    <3> QED
      BY <1>1, <3>1 DEF Refreshed, Session
  <2>2. ASSUME NEW t \in Threads, GetTouch(t) PROVE sess'[i].used = sess[i].used
    <3>1. sess'[i] = sess[i] \/ sess'[i] = [sess[i] EXCEPT !.lastSeen = now]
      BY <1>1, <2>2 DEF GetTouch
    <3> QED
      BY <1>1, <3>1 DEF Session
  <2>3. ASSUME NEW t \in Threads, NEW key \in TransportKeys, NEW ok \in BOOLEAN, UseTransport(t, key, ok)
        PROVE  sess'[i].used = sess[i].used
    <3> DEFINE built == [key |-> key, ver |-> sess[i].ver, live |-> sess[i].live]
               T == (sess[i].transports \ Superseded(i, key)) \cup (IF ok THEN {built} ELSE {})
    <3>1. sess'[i] = sess[i] \/ sess'[i] = [sess[i] EXCEPT !.transports = T]
      BY <1>1, <2>3 DEF UseTransport
    <3> HIDE DEF T
    <3> QED
      BY <1>1, <3>1 DEF Session
  <2>4. ASSUME NEW S \in SUBSET SessionIds, ZeroAll(S) PROVE sess'[i].used = sess[i].used
    <3>1. sess'[i] = sess[i] \/ sess'[i] = Zeroed(sess[i])
      BY <2>4 DEF ZeroAll
    <3> QED
      BY <1>1, <3>1 DEF Zeroed, Session
  <2>5. sess'[i].used
    BY DEF Ended
  <2> QED
    BY <1>4, <2>1, <2>2, <2>3, <2>4, <2>5, SessionWrites
<1>6. ASSUME NEW u \in Threads, Create(u) PROVE Goal
  <2>1. \A t \in Threads \ {u} : req'[t] = req[t]
    BY <1>3, <1>6
  <2>2. ASSUME NEW id \in SessionIds, NEW spec \in Specs, CreateBegin(u, id, spec) PROVE Ended(i)
    BY <1>5, <2>1, <2>2 DEF CreateBegin, Ended, InCreate
  <2>3. CASE CreateScan(u)
    <3>1. req'[u].pc = "evict" /\ req'[u].id = req[u].id /\ req[u].pc = "create"
      BY <1>1, <2>3 DEF CreateScan, Request
    <3>2. Ended(i)
      BY <1>5, <2>1, <2>3, <3>1 DEF CreateScan, Ended, InCreate
    <3> QED
      BY <3>2
  <2>4. CASE CreateInsert(u)
    <3>1. PICK S \in SUBSET SessionIds : ZeroAll(S) /\ sessions' = (sessions \ S) \cup {req[u].id}
      <4>1. req[u].evict \in SUBSET SessionIds /\ sessions \subseteq SessionIds
        BY <1>1 DEF TypeOK, Request
      <4>2. CASE ZeroAll(req[u].evict) /\ sessions' = (sessions \ req[u].evict) \cup {req[u].id}
        BY <4>1, <4>2
      <4>3. ASSUME NEW e \in ExpiredAt(u, sessions \ req[u].evict), ZeroAll(req[u].evict \cup {e}),
                   sessions' = ((sessions \ req[u].evict) \ {e}) \cup {req[u].id}
            PROVE  \E S \in SUBSET SessionIds : ZeroAll(S) /\ sessions' = (sessions \ S) \cup {req[u].id}
        <5>1. req[u].evict \cup {e} \in SUBSET SessionIds
          BY <4>1 DEF ExpiredAt
        <5>2. sessions' = (sessions \ (req[u].evict \cup {e})) \cup {req[u].id}
          BY <4>3
        <5> QED
          BY <4>3, <5>1, <5>2
      <4> QED
        BY <2>4, <4>2, <4>3 DEF CreateInsert
    <3>2. CASE i \in S
      BY <1>2, <3>1, <3>2
    <3>3. CASE i \notin S
      <4>1. i # req[u].id /\ i \notin sessions
        BY <3>1, <3>3 DEF Ended
      <4>2. Ended(i)
        BY <1>5, <2>1, <2>4, <4>1 DEF CreateInsert, Ended, InCreate
      <4> QED
        BY <4>2
    <3> QED
      BY <3>2, <3>3
  <2>5. CASE CreateRefused(u)
    <3> DEFINE S == req[u].evict \cup {req[u].id}
    <3>1. S \in SUBSET SessionIds /\ ZeroAll(S) /\ sessions' = sessions \ req[u].evict
      BY <1>1, <2>5 DEF CreateRefused, TypeOK, Request
    <3>2. CASE i \in S
      BY <1>2, <3>1, <3>2
    <3>3. CASE i \notin S
      <4>1. i # req[u].id /\ i \notin sessions
        BY <3>1, <3>3 DEF Ended
      <4>2. Ended(i)
        BY <1>5, <2>1, <2>5, <4>1 DEF CreateRefused, Ended, InCreate
      <4> QED
        BY <4>2
    <3> QED
      BY <3>2, <3>3
  <2> QED
    BY <1>6, <2>2, <2>3, <2>4, <2>5 DEF Create
<1>7. ASSUME NEW u \in Threads, Get(u) \/ Use(u) PROVE Ended(i)
  <2>1. UNCHANGED <<sessions, gc>> \/ UNCHANGED vars
    BY <1>7 DEF Get, GetLookup, GetNotFound, GetAlive, RefreshStart, RefreshSkip, RefreshGrant,
       RefreshFail, ApplyRefresh, GetCheck, GetTouch, Use, UseTransport, RequestDone, Invalidate
  <2>2. ~InCreate(u) /\ req[u].pc # "zero"
    BY <1>7 DEF InCreate, Get, GetLookup, GetNotFound, GetAlive, RefreshStart, RefreshSkip, RefreshGrant,
       RefreshFail, ApplyRefresh, GetCheck, GetTouch, Use, UseTransport, RequestDone, Invalidate
  <2>3. \A t \in Threads \ {u} : req'[t] = req[t]
    BY <1>3, <1>7
  <2> QED
    BY <1>5, <2>1, <2>2, <2>3 DEF Ended, InCreate, vars
<1>8. ASSUME NEW u \in Threads, Delete(u) PROVE Goal
  <2>1. \A t \in Threads \ {u} : req'[t] = req[t]
    BY <1>3, <1>8
  <2>2. ASSUME NEW id \in SessionIds, DeleteBegin(u, id) PROVE Ended(i)
    BY <1>5, <2>1, <2>2 DEF DeleteBegin, Ended, InCreate
  <2>3. CASE DeleteRemove(u)
    <3>1. i \notin sessions
      <4> SUFFICES ASSUME i \in sessions PROVE FALSE
        OBVIOUS
      <4>1. i = req[u].id /\ Goto(u, "zero")
        BY <2>3 DEF DeleteRemove, Ended
      <4>2. req'[u].pc = "zero" /\ req'[u].id = req[u].id
        BY <1>1, <4>1 DEF Goto, Request
      <4> QED
        BY <4>1, <4>2 DEF Ended
    <3> QED
      BY <1>5, <2>1, <2>3, <3>1 DEF DeleteRemove, Ended, InCreate
  <2>4. CASE DeleteZero(u)
    <3>1. CASE i = req[u].id
      BY <1>2, <2>4, <3>1 DEF DeleteZero
    <3>2. CASE i # req[u].id
      BY <1>5, <2>1, <2>4, <3>2 DEF DeleteZero, Ended, InCreate
    <3> QED
      BY <3>1, <3>2
  <2> QED
    BY <1>8, <2>2, <2>3, <2>4 DEF Delete
<1>9. CASE doGC
  <2>1. gc \in [todo : SUBSET SessionIds, evicted : SUBSET SessionIds]
    BY DEF TypeOK
  <2>2. CASE GCSnapshot
    BY <1>5, <2>1, <2>2 DEF GCSnapshot, Ended, InCreate
  <2>3. CASE GCBatch
    BY <1>5, <2>1, <2>3 DEF GCBatch, Ended, InCreate
  <2>4. ASSUME NEW id \in SessionIds, GCZero(id) PROVE Goal
    <3>1. CASE i = id
      BY <1>2, <2>4, <3>1 DEF GCZero
    <3>2. CASE i # id
      BY <1>5, <2>1, <2>4, <3>2 DEF GCZero, Ended, InCreate
    <3> QED
      BY <3>1, <3>2
  <2> QED
    BY <1>9, <2>2, <2>3, <2>4 DEF doGC
<1>10. CASE Tick \/ UNCHANGED vars
  BY <1>5, <1>10 DEF Tick, vars, Ended, InCreate
<1> QED
  BY <1>6, <1>7, <1>8, <1>9, <1>10 DEF Next

\* A session that has ended stays so: its ID is not drawn again, and nobody holds it who
\* could put it back.
LEMMA EndIsFinal ==
  ASSUME RefreshInv, FactsInv, [Next]_vars, NEW i \in SessionIds, Ended(i)
  PROVE  Ended(i)'
<1>1. /\ TypeOK /\ req \in [Threads -> Request] /\ \A t \in Threads : req[t] \in Request
      /\ sess[i].used /\ i \notin sessions /\ i \notin gc.evicted
      /\ \A t \in Threads : req[t].id = i => ~InCreate(t) /\ req[t].pc # "zero"
  BY DEF FactsInv, TypeOK, Ended
<1>2. sess'[i].used
  BY <1>1, SessionKept
<1>3. i \notin sessions'
  <2>1. ASSUME NEW u \in Threads, CreateInsert(u) PROVE i \notin sessions'
    <3>1. i # req[u].id
      BY <1>1, <2>1 DEF CreateInsert, InCreate
    <3> QED
      BY <1>1, <2>1, <3>1 DEF CreateInsert
  <2>2. ASSUME NEW u \in Threads, Create(u) PROVE i \notin sessions'
    BY <1>1, <2>1, <2>2 DEF Create, CreateBegin, CreateScan, CreateRefused
  <2> QED
    BY <1>1, <2>2, StoreSteps DEF StoreQuiet
<1>4. i \notin gc'.evicted
  <2>1. gc \in [todo : SUBSET SessionIds, evicted : SUBSET SessionIds]
    BY <1>1 DEF TypeOK
  <2>2. CASE doGC
    <3>1. CASE GCSnapshot
      BY <1>1, <2>1, <3>1 DEF GCSnapshot
    <3>2. CASE GCBatch
      BY <1>1, <3>2 DEF GCBatch
    <3>3. ASSUME NEW id \in SessionIds, GCZero(id) PROVE i \notin gc'.evicted
      BY <1>1, <2>1, <3>3 DEF GCZero
    <3> QED
      BY <2>2, <3>1, <3>2, <3>3 DEF doGC
  <2>3. ASSUME NEW u \in Threads, Create(u) \/ Get(u) \/ Use(u) \/ Delete(u) PROVE UNCHANGED gc
    BY <2>3 DEF Create, CreateBegin, CreateScan, CreateInsert, CreateRefused, Get, GetLookup,
       GetNotFound, GetAlive, RefreshStart, RefreshSkip, RefreshGrant, RefreshFail, ApplyRefresh,
       GetCheck, GetTouch, Use, UseTransport, RequestDone, Invalidate, Delete, DeleteBegin,
       DeleteRemove, DeleteZero, vars
  <2> QED
    BY <1>1, <2>2, <2>3 DEF Next, Tick, vars
<1>5. ASSUME NEW t \in Threads, req'[t].id = i, InCreate(t)' PROVE FALSE
  <2>1. ASSUME NEW u \in Threads, NEW id \in SessionIds, NEW spec \in Specs, CreateBegin(u, id, spec)
        PROVE  FALSE
    <3>1. id # i
      BY <1>1, <2>1 DEF CreateBegin
    <3>2. req'[t] = req[t] \/ req'[t] = Started("create", id)
      BY <1>1, <2>1 DEF CreateBegin
    <3> QED
      BY <1>1, <1>5, <3>1, <3>2 DEF Started, Idle, InCreate
  <2>2. ASSUME NEW u \in Threads, CreateScan(u) PROVE FALSE
    BY <1>1, <1>5, <2>2 DEF CreateScan, InCreate, Request
  <2>3. ASSUME NEW u \in Threads, CreateInsert(u) \/ CreateRefused(u) PROVE FALSE
    BY <1>1, <1>5, <2>3, IdleType DEF CreateInsert, CreateRefused, Finish, InCreate
  <2> QED
    BY <1>1, <1>5, <2>1, <2>2, <2>3, StoreSteps DEF StoreQuiet, Create, InCreate
<1>6. ASSUME NEW t \in Threads, req'[t].id = i, req'[t].pc = "zero" PROVE FALSE
  <2> DEFINE Same == req'[t] = req[t] \/ req'[t].pc # "zero"
  <2>1. ASSUME NEW u \in Threads, NEW pc \in PCs \ {"zero"}, Goto(u, pc) PROVE Same
    BY <1>1, <2>1 DEF Goto, Request
  <2>2. ASSUME NEW u \in Threads, Finish(u) PROVE Same
    BY <1>1, <2>2, IdleType DEF Finish
  <2>3. ASSUME NEW u \in Threads, NEW pc \in PCs \ {"zero"}, NEW id \in SessionIds,
               req' = [req EXCEPT ![u] = Started(pc, id)]
        PROVE  Same
    BY <1>1, <2>3, StartedType DEF TypeOK
  <2>4. ASSUME NEW u \in Threads, Create(u) \/ Get(u) \/ Use(u) PROVE FALSE
    <3>1. ASSUME CreateScan(u) \/ RefreshStart(u) PROVE Same
      BY <1>1, <3>1 DEF CreateScan, RefreshStart, Request
    <3>2. ASSUME NEW ttl \in GrantTTLs, NEW rotate \in BOOLEAN, RefreshGrant(u, ttl, rotate) PROVE Same
      BY <1>1, <3>2 DEF RefreshGrant, Request
    <3>3. CASE Create(u)
      <4>1. Same
        BY <2>2, <2>3, <3>1, <3>3 DEF Create, CreateBegin, CreateInsert, CreateRefused, PCs
      <4> QED
        BY <1>1, <1>6, <4>1
    <3>4. CASE Get(u)
      <4>1. Same
        BY <2>1, <2>3, <3>1, <3>2, <3>4 DEF Get, GetLookup, GetNotFound, GetAlive, RefreshSkip,
           RefreshFail, ApplyRefresh, GetCheck, GetTouch, PCs, vars
      <4> QED
        BY <1>1, <1>6, <4>1
    <3>5. CASE Use(u)
      <4>1. Same
        BY <2>1, <2>2, <3>5 DEF Use, UseTransport, RequestDone, Invalidate, PCs
      <4> QED
        BY <1>1, <1>6, <4>1
    <3> QED
      BY <2>4, <3>3, <3>4, <3>5
  <2>5. ASSUME NEW u \in Threads, Delete(u) PROVE FALSE
    <3>1. CASE DeleteRemove(u)
      <4>1. CASE t = u
        <5>1. req[u].id \in sessions => req'[t].id = req[u].id
          BY <1>1, <3>1, <4>1 DEF DeleteRemove, Goto, Request
        <5>2. req[u].id \notin sessions => req'[t] = Idle
          BY <1>1, <3>1, <4>1 DEF DeleteRemove, Finish
        <5> QED
          BY <1>1, <1>6, <5>1, <5>2, IdleType
      <4>2. CASE t # u
        BY <1>1, <1>6, <3>1, <4>2 DEF DeleteRemove, Goto, Finish
      <4> QED
        BY <4>1, <4>2
    <3>2. ASSUME NEW id \in SessionIds, DeleteBegin(u, id) PROVE FALSE
      BY <1>1, <1>6, <3>2 DEF DeleteBegin, Started, Idle
    <3>3. CASE DeleteZero(u)
      BY <1>1, <1>6, <3>3, IdleType DEF DeleteZero, Finish
    <3> QED
      BY <2>5, <3>1, <3>2, <3>3 DEF Delete
  <2>6. CASE UNCHANGED req
    BY <1>1, <1>6, <2>6
  <2> QED
    BY <2>4, <2>5, <2>6 DEF Next, Tick, doGC, GCSnapshot, GCBatch, GCZero, vars
<1> QED
  BY <1>2, <1>3, <1>4, <1>5, <1>6 DEF Ended

\* Nothing brings back the credential of a session that is gone: a refresh that starts
\* on it has no token to send, and one without a token gets no answer.
LEMMA GoneForGood ==
  ASSUME RefreshInv, FactsInv, [Next]_vars, NEW i \in SessionIds, Gone(i)
  PROVE  Gone(i)'
<1>1. /\ TypeOK /\ req \in [Threads -> Request] /\ \A t \in Threads : req[t] \in Request
      /\ sess[i].used /\ ~sess[i].live /\ sess[i].tok = NoToken
      /\ \A t \in Threads :
           req[t].id = i /\ InRefresh(t) => req[t].pc = "refreshing" /\ req[t].tok = NoToken
  BY DEF FactsInv, TypeOK, Gone, Ended, Wiped
<1>2. ~sess'[i].live /\ sess'[i].tok = NoToken
  BY <1>1, SessionKept DEF InRefresh
<1>3. ASSUME NEW t \in Threads, req'[t].id = i, InRefresh(t)'
      PROVE  req'[t].pc = "refreshing" /\ req'[t].tok = NoToken
  <2>1. ASSUME NEW u \in Threads, NEW id \in SessionIds, NEW spec \in Specs, CreateBegin(u, id, spec)
        PROVE  req'[t] = req[t]
    BY <1>1, <1>3, <2>1 DEF CreateBegin, InRefresh, Started, Idle
  <2>2. ASSUME NEW u \in Threads, RefreshStart(u)
        PROVE  req'[t] = req[t] \/ (req'[t].pc = "refreshing" /\ req'[t].tok = NoToken)
    <3>1. CASE t # u
      BY <1>1, <2>2, <3>1 DEF RefreshStart
    <3>2. CASE t = u
      <4>1. req'[t].id = req[u].id
        BY <1>1, <2>2, <3>2 DEF RefreshStart, Request
      <4> QED
        BY <1>1, <1>3, <2>2, <3>2, <4>1 DEF RefreshStart, Request
    <3> QED
      BY <3>1, <3>2
  <2>3. ASSUME NEW u \in Threads, RefreshFail(u) \/ ApplyRefresh(u) PROVE req'[t] = req[t]
    BY <1>1, <1>3, <2>3 DEF RefreshFail, ApplyRefresh, Goto, InRefresh, Request
  <2>4. ASSUME NEW u \in Threads, NEW ttl \in GrantTTLs, NEW rotate \in BOOLEAN,
               RefreshGrant(u, ttl, rotate)
        PROVE  req'[t] = req[t]
    <3>1. req[u].id # i
      BY <1>1, <2>4 DEF RefreshGrant, InRefresh
    <3>2. req'[u].id = req[u].id
      BY <1>1, <2>4 DEF RefreshGrant, Request
    <3>3. t # u
      BY <1>3, <3>1, <3>2
    <3> QED
      BY <1>1, <2>4, <3>3 DEF RefreshGrant
  <2>5. req'[t] = req[t] \/ (req'[t].pc = "refreshing" /\ req'[t].tok = NoToken)
    BY <1>1, <1>3, <2>1, <2>2, <2>3, <2>4, RefreshSteps DEF RefreshQuiet, InRefresh
  <2> QED
    BY <1>1, <1>3, <2>5 DEF InRefresh
<1> QED
  BY <1>2, <1>3, EndIsFinal DEF Gone, Wiped

\* Whatever ends a session (logout, Get, an upstream 401, the sweep, a login over the
\* caps, a refused login), the step that ends it overwrites its credential and its refresh
\* token (zero, in Create, Delete and doGC), and only a refresh that had already sent the
\* token can bring a credential back (applyRefresh).
THEOREM EndedSessionsZeroed == Spec => EndedSessionZeroed
<1>1. ASSUME RefreshInv, FactsInv, [Next]_vars, NEW id \in SessionIds
      PROVE  (~Ended(id) /\ Ended(id)' => Wiped(id)') /\ (Gone(id) => Gone(id)')
  BY <1>1, EndSteps, GoneForGood DEF RefreshInv, StoreInv, Wiped
<1>2. RefreshInv /\ FactsInv /\ [Next]_vars =>
        [\A id \in SessionIds :
           /\ ~Ended(id) /\ Ended(id)' => Wiped(id)'
           /\ Gone(id) => Gone(id)']_vars
  BY <1>1
<1> QED
  BY <1>2, RefreshInvariant, FactsInvariant, PTL DEF Spec, EndedSessionZeroed

\* A login that ends has pushed out none but sessions of its own identity and, in a full
\* store, one that had expired (enforcePerUserLimitLocked, evictOneExpiredLocked).
THEOREM LoginsEvictTheirOwn == Spec => LoginEvictsOwnOrExpired
<1> DEFINE Fair(t) ==
      \E spared \in SUBSET SessionIds :
         /\ Cardinality(spared) <= 1
         /\ spared \subseteq ExpiredAt(t, SessionIds)
         /\ \A id \in (sessions \ sessions') \ spared :
              sess[req[t].id].capKey \in Users /\ sess[id].capKey = sess[req[t].id].capKey
<1>1. ASSUME StoreInv, [Next]_vars, NEW t \in Threads, req[t].pc = "evict", req'[t].pc = "idle"
      PROVE  Fair(t)
  <2>1. TypeOK /\ ~StoreQuiet
    BY <1>1 DEF StoreInv, StoreQuiet, InCreate
  <2>2. PICK u \in Threads : Create(u)
    BY <1>1, <2>1, StoreSteps
  <2>3. u = t
    BY <1>1, <2>1, <2>2 DEF Create, CreateBegin, CreateScan, CreateInsert, CreateRefused, Finish, TypeOK
  <2>4. CreateInsert(t) \/ CreateRefused(t)
    <3>1. \A id \in SessionIds, spec \in Specs : ~CreateBegin(t, id, spec)
      BY <1>1 DEF CreateBegin
    <3>2. ~CreateScan(t)
      BY <1>1 DEF CreateScan
    <3> QED
      BY <2>2, <2>3, <3>1, <3>2 DEF Create
  <2> DEFINE E == req[t].evict
             k == sess[req[t].id].capKey
  <2>5. PICK spared \in SUBSET SessionIds :
          /\ spared = {} \/ \E e \in ExpiredAt(t, SessionIds) : spared = {e}
          /\ sessions \ sessions' \subseteq E \cup spared
    <3>1. \A e \in ExpiredAt(t, sessions \ E) : e \in ExpiredAt(t, SessionIds) /\ {e} \in SUBSET SessionIds
      BY <2>1 DEF ExpiredAt, TypeOK
    <3>2. CASE sessions \ sessions' \subseteq E
      <4>1. {} \in SUBSET SessionIds
        OBVIOUS
      <4> QED
        BY <3>2, <4>1
    <3>3. ASSUME NEW e \in ExpiredAt(t, sessions \ E), sessions \ sessions' \subseteq E \cup {e}
          PROVE  \E s \in SUBSET SessionIds :
                   /\ s = {} \/ \E x \in ExpiredAt(t, SessionIds) : s = {x}
                   /\ sessions \ sessions' \subseteq E \cup s
      BY <3>1, <3>3
    <3> QED
      BY <2>4, <3>2, <3>3 DEF CreateInsert, CreateRefused
  <2>6. Cardinality(spared) <= 1
    <3>1. CASE spared = {}
      BY <3>1, FS_EmptySet
    <3>2. ASSUME NEW e, spared = {e} PROVE Cardinality(spared) = 1
      BY <3>2, FS_Singleton
    <3> QED
      BY <2>5, <3>1, <3>2
  <2>7. VictimsOK(t) /\ k \in Users \cup {NoUser}
    BY <1>1, <2>1 DEF StoreInv, VictimInv, TypeOK, Session
  <2>8. \A id \in (sessions \ sessions') \ spared : k \in Users /\ sess[id].capKey = k
    BY <2>5, <2>7 DEF VictimsOK, Owned
  <2> QED
    BY <2>5, <2>6, <2>8
<1>2. StoreInv /\ [Next]_vars =>
        [\A t \in Threads : req[t].pc = "evict" /\ req'[t].pc = "idle" => Fair(t)]_vars
  BY <1>1
<1> QED
  BY <1>2, StoreInvariant, PTL DEF Spec, LoginEvictsOwnOrExpired
=============================================================================
