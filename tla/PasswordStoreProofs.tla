------------------------ MODULE PasswordStoreProofs -------------------------
(* Proofs about PasswordStore.                                              *)
EXTENDS PasswordStore, TLAPS

Writing == {"get", "put", "cache"}

\* What the fields of a request hold at each step.
RequestInv ==
  \A w \in Workers :
    /\ req[w].pc \in Writing => req[w].pw \in Passwords /\ req[w].salt \in Salts
    /\ req[w].pc = "lock" => w # Boot /\ req[w].pw \in Passwords
    /\ req[w].pc = "read" => w = Boot

\* One writer at a time: the holder of the lock, or the start-up, during which
\* no request runs.
WriterInv ==
  /\ \A t \in Threads : req[t].pc \in Writing <=> lock = t
  /\ ~Up => lock = Nobody /\ \A t \in Threads : req[t].pc = "idle"
  /\ Up => cache \in PasswordRecords

\* What a writer knows of the Secret.
SecretInv ==
  /\ OnlyWriter
  /\ \A w \in Workers : req[w].pc = "cache" =>
       secret = Record(req[w].pw, req[w].salt) /\ (w # Boot => req[w].pw \in attempted)

\* Cache and Secret agree unless a change has taken effect and was not reported.
CacheInv == Up /\ attempted = {} => cache = secret

\* Only a start-up that found no Secret writes the default password.
DefaultInv ==
  /\ req[Boot].pc \in Writing => req[Boot].pw = DefaultPassword
  /\ ~blind =>
       /\ secret = None => acked = DefaultPassword
       /\ req[Boot].pc \in {"get", "put"} => secret = None

PasswordInv ==
  /\ TypeOK /\ RequestInv /\ WriterInv /\ SecretInv /\ CacheInv /\ DefaultInv
  /\ PasswordSurvives

USE DEF Workers, Writing

\* The records a Secret and the cache hold.
LEMMA RecordFacts ==
  /\ \A p \in Passwords, s \in Salts :
       /\ Record(p, s) \in PasswordRecords
       /\ Record(p, s) # None
       /\ Record(p, s).hash = Hash(p, Record(p, s).salt)
  /\ \A r \in PasswordRecords : r.salt \in Salts /\ r # None
  BY NoneIsNoRecord DEF Record, Hash, PasswordRecords

\* The two resting states of a goroutine.
LEMMA WorkerFacts ==
  /\ Idle \in WorkerStates /\ Idle.pc = "idle"
  /\ Booting \in WorkerStates /\ Booting.pc = "read"
  BY DEF Idle, Booting, WorkerStates

LEMMA PasswordInitially == Init => PasswordInv
<1> SUFFICES ASSUME Init PROVE PasswordInv
  OBVIOUS
<1> USE PasswordNames DEF Init
<1>1. /\ req[Boot] = Booting
      /\ \A t \in Threads : req[t] = Idle
  OBVIOUS
<1>2. TypeOK
  <2>1. blind \in BOOLEAN
    OBVIOUS
  <2>2. req \in [Workers -> WorkerStates]
    BY WorkerFacts
  <2>3. QED
    BY <2>1, <2>2 DEF TypeOK
<1>3. RequestInv /\ WriterInv
  BY <1>1 DEF RequestInv, WriterInv, Up, Idle, Booting
<1>4. SecretInv /\ CacheInv /\ DefaultInv /\ PasswordSurvives
  BY <1>1 DEF SecretInv, OnlyWriter, CacheInv, DefaultInv, PasswordSurvives, Kept, Up, Idle, Booting
<1>5. QED
  BY <1>2, <1>3, <1>4 DEF PasswordInv

\* The start-up reads the Secret, or takes a failed read for a missing one.
LEMMA ReadKeeps ==
  ASSUME PasswordInv, InitRead \/ InitReadFail
  PROVE PasswordInv'
<1> USE PasswordNames, RecordFacts, WorkerFacts DEF PasswordInv
<1>1. /\ req \in [Workers -> WorkerStates] /\ req[Boot].pc = "read" /\ ~Up
      /\ lock = Nobody /\ \A t \in Threads : req[t].pc = "idle" /\ t # Boot
      /\ lock' = lock /\ secret' = secret /\ acked' = acked /\ attempted' = attempted
      /\ crashes' = crashes
  BY DEF InitRead, InitReadFail, TypeOK, WriterInv, Up
<1>2. /\ faults' \in 0..MaxFaults /\ blind' \in BOOLEAN /\ (blind => blind')
  <2>1. CASE InitRead
    BY <2>1 DEF InitRead, TypeOK
  <2>2. CASE InitReadFail
    <3>1. faults' \in 0..MaxFaults
      BY <2>2 DEF InitReadFail, Fault, TypeOK
    <3>2. blind' = TRUE
      BY <2>2 DEF InitReadFail
    <3>3. QED
      BY <3>1, <3>2
  <2>3. QED
    BY <2>1, <2>2
<1>3. CASE UseDefault /\ cache' = cache /\ (secret = None \/ blind')
  <2>1. PICK salt \in Salts :
          req' = [req EXCEPT ![Boot] = [Idle EXCEPT !.pc = "get", !.pw = DefaultPassword, !.salt = salt]]
    BY <1>3 DEF UseDefault
  <2>2. /\ req' \in [Workers -> WorkerStates]
        /\ req'[Boot].pc = "get" /\ req'[Boot].pw = DefaultPassword /\ req'[Boot].salt \in Salts
        /\ \A t \in Threads : req'[t] = req[t]
    BY <1>1, <2>1 DEF WorkerStates, Idle
  <2>3. TypeOK' /\ RequestInv'
    BY <1>1, <1>2, <1>3, <2>2 DEF TypeOK, RequestInv
  <2>4. WriterInv' /\ SecretInv' /\ CacheInv'
    BY <1>1, <2>2 DEF WriterInv, SecretInv, OnlyWriter, CacheInv, Up
  <2>5. DefaultInv'
    BY <1>1, <1>2, <1>3, <2>2 DEF DefaultInv
  <2>6. PasswordSurvives'
    BY <1>1, <1>2 DEF PasswordSurvives, Kept
  <2>7. QED
    BY <2>3, <2>4, <2>5, <2>6
<1>4. CASE secret # None /\ cache' = secret /\ req' = [req EXCEPT ![Boot] = Idle]
  <2>1. /\ req' \in [Workers -> WorkerStates]
        /\ req'[Boot] = Idle
        /\ \A t \in Threads : req'[t] = req[t]
    BY <1>1, <1>4
  <2>2. TypeOK' /\ RequestInv'
    BY <1>1, <1>2, <1>4, <2>1 DEF TypeOK, RequestInv
  <2>3. WriterInv' /\ SecretInv' /\ CacheInv'
    BY <1>1, <1>4, <2>1 DEF WriterInv, SecretInv, OnlyWriter, CacheInv, Up, TypeOK
  <2>4. DefaultInv' /\ PasswordSurvives'
    BY <1>1, <1>2, <1>4, <2>1 DEF DefaultInv, PasswordSurvives, Kept
  <2>5. QED
    BY <2>2, <2>3, <2>4
<1>5. QED
  BY <1>3, <1>4 DEF InitRead, InitReadFail

\* A request compares the password, or gets the lock.
LEMMA CompareKeeps ==
  ASSUME PasswordInv, NEW t \in Threads, UpdatePassword(t)
  PROVE PasswordInv'
<1> USE PasswordNames, RecordFacts, WorkerFacts DEF PasswordInv
<1>1. CASE UpdateLock(t)
  <2>1. Up /\ cache \in PasswordRecords /\ \A u \in Threads : req[u].pc \notin Writing
    BY <1>1 DEF UpdateLock, WriterInv, TypeOK
  <2>2. /\ req' \in [Workers -> WorkerStates]
        /\ req'[t].pc = "get" /\ req'[t].pw = req[t].pw /\ req'[t].salt \in Salts
        /\ \A w \in Workers \ {t} : req'[w] = req[w]
    BY <1>1, <2>1 DEF UpdateLock, TypeOK, WorkerStates
  <2>3. TypeOK' /\ RequestInv'
    BY <1>1, <2>2 DEF UpdateLock, TypeOK, RequestInv
  <2>4. WriterInv' /\ SecretInv' /\ CacheInv'
    BY <1>1, <2>1, <2>2 DEF UpdateLock, WriterInv, SecretInv, OnlyWriter, CacheInv, Up
  <2>5. DefaultInv' /\ PasswordSurvives'
    BY <1>1, <2>2 DEF UpdateLock, DefaultInv, PasswordSurvives, Kept
  <2>6. QED
    BY <2>3, <2>4, <2>5
<1>2. CASE \E mode \in {"admin", "other"}, body \in {"valid", "invalid"}, current \in Passwords, new \in Passwords :
             UpdateCompare(t, mode, body, current, new)
  <2>1. PICK mode \in {"admin", "other"}, body \in {"valid", "invalid"}, current \in Passwords,
             new \in Passwords : UpdateCompare(t, mode, body, current, new)
    BY <1>2
  <2>2. /\ req' \in [Workers -> WorkerStates]
        /\ req'[t].pc = "lock" /\ req'[t].pw \in Passwords
        /\ \A w \in Workers \ {t} : req'[w] = req[w]
    BY <2>1 DEF UpdateCompare, TypeOK, WorkerStates, Idle
  <2>3. TypeOK' /\ RequestInv'
    BY <2>1, <2>2 DEF UpdateCompare, TypeOK, RequestInv
  <2>4. WriterInv' /\ SecretInv' /\ CacheInv'
    BY <2>1, <2>2 DEF UpdateCompare, WriterInv, SecretInv, OnlyWriter, CacheInv, Up
  <2>5. DefaultInv' /\ PasswordSurvives'
    BY <2>1, <2>2 DEF UpdateCompare, DefaultInv, PasswordSurvives, Kept
  <2>6. QED
    BY <2>3, <2>4, <2>5
<1>3. CASE \E mode \in {"admin", "other"}, body \in {"valid", "invalid"}, current \in Passwords :
             UpdateRefused(t, mode, body, current)
  BY <1>3 DEF UpdateRefused, vars, TypeOK, RequestInv, WriterInv, SecretInv, OnlyWriter, CacheInv,
     DefaultInv, PasswordSurvives, Kept, Up
<1>4. QED
  BY <1>1, <1>2, <1>3 DEF UpdatePassword

\* Who writes: the holder of the lock, with the server up, or the start-up.
LEMMA WriterFacts ==
  ASSUME PasswordInv, NEW w \in Workers, req[w].pc \in Writing
  PROVE /\ req \in [Workers -> WorkerStates]
        /\ req[w].pw \in Passwords /\ req[w].salt \in Salts
        /\ \A u \in Workers \ {w} : req[u].pc \notin Writing
        /\ w # Boot => Up /\ lock = w
        /\ w = Boot => lock = Nobody /\ \A t \in Threads : req[t].pc = "idle"
  BY PasswordNames DEF PasswordInv, TypeOK, RequestInv, WriterInv, Up

\* A writer gives up; the Secret is as it was.
LEMMA FailKeeps ==
  ASSUME PasswordInv, NEW w \in Workers, req[w].pc \in {"get", "put"}, Fail(w),
         faults' \in 0..MaxFaults, UNCHANGED <<secret, crashes, blind, acked, attempted>>
  PROVE PasswordInv'
<1> USE PasswordNames, RecordFacts, WorkerFacts, WriterFacts DEF PasswordInv
<1>1. /\ req' \in [Workers -> WorkerStates]
      /\ req'[w] = IF w = Boot THEN Booting ELSE Idle
      /\ \A u \in Workers \ {w} : req'[u] = req[u]
      /\ lock' = Nobody /\ cache' = cache
  BY DEF Fail
<1>2. TypeOK' /\ RequestInv'
  BY <1>1 DEF TypeOK, RequestInv
<1>3. WriterInv' /\ SecretInv' /\ CacheInv'
  BY <1>1 DEF WriterInv, SecretInv, OnlyWriter, CacheInv, Up
<1>4. DefaultInv' /\ PasswordSurvives'
  BY <1>1 DEF DefaultInv, PasswordSurvives, Kept
<1>5. QED
  BY <1>2, <1>3, <1>4

\* A writer reads the Secret.
LEMMA GetKeeps ==
  ASSUME PasswordInv, NEW w \in Workers, WriteGet(w) \/ WriteGetFail(w)
  PROVE PasswordInv'
<1> USE PasswordNames, RecordFacts, WorkerFacts, WriterFacts DEF PasswordInv
<1>1. CASE WriteGet(w)
  <2>1. /\ req' \in [Workers -> WorkerStates]
        /\ req'[w].pc = "put" /\ req'[w].pw = req[w].pw /\ req'[w].salt = req[w].salt
        /\ req'[w].seen = secret
        /\ \A u \in Workers \ {w} : req'[u] = req[u]
    BY <1>1 DEF WriteGet, TypeOK, WorkerStates
  <2>2. TypeOK' /\ RequestInv'
    BY <1>1, <2>1 DEF WriteGet, TypeOK, RequestInv
  <2>3. WriterInv' /\ SecretInv' /\ CacheInv'
    BY <1>1, <2>1 DEF WriteGet, WriterInv, SecretInv, OnlyWriter, CacheInv, Up
  <2>4. DefaultInv' /\ PasswordSurvives'
    BY <1>1, <2>1 DEF WriteGet, DefaultInv, PasswordSurvives, Kept
  <2>5. QED
    BY <2>2, <2>3, <2>4
<1>2. CASE WriteGetFail(w)
  BY <1>2, FailKeeps DEF WriteGetFail, Fault, TypeOK
<1>3. QED
  BY <1>1, <1>2

\* The Secret changes: it then holds the writer's password, the default one only if
\* there was no Secret or a start-up could not read it.
LEMMA PutFacts ==
  ASSUME PasswordInv, NEW w \in Workers, Put(w), UNCHANGED <<acked, blind>>
  PROVE /\ secret' \in PasswordRecords /\ secret' # None
        /\ attempted' \subseteq Passwords
        /\ w # Boot => req[w].pw \in attempted'
        /\ w = Boot => attempted' = attempted /\ ~Up
        /\ PasswordSurvives'
<1> USE PasswordNames, RecordFacts, WriterFacts DEF Put
<1>1. /\ secret' \in PasswordRecords /\ secret' # None
      /\ attempted' \subseteq Passwords
      /\ w # Boot => req[w].pw \in attempted'
      /\ w = Boot => attempted' = attempted /\ ~Up
  BY DEF PasswordInv, TypeOK, Up
<1>2. secret'.hash = Hash(req[w].pw, secret'.salt)
  OBVIOUS
<1>3. ~blind /\ w = Boot => req[w].pw = acked
  BY DEF PasswordInv, DefaultInv
<1>4. QED
  BY <1>1, <1>2, <1>3 DEF PasswordSurvives, Kept

\* A writer writes the Secret, or fails to.
LEMMA PutKeeps ==
  ASSUME PasswordInv, NEW w \in Workers, WritePut(w) \/ WritePutFail(w) \/ WritePutLost(w)
  PROVE PasswordInv'
<1> USE PasswordNames, RecordFacts, WorkerFacts, WriterFacts DEF PasswordInv
<1>1. CASE WritePut(w)
  <2>1. /\ req' \in [Workers -> WorkerStates]
        /\ req'[w].pc = "cache" /\ req'[w].pw = req[w].pw /\ req'[w].salt = req[w].salt
        /\ \A u \in Workers \ {w} : req'[u] = req[u]
        /\ secret' = Record(req[w].pw, req[w].salt)
        /\ UNCHANGED <<cache, lock, crashes, blind, faults, acked>>
    BY <1>1 DEF WritePut, Put, TypeOK, WorkerStates
  <2>2. TypeOK' /\ RequestInv'
    <3>1. secret' \in PasswordRecords /\ attempted' \subseteq Passwords
      BY <1>1, <2>1, PutFacts DEF WritePut
    <3>2. QED
      BY <1>1, <2>1, <3>1 DEF WritePut, Put, TypeOK, RequestInv
  <2>3. WriterInv' /\ SecretInv' /\ CacheInv'
    BY <1>1, <2>1, PutFacts DEF WritePut, Put, WriterInv, SecretInv, OnlyWriter, CacheInv, Up
  <2>4. DefaultInv' /\ PasswordSurvives'
    BY <1>1, <2>1, PutFacts DEF WritePut, Put, DefaultInv
  <2>5. QED
    BY <2>2, <2>3, <2>4
<1>2. CASE WritePutFail(w)
  BY <1>2, FailKeeps DEF WritePutFail, Fault, TypeOK
<1>3. CASE WritePutLost(w)
  <2>1. /\ req' \in [Workers -> WorkerStates]
        /\ req'[w] = IF w = Boot THEN Booting ELSE Idle
        /\ \A u \in Workers \ {w} : req'[u] = req[u]
        /\ lock' = Nobody /\ cache' = cache /\ faults' \in 0..MaxFaults
        /\ UNCHANGED <<crashes, blind, acked>>
    BY <1>3 DEF WritePutLost, Put, Fail, Fault, TypeOK
  <2>2. TypeOK' /\ RequestInv'
    BY <1>3, <2>1, PutFacts DEF WritePutLost, TypeOK, RequestInv
  <2>3. WriterInv' /\ SecretInv' /\ CacheInv'
    BY <1>3, <2>1, PutFacts DEF WritePutLost, Put, WriterInv, SecretInv, OnlyWriter, CacheInv, Up
  <2>4. DefaultInv' /\ PasswordSurvives'
    BY <1>3, <2>1, PutFacts DEF WritePutLost, Put, DefaultInv
  <2>5. QED
    BY <2>2, <2>3, <2>4
<1>4. QED
  BY <1>1, <1>2, <1>3

\* A writer caches what it has written, and reports it.
LEMMA CacheKeeps ==
  ASSUME PasswordInv, NEW w \in Workers, WriteCache(w)
  PROVE PasswordInv'
<1> USE PasswordNames, RecordFacts, WorkerFacts, WriterFacts DEF PasswordInv
<1>1. /\ req' \in [Workers -> WorkerStates]
      /\ req'[w] = Idle /\ \A u \in Workers \ {w} : req'[u] = req[u]
      /\ cache' = secret /\ cache' \in PasswordRecords /\ lock' = Nobody
      /\ UNCHANGED <<secret, crashes, blind, faults>>
      /\ acked' \in Passwords /\ attempted' \subseteq Passwords
  BY DEF WriteCache, SecretInv, TypeOK
<1>2. TypeOK' /\ RequestInv'
  BY <1>1 DEF TypeOK, RequestInv
<1>3. WriterInv' /\ SecretInv' /\ CacheInv'
  BY <1>1 DEF WriteCache, WriterInv, SecretInv, OnlyWriter, CacheInv, Up
<1>4. DefaultInv' /\ PasswordSurvives'
  BY <1>1 DEF WriteCache, SecretInv, DefaultInv, PasswordSurvives, Kept
<1>5. QED
  BY <1>2, <1>3, <1>4

\* The process restarts.
LEMMA CrashKeeps ==
  ASSUME PasswordInv, Crash
  PROVE PasswordInv'
<1> USE PasswordNames, RecordFacts, WorkerFacts DEF PasswordInv, Crash
<1>1. /\ req' \in [Workers -> WorkerStates]
      /\ req'[Boot] = Booting /\ \A t \in Threads : req'[t] = Idle
  OBVIOUS
<1>2. TypeOK' /\ RequestInv'
  BY <1>1 DEF TypeOK, RequestInv
<1>3. WriterInv' /\ SecretInv' /\ CacheInv'
  BY <1>1 DEF WriterInv, SecretInv, OnlyWriter, CacheInv, Up
<1>4. DefaultInv' /\ PasswordSurvives'
  BY <1>1 DEF DefaultInv, PasswordSurvives, Kept
<1>5. QED
  BY <1>2, <1>3, <1>4

LEMMA PasswordInvariant == Spec => []PasswordInv
<1>1. ASSUME PasswordInv, [Next]_vars PROVE PasswordInv'
  <2>1. CASE UNCHANGED vars
    BY <2>1, <1>1 DEF PasswordInv, vars, TypeOK, RequestInv, WriterInv, SecretInv, OnlyWriter,
       CacheInv, DefaultInv, PasswordSurvives, Kept, Up
  <2>2. CASE \E t \in Threads : UpdatePassword(t)
    BY <2>2, <1>1, CompareKeeps
  <2>3. CASE \E w \in Workers : Write(w)
    BY <2>3, <1>1, GetKeeps, PutKeeps, CacheKeeps DEF Write
  <2>4. QED
    BY <2>1, <2>2, <2>3, <1>1, ReadKeeps, CrashKeeps DEF Next
<1>2. QED
  BY <1>1, PasswordInitially, PTL DEF Spec

\* Requests, Secret and cache are well-formed in every reachable state.
THEOREM PasswordTypeCorrect == Spec => []TypeOK
<1>1. PasswordInv => TypeOK
  BY DEF PasswordInv
<1>2. QED
  BY <1>1, PasswordInvariant, PTL

\* "We should be the only writer": whatever requests, failures, crashes and restarts
\* came before, the Secret a writer is about to replace is the one it has read.
THEOREM OnlyOneWriter == Spec => []OnlyWriter
<1>1. PasswordInv => OnlyWriter
  BY DEF PasswordInv, SecretInv
<1>2. QED
  BY <1>1, PasswordInvariant, PTL

\* At rest the password the server accepts is the one in the Secret, unless a change
\* took effect and was reported as failed.
THEOREM CacheAgrees == Spec => []CacheInStep
<1>1. PasswordInv => CacheInStep
  BY RecordFacts DEF PasswordInv, CacheInv, WriterInv, CacheInStep
<1>2. QED
  BY <1>1, PasswordInvariant, PTL

\* Crashes, restarts and lost answers do not bring back an older password, as long as
\* start-ups can read the Secret.
THEOREM PasswordKept == Spec => []PasswordSurvives
<1>1. PasswordInv => PasswordSurvives
  BY DEF PasswordInv
<1>2. QED
  BY <1>1, PasswordInvariant, PTL
=============================================================================
