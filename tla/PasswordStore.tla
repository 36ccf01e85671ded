---------------------------- MODULE PasswordStore ----------------------------
(***************************************************************************)
(* The static admin password (pkg/password): the hash cached in memory, the *)
(* Kubernetes Secret it is kept in, the initialisation at startup and the   *)
(* change of password through PUT /account/password.                        *)
(*                                                                         *)
(* Every Kubernetes API call is a step of its own and may fail; a failed    *)
(* write may still have taken effect.  The process may crash at any point.  *)
(*                                                                         *)
(* An operator named Def_Slip is Def with one plausible slip in it; it is   *)
(* used only to confirm that a property would notice the slip.              *)
(***************************************************************************)
EXTENDS Integers, FiniteSets

CONSTANTS
  Threads,        \* requests changing the password
  Boot,           \* the startup goroutine
  Passwords, DefaultPassword,
  Salts,
  Nobody, None,
  MaxCrashes,     \* bound: restarts of the process
  MaxFaults       \* bound: failed API calls

ASSUME PasswordNames ==
  /\ Boot \notin Threads /\ Nobody \notin Threads \cup {Boot}
  /\ DefaultPassword \in Passwords /\ None \notin Passwords \cup Salts
  /\ MaxCrashes \in Nat /\ MaxFaults \in Nat

VARIABLES
  secret,     \* the data of the Secret, None if there is no Secret
  cache,      \* cachedSalt and cachedHash, None before Init returns
  lock,       \* who holds the store's write lock
  req,        \* what each goroutine is doing
  crashes, faults,
  acked,      \* history: the password last reported as set, the default at first
  attempted,  \* history: changes that took effect since and were not reported
  blind       \* history: a start-up could not read the Secret

vars == <<secret, cache, lock, req, crashes, faults, acked, attempted, blind>>

Workers == Threads \cup {Boot}

\* hasher.Hash: different passwords or salts, different hashes
Hash(password, salt) == <<password, salt>>

Record(password, salt) == [salt |-> salt, hash |-> Hash(password, salt)]

ASSUME NoneIsNoRecord == \A p \in Passwords, s \in Salts : Record(p, s) # None

Idle == [pc |-> "idle", pw |-> None, salt |-> None, seen |-> None]

Booting == [Idle EXCEPT !.pc = "read"]

Init ==
  /\ secret = None
  /\ cache = None
  /\ lock = Nobody
  /\ req = [w \in Workers |-> IF w = Boot THEN Booting ELSE Idle]
  /\ crashes = 0 /\ faults = 0
  /\ acked = DefaultPassword /\ attempted = {} /\ blind = FALSE

Up == req[Boot].pc = "idle"

Fault == faults < MaxFaults /\ faults' = faults + 1

-----------------------------------------------------------------------------
(* Write: what every writer does once it has chosen a hash and a salt *)

Fail_KeepsLock(w) ==
  /\ req' = [req EXCEPT ![w] = IF w = Boot THEN Booting ELSE Idle]
  /\ UNCHANGED <<lock, cache>>

\* The writer gives up and the lock is released.  A startup that fails ends the
\* process, which Kubernetes restarts.
Fail(w) ==
  /\ req' = [req EXCEPT ![w] = IF w = Boot THEN Booting ELSE Idle]
  /\ lock' = Nobody
  /\ UNCHANGED cache

\* readSecret, to choose between create and update
WriteGet(w) ==
  /\ req[w].pc = "get"
  /\ req' = [req EXCEPT ![w].pc = "put", ![w].seen = secret]
  /\ UNCHANGED <<secret, cache, lock, crashes, blind, faults, acked, attempted>>

WriteGetFail(w) ==
  /\ req[w].pc = "get"
  /\ Fault
  /\ Fail(w)
  /\ UNCHANGED <<secret, crashes, blind, acked, attempted>>

\* The write takes effect if the Secret is still the one that was read: Create
\* and Update both check.
Put(w) ==
  /\ req[w].pc = "put"
  /\ req[w].seen = secret
  /\ secret' = Record(req[w].pw, req[w].salt)
  /\ attempted' = IF w = Boot THEN attempted ELSE attempted \cup {req[w].pw}

WritePut(w) ==
  /\ Put(w)
  /\ req' = [req EXCEPT ![w].pc = "cache"]
  /\ UNCHANGED <<cache, lock, crashes, blind, faults, acked>>

\* The API server refuses the write, or is not reached.
WritePutFail(w) ==
  /\ req[w].pc = "put"
  /\ IF req[w].seen = secret THEN Fault ELSE UNCHANGED faults
  /\ Fail(w)
  /\ UNCHANGED <<secret, crashes, blind, acked, attempted>>

\* The API server did what it was asked, and the answer was lost.
WritePutLost(w) ==
  /\ Put(w)
  /\ Fault
  /\ Fail(w)
  /\ UNCHANGED <<crashes, blind, acked>>

\* The caller caches what was written, unlocks and reports success.
WriteCache(w) ==
  /\ req[w].pc = "cache"
  /\ cache' = Record(req[w].pw, req[w].salt)
  /\ lock' = Nobody
  /\ req' = [req EXCEPT ![w] = Idle]
  /\ IF w = Boot THEN UNCHANGED <<acked, attempted>>
     ELSE acked' = req[w].pw /\ attempted' = {}
  /\ UNCHANGED <<secret, crashes, blind, faults>>

-----------------------------------------------------------------------------
(* Init, at startup: the server does not serve before it returns *)

UseDefault ==
  \E salt \in Salts :
    req' = [req EXCEPT ![Boot] = [Idle EXCEPT !.pc = "get", !.pw = DefaultPassword, !.salt = salt]]

InitRead_IgnoresSecret ==
  /\ req[Boot].pc = "read"
  /\ UseDefault
  /\ UNCHANGED <<secret, cache, lock, crashes, blind, faults, acked, attempted>>

InitRead ==
  /\ req[Boot].pc = "read"
  /\ IF secret = None
     THEN UseDefault /\ UNCHANGED cache
     ELSE cache' = secret /\ req' = [req EXCEPT ![Boot] = Idle]
  /\ UNCHANGED <<secret, lock, crashes, blind, faults, acked, attempted>>

\* K8sSecret.Read tests ok before err, and readSecret's ok is false on every
\* error: a failed Get is taken for a missing Secret.
InitReadFail ==
  /\ req[Boot].pc = "read"
  /\ Fault
  /\ UseDefault
  /\ blind' = TRUE
  /\ UNCHANGED <<secret, cache, lock, crashes, acked, attempted>>

-----------------------------------------------------------------------------
(* UpdatePassword: Compare, then Update, each under the lock on its own *)

Compare(password) == Hash(password, cache.salt) = cache.hash

\* Only a session of the static admin may change the password, with a body that
\* BindJSON accepts.
Entitled(mode, body) == mode = "admin" /\ body = "valid"

UpdateCompare(t, mode, body, current, new) ==
  /\ Up
  /\ req[t].pc = "idle"
  /\ Entitled(mode, body)
  /\ lock = Nobody
  /\ Compare(current)
  /\ req' = [req EXCEPT ![t] = [Idle EXCEPT !.pc = "lock", !.pw = new]]
  /\ UNCHANGED <<secret, cache, lock, crashes, blind, faults, acked, attempted>>

\* 403, or 400 for the body or the current password.
UpdateRefused(t, mode, body, current) ==
  /\ Up
  /\ req[t].pc = "idle"
  /\ ~Entitled(mode, body) \/ (lock = Nobody /\ ~Compare(current))
  /\ UNCHANGED vars

UpdateLock_Unlocked(t) ==
  /\ req[t].pc = "lock"
  /\ req' = [req EXCEPT ![t].pc = "get", ![t].salt = cache.salt]
  /\ UNCHANGED <<secret, cache, lock, crashes, blind, faults, acked, attempted>>

\* Update takes the lock and hashes with the salt in use.
UpdateLock(t) ==
  /\ req[t].pc = "lock"
  /\ lock = Nobody
  /\ lock' = t
  /\ req' = [req EXCEPT ![t].pc = "get", ![t].salt = cache.salt]
  /\ UNCHANGED <<secret, cache, crashes, blind, faults, acked, attempted>>

-----------------------------------------------------------------------------
\* The process dies, and is started again.  Bound: MaxCrashes.
Crash ==
  /\ crashes < MaxCrashes
  /\ crashes' = crashes + 1
  /\ cache' = None
  /\ lock' = Nobody
  /\ req' = [w \in Workers |-> IF w = Boot THEN Booting ELSE Idle]
  /\ UNCHANGED <<secret, faults, blind, acked, attempted>>

Write(w) ==
  \/ WriteGet(w) \/ WriteGetFail(w)
  \/ WritePut(w) \/ WritePutFail(w) \/ WritePutLost(w)
  \/ WriteCache(w)

UpdatePassword(t) ==
  \/ \E mode \in {"admin", "other"}, body \in {"valid", "invalid"}, current \in Passwords :
       \/ \E new \in Passwords : UpdateCompare(t, mode, body, current, new)
       \/ UpdateRefused(t, mode, body, current)
  \/ UpdateLock(t)

Next ==
  \/ InitRead \/ InitReadFail
  \/ \E t \in Threads : UpdatePassword(t)
  \/ \E w \in Workers : Write(w)
  \/ Crash

Spec == Init /\ [][Next]_vars

\* A goroutine that is not blocked is scheduled, API calls end (in success or
\* not), and Go's lock does not starve a waiter.
Fairness ==
  /\ WF_vars(InitRead)
  /\ \A w \in Workers : WF_vars(Write(w))
  /\ \A t \in Threads : SF_vars(UpdateLock(t))

FairSpec == Spec /\ Fairness

-----------------------------------------------------------------------------
(* Properties *)

PasswordRecords == {Record(p, s) : p \in Passwords, s \in Salts}

WorkerStates ==
  [pc : {"idle", "read", "lock", "get", "put", "cache"},
   pw : Passwords \cup {None}, salt : Salts \cup {None}, seen : PasswordRecords \cup {None}]

\* Type invariant.
TypeOK ==
  /\ secret \in PasswordRecords \cup {None}
  /\ cache \in PasswordRecords \cup {None}
  /\ lock \in Threads \cup {Nobody}
  /\ req \in [Workers -> WorkerStates]
  /\ crashes \in 0..MaxCrashes /\ faults \in 0..MaxFaults
  /\ acked \in Passwords /\ attempted \subseteq Passwords /\ blind \in BOOLEAN

\* While the server is up and no change is under way, the password it accepts
\* is the one in the Secret, unless a change failed after taking effect: logins
\* before and after a restart agree.
CacheInStep ==
  Up /\ lock = Nobody /\ attempted = {} => cache # None /\ cache = secret

\* "We do not handle update conflicts, as we should be the only writer"
\* (K8sSecret.Write): the Secret a writer is about to replace is the one it read,
\* whatever requests, crashes and restarts came before.
OnlyWriter ==
  \A w \in Workers : req[w].pc = "put" => req[w].seen = secret

Kept ==
  secret # None => \E p \in {acked} \cup attempted : secret.hash = Hash(p, secret.salt)

\* The stored password is the one last reported as set, or one of a change that
\* was attempted after it: neither a crash between the two API calls of a change
\* nor a restart that can read the Secret brings back an older password.
PasswordSurvives == ~blind => Kept

\* A change whose current password was right, and every one queued behind it,
\* gets an answer, or the process restarts.
UpdatesAnswered ==
  \A t \in Threads : req[t].pc = "lock" ~> req[t].pc = "idle"

-----------------------------------------------------------------------------
(* What the documentation says, and the code does not guarantee *)

\* "The default `admin` password is `admin`. You can change it"
\* (docs/getting-started.md): a changed password stays changed, a failed read
\* during a restart included.
PasswordStaysChanged == Kept
=============================================================================
