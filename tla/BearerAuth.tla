----------------------------- MODULE BearerAuth ------------------------------
(***************************************************************************)
(* Requests with "Authorization: Bearer" (pkg/server/authn/bearer.go): the    *)
(* cache of tokens the API server accepted, and the limit on the requests of   *)
(* a client that miss it.  A request reads the clock once, looks its token     *)
(* up, asks for a token of its client's bucket, asks the API server and        *)
(* stores the answer: the cluster's opinion and the clock may change between   *)
(* any two of these steps.                                                   *)
(*                                                                         *)
(* An operator named Def_Slip is Def with one plausible slip in it; it is   *)
(* used only to confirm that a property would notice the slip.              *)
(***************************************************************************)
EXTENDS RateLimiter, FiniteSets

CONSTANTS
  Requests,                   \* concurrent requests
  Bearers,                    \* bearer tokens
  Expiry,                     \* the "exp" of each token; 0 for none
  Addresses,                  \* public addresses
  Clients,                    \* those the requests come from
  TTL,                        \* bearerCacheTTL
  CacheSize,                  \* bearerCacheSize
  Rate, Burst,                \* bearerMissRate, bearerMissBurst
  MaxTime,                    \* bound: the clock
  MaxLag                      \* bound: how long one request takes

ASSUME BearerConstants ==
  /\ Expiry \in [Bearers -> Nat] /\ Clients \subseteq Addresses
  /\ TTL \in Nat \ {0} /\ CacheSize \in Nat \ {0} /\ Rate \in Nat /\ Burst \in Nat
  /\ MaxTime \in Nat /\ MaxLag \in Nat

VARIABLES
  now,
  revoked,   \* tokens the cluster no longer accepts
  cache,     \* entries [token, until], most recently used first
  lims,      \* the bucket of each client key, or NoLimiter
  req,       \* the requests under way
  accepted,  \* history: when the API server last accepted each token
  drawn      \* history: the reviews each client has made since its bucket was made,
             \* less what it was credited for time that its bucket counted twice

vars == <<now, revoked, cache, lims, req, accepted, drawn>>

NoLimiter == [tokens |-> -1, last |-> 0]
NoTime == -1
Idle == [pc |-> "idle", token |-> NoTime, client |-> NoTime, key |-> NoTime, at |-> 0]

Init ==
  /\ now = 0 /\ revoked = {}
  /\ cache = <<>>
  /\ lims = [c \in Addresses |-> NoLimiter]
  /\ req = [r \in Requests |-> Idle]
  /\ accepted = [t \in Bearers |-> NoTime]
  /\ drawn = [c \in Clients |-> 0]

-----------------------------------------------------------------------------
(* The cache *)

Entries(t) == {i \in DOMAIN cache : cache[i].token = t}

Index(t) == CHOOSE i \in Entries(t) : TRUE

Others(t) ==
  IF Entries(t) = {} THEN cache
  ELSE SubSeq(cache, 1, Index(t) - 1) \o SubSeq(cache, Index(t) + 1, Len(cache))

\* cache.Get: the entry becomes the most recent one.
Touched(t) == IF Entries(t) = {} THEN cache ELSE <<cache[Index(t)]>> \o Others(t)

Added_Grows(t, until) == <<[token |-> t, until |-> until]>> \o Others(t)

\* cache.Add: over an older entry of the token; the oldest entry makes room.
Added(t, until) ==
  LET all == <<[token |-> t, until |-> until]>> \o Others(t) IN
  SubSeq(all, 1, Min({CacheSize, Len(all)}))

Fresh(t, at) == \E i \in Entries(t) : at < cache[i].until

ValidUntil_TTLOnly(t) == now + TTL

\* JWTExpiry: the token's "exp", or 0 if it has none.
JWTExpiry(t) == Expiry[t]

\* The entry must not outlive the token it vouches for.
ValidUntil(t) ==
  IF JWTExpiry(t) # 0 /\ JWTExpiry(t) < now + TTL THEN JWTExpiry(t) ELSE now + TTL

-----------------------------------------------------------------------------
(* A request *)

\* The handler runs, or the request is refused with a 401, a 429 or a 503.
Done(r) == req' = [req EXCEPT ![r] = Idle]

Goto(r, pc) == req' = [req EXCEPT ![r].pc = pc]

\* A request of a client arrives through the ingress, which appends the client's
\* address to whatever X-Forwarded-For the client sent; validate reads the clock.
Arrive(r, c, t, forged) ==
  /\ req[r].pc = "idle"
  /\ req' = [req EXCEPT ![r] =
       [pc |-> "get", token |-> t, client |-> c, at |-> now,
        key |-> ClientKeyIP(forged \o <<c>>, <<c>>, c, Addresses)]]
  /\ UNCHANGED <<now, revoked, cache, lims, accepted, drawn>>

Get_Slides(r) ==
  LET t == req[r].token IN
  /\ req[r].pc = "get"
  /\ IF Fresh(t, req[r].at)
     THEN Done(r) /\ cache' = Added(t, ValidUntil(t))
     ELSE Goto(r, "limit") /\ cache' = Touched(t)
  /\ UNCHANGED <<now, revoked, lims, accepted, drawn>>

\* The lookup.  A hit is decided by the time the request has read, and changes
\* nothing but the recency of the entry.
Get(r) ==
  LET t == req[r].token IN
  /\ req[r].pc = "get"
  /\ cache' = Touched(t)
  /\ IF Fresh(t, req[r].at) THEN Done(r) ELSE Goto(r, "limit")
  /\ UNCHANGED <<now, revoked, lims, accepted, drawn>>

\* rl.AllowN with the client's bucket l: on to the API server, or a 429.
Spend(r, l) ==
  LET k == req[r].key
      at == req[r].at
  IN
  /\ lims' = [lims EXCEPT ![k] = AllowN(l, at, Rate, Burst)]
  /\ IF Allows(l, at, Rate, Burst)
     THEN /\ Goto(r, "review")
          /\ drawn' = [drawn EXCEPT ![req[r].client] = @ + 1 - Rate * Max({0, l.last - at})]
     ELSE Done(r) /\ UNCHANGED drawn

\* ClientRateLimiter.Allow, when the client has a bucket ...
Allow(r) ==
  /\ req[r].pc = "limit"
  /\ lims[req[r].key] # NoLimiter
  /\ Spend(r, lims[req[r].key])
  /\ UNCHANGED <<now, revoked, cache, accepted>>

\* ... and when it has none yet: a new bucket is made ...
AllowMiss(r) ==
  /\ req[r].pc = "limit"
  /\ lims[req[r].key] = NoLimiter
  /\ Goto(r, "add")
  /\ UNCHANGED <<now, revoked, cache, lims, accepted, drawn>>

PeekOrAdd_Replaces(r) == NewLimiter(Burst)

\* ... but used only if no other request has added one meanwhile.
PeekOrAdd(r) ==
  IF lims[req[r].key] = NoLimiter THEN NewLimiter(Burst) ELSE lims[req[r].key]

AllowAdd(r) ==
  /\ req[r].pc = "add"
  /\ Spend(r, PeekOrAdd(r))
  /\ UNCHANGED <<now, revoked, cache, accepted>>

\* ValidateCredential: a SelfSubjectReview with the token.  The API server
\* accepts it (200), refuses it (401) or cannot answer (503).
Review(r) ==
  LET t == req[r].token
      good == t \notin revoked /\ (Expiry[t] # 0 => now < Expiry[t])
  IN
  /\ req[r].pc = "review"
  /\ \/ good /\ accepted' = [accepted EXCEPT ![t] = now] /\ Goto(r, "store")
     \/ Done(r) /\ UNCHANGED accepted
  /\ UNCHANGED <<now, revoked, cache, lims, drawn>>

\* The answer is there: it is good for TTL from now on.
Store(r) ==
  LET t == req[r].token IN
  /\ req[r].pc = "store"
  /\ cache' = Added(t, ValidUntil(t))
  /\ Done(r)
  /\ UNCHANGED <<now, revoked, lims, accepted, drawn>>

-----------------------------------------------------------------------------
Revoke(t) ==
  /\ t \notin revoked
  /\ revoked' = revoked \cup {t}
  /\ UNCHANGED <<now, cache, lims, req, accepted, drawn>>

\* The LRU has no room for the bucket of a client any more: the client's next request,
\* or one of its that is under way, makes a full one, and the count starts over.
Evict(c) ==
  /\ lims[c] # NoLimiter
  /\ lims' = [lims EXCEPT ![c] = NoLimiter]
  /\ drawn' = [drawn EXCEPT ![c] = 0]
  /\ UNCHANGED <<now, revoked, cache, req, accepted>>

Tick ==
  /\ now < MaxTime
  /\ \A r \in Requests : req[r].pc # "idle" => now - req[r].at < MaxLag
  /\ now' = now + 1
  /\ UNCHANGED <<revoked, cache, lims, req, accepted, drawn>>

Next ==
  \/ \E r \in Requests :
       \/ \E c \in Clients, t \in Bearers :
            \E forged \in {<<>>} \cup {<<a>> : a \in Addresses} : Arrive(r, c, t, forged)
       \/ Get(r) \/ Allow(r) \/ AllowMiss(r) \/ AllowAdd(r) \/ Review(r) \/ Store(r)
  \/ \E t \in Bearers : Revoke(t)
  \/ \E c \in Clients : Evict(c)
  \/ Tick

Spec == Init /\ [][Next]_vars

-----------------------------------------------------------------------------
(* Properties *)

UnderWay ==
  [pc : {"get", "limit", "add", "review", "store"},
   token : Bearers, client : Clients, key : Addresses, at : 0..MaxTime]

\* Type invariant: the cache holds at most one entry per token, within its size.
TypeOK ==
  /\ now \in 0..MaxTime /\ revoked \subseteq Bearers
  /\ cache \in Seq([token : Bearers, until : Nat]) /\ Len(cache) <= CacheSize
  /\ \A i, j \in DOMAIN cache : cache[i].token = cache[j].token => i = j
  /\ lims \in [Addresses -> [tokens : -1..Burst, last : 0..MaxTime]]
  /\ req \in [Requests -> UnderWay \cup {Idle}]
  /\ accepted \in [Bearers -> {NoTime} \cup 0..MaxTime]
  /\ drawn \in [Clients -> Int]

\* The step lets request r in, from the cache or with the API server's answer.
Admits(r) == req[r].pc \in {"get", "store"} /\ req'[r].pc = "idle"

\* bearerCacheTTL "bounds how long a token that has since been revoked keeps
\* working": when a request is let in, the API server has accepted its token less
\* than TTL ago, give or take the time that this request and the one that asked
\* took, through any sequence of hits, evictions and overlapping validations.
RecentlyAccepted ==
  [][\A r \in Requests : Admits(r) =>
       /\ accepted[req[r].token] # NoTime
       /\ now < accepted[req[r].token] + TTL + 2 * MaxLag]_vars

\* "The entry must not outlive the token it vouches for": no request is let in with
\* a token past its "exp", but for the time the request itself takes, however late
\* the answer was stored.
ExpiredStaysOut ==
  [][\A r \in Requests : Admits(r) /\ Expiry[req[r].token] # 0 =>
       now < Expiry[req[r].token] + MaxLag]_vars

\* A client cannot have more tokens reviewed than its bucket holds and refills,
\* with any number of requests at once, however many find no bucket yet, and
\* whatever addresses it forges.  Requests that read the clock in one order and
\* reach the bucket in another set its clock back, and are credited that time
\* again.
ReviewsThrottled ==
  \A c \in Clients : drawn[c] <= Burst + Rate * now
=============================================================================
