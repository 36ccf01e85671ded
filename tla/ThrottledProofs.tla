--------------------------- MODULE ThrottledProofs ---------------------------
(* Proofs about the two components behind the token buckets of RateLimiter:   *)
(* BearerAuth and Traceflow.                                                  *)
EXTENDS BearerAuth, Traceflow, SequenceTheorems, TLAPS

\* The clock, and the answers of the API server.
ClockInv ==
  /\ now \in 0..MaxTime /\ revoked \subseteq Bearers
  /\ accepted \in [Bearers -> {NoTime} \cup 0..MaxTime]
  /\ \A t \in Bearers : accepted[t] <= now

\* A request read the clock not long ago, it is counted under its own address, and the
\* answer it carries is about a token that had not expired when the request came.
OnTime(q) ==
  /\ q.at <= now /\ now <= q.at + MaxLag
  /\ q.key = q.client
  /\ q.pc = "store" =>
       /\ accepted[q.token] # NoTime
       /\ q.at <= accepted[q.token]
       /\ Expiry[q.token] # 0 => q.at < Expiry[q.token]

RequestInv ==
  /\ req \in [Requests -> UnderWay \cup {Idle}]
  /\ \A r \in Requests : req[r].pc # "idle" => OnTime(req[r])

CacheEntry == [token : Bearers, until : Nat]

\* A cache as it should be: one entry per token.
Cache(s) ==
  /\ s \in Seq(CacheEntry)
  /\ \A i, j \in DOMAIN s : s[i].token = s[j].token => i = j

\* What an entry vouches for: its token was accepted, lately, and has not expired.
Vouches(e) ==
  /\ accepted[e.token] # NoTime
  /\ e.until <= accepted[e.token] + TTL + MaxLag
  /\ Expiry[e.token] # 0 => e.until <= Expiry[e.token]

CacheInv ==
  /\ Cache(cache) /\ Len(cache) <= CacheSize
  /\ \A i \in DOMAIN cache : Vouches(cache[i])

Bucket == [tokens : -1..Burst, last : 0..MaxTime]

\* A bucket's balance: what was drawn from it and what it has left is no more than
\* what it was made with and what it was refilled up to its last time.
Balanced(l, d) == l.tokens >= 0 /\ l.last <= now /\ d + l.tokens <= Burst + Rate * l.last

BucketInv ==
  /\ lims \in [Addresses -> Bucket]
  /\ drawn \in [Clients -> Int]
  /\ \A c \in Clients :
       IF lims[c] = NoLimiter THEN drawn[c] <= 0 ELSE Balanced(lims[c], drawn[c])

BearerInv == ClockInv /\ RequestInv /\ CacheInv /\ BucketInv

-----------------------------------------------------------------------------
(* Operators *)

\* The smaller and the larger of two integers.
LEMMA MinMax ==
  ASSUME NEW a \in Int, NEW b \in Int
  PROVE /\ Min({a, b}) = IF a <= b THEN a ELSE b
        /\ Max({a, b}) = IF a >= b THEN a ELSE b
<1> DEFINE m == IF a <= b THEN a ELSE b
           M == IF a >= b THEN a ELSE b
<1>1. m \in {a, b} /\ \A y \in {a, b} : m <= y
  OBVIOUS
<1>2. \A x \in {a, b} : (\A y \in {a, b} : x <= y) => x = m
  OBVIOUS
<1>3. M \in {a, b} /\ \A y \in {a, b} : M >= y
  OBVIOUS
<1>4. \A x \in {a, b} : (\A y \in {a, b} : x >= y) => x = M
  OBVIOUS
<1>5. QED
  BY <1>1, <1>2, <1>3, <1>4 DEF Min, Max

\* A time elapsed counts from 0.
LEMMA ElapsedTime ==
  ASSUME NEW d \in Int
  PROVE Max({0, d}) \in Nat
<1>1. Max({0, d}) = IF 0 >= d THEN 0 ELSE d
  BY MinMax
<1>2. QED
  BY <1>1

\* The tokens of a bucket: no more than it holds, nor than time has added.
LEMMA TokensBounded ==
  ASSUME NEW l \in [tokens : Int, last : Nat], NEW at \in Nat, NEW rate \in Nat,
         NEW burst \in Nat
  PROVE /\ Tokens(l, at, rate, burst) \in Int
        /\ Tokens(l, at, rate, burst) <= burst
        /\ Tokens(l, at, rate, burst) <= l.tokens + rate * Max({0, at - l.last})
<1> DEFINE more == Max({0, at - l.last})
<1>1. more \in Nat
  <2>1. at - l.last \in Int
    OBVIOUS
  <2>2. QED
    BY <2>1, ElapsedTime
<1>2. rate * more \in Int
  BY <1>1
<1> HIDE DEF more
<1>3. Tokens(l, at, rate, burst) = Min({burst, l.tokens + rate * more})
  BY DEF Tokens, more
<1>4. l.tokens + rate * more \in Int
  BY <1>2
<1>5. QED
  BY <1>3, <1>4, MinMax DEF more

\* Time that passes is added once; time set back is what the history takes off.
LEMMA TimeCounts ==
  ASSUME NEW a \in Nat, NEW b \in Nat, NEW rate \in Nat
  PROVE /\ rate * Max({0, a - b}) \in Int /\ rate * Max({0, b - a}) \in Int
        /\ rate * a \in Int /\ rate * b \in Int
        /\ rate * Max({0, a - b}) - rate * Max({0, b - a}) = rate * a - rate * b
<1>1. Max({0, a - b}) = (IF 0 >= a - b THEN 0 ELSE a - b)
      /\ Max({0, b - a}) = (IF 0 >= b - a THEN 0 ELSE b - a)
  BY MinMax
<1>2. rate * (a - b) = rate * a - rate * b /\ rate * (b - a) = rate * b - rate * a
  OBVIOUS
<1>3. rate * a \in Int /\ rate * b \in Int /\ rate * 0 = 0
  OBVIOUS
<1>4. CASE a <= b
  <2>1. Max({0, a - b}) = 0 /\ Max({0, b - a}) = b - a
    BY <1>1, <1>4
  <2>2. QED
    BY <2>1, <1>2, <1>3
<1>5. CASE ~(a <= b)
  <2>1. Max({0, a - b}) = a - b /\ Max({0, b - a}) = 0
    BY <1>1, <1>5
  <2>2. QED
    BY <2>1, <1>2, <1>3
<1>6. QED
  BY <1>4, <1>5

\* Refilling is monotone in time.
LEMMA RefillMonotone ==
  ASSUME NEW a \in Nat, NEW b \in Nat, NEW rate \in Nat, a <= b
  PROVE rate * a <= rate * b
<1>1. rate * b = rate * a + rate * (b - a) /\ b - a \in Nat
  OBVIOUS
<1>2. rate * (b - a) >= 0
  BY <1>1
<1>3. QED
  BY <1>1, <1>2

\* Whatever a client puts before it, public addresses or not, the address the ingress
\* appends is its key.
LEMMA OwnKey ==
  ASSUME NEW c \in Addresses, NEW S, NEW forged \in Seq(S)
  PROVE ClientKeyIP(forged \o <<c>>, <<c>>, c, Addresses) = c
<1> DEFINE xff == forged \o <<c>>
           hops == {i \in DOMAIN xff : xff[i] \in Addresses}
<1>1. forged \in Seq(S \cup {c}) /\ <<c>> \in Seq(S \cup {c})
  OBVIOUS
<1>2. xff \in Seq(S \cup {c}) /\ Len(xff) = Len(forged) + 1 /\ xff[Len(xff)] = c
  BY <1>1
<1> HIDE DEF xff
<1>3. Len(xff) \in hops /\ \A y \in hops : y \in Int /\ Len(xff) >= y
  BY <1>1, <1>2
<1>4. \A x \in hops : (\A y \in hops : x >= y) => x = Len(xff)
  BY <1>3
<1> HIDE DEF hops
<1>5. Max(hops) = Len(xff)
  BY <1>3, <1>4 DEF Max
<1>6. QED
  BY <1>2, <1>3, <1>5 DEF ClientKeyIP, xff, hops

-----------------------------------------------------------------------------
(* The cache *)

\* What is left without a token's entry.
LEMMA OthersFacts ==
  ASSUME Cache(cache), NEW t \in Bearers
  PROVE /\ Others(t) \in Seq(CacheEntry)
        /\ \A i \in DOMAIN Others(t) :
             Others(t)[i].token # t /\ \E j \in DOMAIN cache : Others(t)[i] = cache[j]
        /\ \A i, j \in DOMAIN Others(t) : Others(t)[i].token = Others(t)[j].token => i = j
        /\ Len(Others(t)) <= Len(cache)
        /\ Entries(t) # {} => Index(t) \in Entries(t) /\ Len(Others(t)) + 1 = Len(cache)
<1> USE DEF Cache
<1>1. CASE Entries(t) = {}
  <2>1. Others(t) = cache
    BY <1>1 DEF Others
  <2>2. \A i \in DOMAIN cache : cache[i].token # t
    BY <1>1 DEF Entries
  <2>3. QED
    BY <1>1, <2>1, <2>2
<1>2. CASE Entries(t) # {}
  <2> DEFINE k == Index(t)
             o == Others(t)
  <2>1. k \in Entries(t)
    BY <1>2 DEF Index
  <2>2. k \in 1..Len(cache) /\ cache[k].token = t
    BY <2>1 DEF Entries
  <2> HIDE DEF k
  <2>3. o = SubSeq(cache, 1, k - 1) \o SubSeq(cache, k + 1, Len(cache))
    BY <1>2 DEF Others, k
  <2>4. /\ SubSeq(cache, 1, k - 1) \in Seq(CacheEntry)
        /\ Len(SubSeq(cache, 1, k - 1)) = k - 1
        /\ \A i \in 1..(k - 1) : SubSeq(cache, 1, k - 1)[i] = cache[i]
    BY <2>2
  <2>5. /\ SubSeq(cache, k + 1, Len(cache)) \in Seq(CacheEntry)
        /\ Len(SubSeq(cache, k + 1, Len(cache))) = Len(cache) - k
        /\ \A i \in 1..(Len(cache) - k) : SubSeq(cache, k + 1, Len(cache))[i] = cache[i + k]
    BY <2>2
  <2> HIDE DEF o
  <2>6. o \in Seq(CacheEntry) /\ Len(o) = Len(cache) - 1
    <3> DEFINE p == SubSeq(cache, 1, k - 1)
               q == SubSeq(cache, k + 1, Len(cache))
    <3>1. p \in Seq(CacheEntry) /\ Len(p) = k - 1
      BY <2>4
    <3>2. q \in Seq(CacheEntry) /\ Len(q) = Len(cache) - k
      BY <2>5
    <3>3. o = p \o q
      BY <2>3
    <3> HIDE DEF p, q
    <3>4. o \in Seq(CacheEntry) /\ Len(o) = Len(p) + Len(q)
      <4>1. p \in Seq(CacheEntry) /\ q \in Seq(CacheEntry)
        BY <3>1, <3>2
      <4>2. p \o q \in Seq(CacheEntry) /\ Len(p \o q) = Len(p) + Len(q)
        BY ONLY <4>1, ConcatProperties, Zenon
      <4>3. QED
        BY ONLY <3>3, <4>2, Zenon
    <3>5. Len(cache) \in Nat /\ k \in Nat
      BY <2>2
    <3>6. QED
      BY <3>1, <3>2, <3>4, <3>5
  <2>7. \A i \in DOMAIN o : o[i] = IF i < k THEN cache[i] ELSE cache[i + 1]
    <3> TAKE i \in DOMAIN o
    <3>0. i \in 1..(Len(cache) - 1)
      BY <2>6
    <3>1. CASE i < k
      BY <3>0, <3>1, <2>2, <2>3, <2>4, <2>5
    <3>2. CASE ~(i < k)
      <4>1. i - (k - 1) \in 1..(Len(cache) - k)
        BY <3>0, <3>2, <2>2
      <4>2. o[i] = SubSeq(cache, k + 1, Len(cache))[i - (k - 1)]
        BY <3>0, <3>2, <4>1, <2>2, <2>3, <2>4, <2>5
      <4>3. o[i] = cache[(i - (k - 1)) + k]
        BY <4>1, <4>2, <2>5
      <4>4. (i - (k - 1)) + k = i + 1
        BY <3>0, <2>2
      <4>5. QED
        BY <3>2, <4>3, <4>4
    <3>3. QED
      BY <3>1, <3>2
  <2>8. \A i \in DOMAIN o : o[i].token # t /\ \E j \in DOMAIN cache : o[i] = cache[j]
    <3> TAKE i \in DOMAIN o
    <3> DEFINE m == IF i < k THEN i ELSE i + 1
    <3>1. m \in DOMAIN cache /\ m # k /\ o[i] = cache[m]
      BY <2>2, <2>6, <2>7
    <3>2. QED
      BY <3>1, <2>2
  <2>9. \A i, j \in DOMAIN o : o[i].token = o[j].token => i = j
    <3> TAKE i, j \in DOMAIN o
    <3> DEFINE m == IF i < k THEN i ELSE i + 1
               n == IF j < k THEN j ELSE j + 1
    <3>1. m \in DOMAIN cache /\ o[i] = cache[m] /\ n \in DOMAIN cache /\ o[j] = cache[n]
      BY <2>2, <2>6, <2>7
    <3>2. o[i].token = o[j].token => m = n
      BY <3>1
    <3>3. m = n => i = j
      BY <2>6, <2>2
    <3>4. QED
      BY <3>2, <3>3
  <2>10. QED
    BY <2>1, <2>2, <2>6, <2>8, <2>9 DEF o, k
<1>3. QED
  BY <1>1, <1>2

\* An entry in front of the others.
LEMMA InFront ==
  ASSUME Cache(cache), NEW t \in Bearers, NEW e \in CacheEntry, e.token = t
  PROVE /\ Cache(<<e>> \o Others(t))
        /\ Len(<<e>> \o Others(t)) = Len(Others(t)) + 1
        /\ \A i \in DOMAIN (<<e>> \o Others(t)) :
             \/ (<<e>> \o Others(t))[i] = e
             \/ \E j \in DOMAIN cache : (<<e>> \o Others(t))[i] = cache[j]
<1> DEFINE o == Others(t)
           s == <<e>> \o o
<1>1. /\ o \in Seq(CacheEntry)
      /\ \A i \in DOMAIN o : o[i].token # t /\ \E j \in DOMAIN cache : o[i] = cache[j]
      /\ \A i, j \in DOMAIN o : o[i].token = o[j].token => i = j
  BY OthersFacts
<1> HIDE DEF o
<1>2. s \in Seq(CacheEntry) /\ Len(s) = Len(o) + 1
  BY <1>1
<1>3. \A i \in DOMAIN s : IF i = 1 THEN s[i] = e ELSE i - 1 \in DOMAIN o /\ s[i] = o[i - 1]
  BY <1>1, <1>2
<1> HIDE DEF s
<1>4. \A i, j \in DOMAIN s : s[i].token = s[j].token => i = j
  <2> TAKE i, j \in DOMAIN s
  <2>1. i \in Int /\ j \in Int
    BY <1>2
  <2>2. CASE i = 1 \/ j = 1
    BY <1>1, <1>3, <2>2
  <2>3. CASE i # 1 /\ j # 1
    <3>1. s[i].token = s[j].token => i - 1 = j - 1
      BY <1>1, <1>3, <2>3
    <3>2. QED
      BY <2>1, <3>1
  <2>4. QED
    BY <2>2, <2>3
<1>5. QED
  BY <1>1, <1>2, <1>3, <1>4 DEF Cache, s, o

\* Looking an entry up moves it and changes none.
LEMMA TouchedFacts ==
  ASSUME Cache(cache), NEW t \in Bearers
  PROVE /\ Cache(Touched(t)) /\ Len(Touched(t)) = Len(cache)
        /\ \A i \in DOMAIN Touched(t) : \E j \in DOMAIN cache : Touched(t)[i] = cache[j]
<1>1. CASE Entries(t) = {}
  BY <1>1 DEF Touched, Cache
<1>2. CASE Entries(t) # {}
  <2> DEFINE e == cache[Index(t)]
  <2>1. Index(t) \in DOMAIN cache /\ e.token = t /\ Len(Others(t)) + 1 = Len(cache)
    BY <1>2, OthersFacts DEF Entries
  <2>2. e \in CacheEntry
    BY <2>1 DEF Cache
  <2>3. Touched(t) = <<e>> \o Others(t)
    BY <1>2 DEF Touched
  <2> HIDE DEF e
  <2>4. /\ Cache(Touched(t)) /\ Len(Touched(t)) = Len(Others(t)) + 1
        /\ \A i \in DOMAIN Touched(t) :
             Touched(t)[i] = e \/ \E j \in DOMAIN cache : Touched(t)[i] = cache[j]
    BY <2>1, <2>2, <2>3, InFront
  <2>5. QED
    BY <2>1, <2>4 DEF e
<1>3. QED
  BY <1>1, <1>2

\* Adding an entry keeps the cache within its size, and alters no other entry.
LEMMA AddedFacts ==
  ASSUME Cache(cache), NEW t \in Bearers, NEW u \in Nat
  PROVE /\ Cache(Added(t, u)) /\ Len(Added(t, u)) <= CacheSize
        /\ \A i \in DOMAIN Added(t, u) :
             \/ Added(t, u)[i] = [token |-> t, until |-> u]
             \/ \E j \in DOMAIN cache : Added(t, u)[i] = cache[j]
<1> DEFINE e == [token |-> t, until |-> u]
           all == <<e>> \o Others(t)
           n == Min({CacheSize, Len(all)})
<1>1. e \in CacheEntry /\ e.token = t
  BY DEF CacheEntry
<1> HIDE DEF e
<1>2. /\ Cache(all) /\ Len(all) \in Nat
      /\ \A i \in DOMAIN all : all[i] = e \/ \E j \in DOMAIN cache : all[i] = cache[j]
  BY <1>1, InFront DEF Cache
<1>3. Added(t, u) = SubSeq(all, 1, n)
  BY DEF Added, e
<1> HIDE DEF all
<1>4. n \in Nat /\ n <= Len(all) /\ n <= CacheSize
  BY <1>2, MinMax, BearerConstants DEF BearerConstants
<1> HIDE DEF n
<1>5. /\ SubSeq(all, 1, n) \in Seq(CacheEntry) /\ Len(SubSeq(all, 1, n)) = n
      /\ \A i \in 1..n : SubSeq(all, 1, n)[i] = all[i] /\ i \in DOMAIN all
  BY <1>2, <1>4 DEF Cache
<1>6. Cache(SubSeq(all, 1, n))
  <2> DEFINE s == SubSeq(all, 1, n)
  <2>1. DOMAIN s = 1..n
    BY <1>4, <1>5
  <2>2. \A i \in 1..n : s[i] = all[i] /\ i \in DOMAIN all
    BY <1>5
  <2>3. s \in Seq(CacheEntry)
    BY <1>5
  <2> HIDE DEF s
  <2>4. \A i, j \in DOMAIN s : s[i].token = s[j].token => i = j
    BY <1>2, <2>1, <2>2 DEF Cache
  <2>5. QED
    BY <2>3, <2>4 DEF Cache, s
<1>7. QED
  BY <1>2, <1>3, <1>4, <1>5, <1>6 DEF e

-----------------------------------------------------------------------------
(* The steps *)

LEMMA BearerInitially == Init => BearerInv
<1> SUFFICES ASSUME Init PROVE BearerInv
  OBVIOUS
<1> USE BearerConstants DEF BearerConstants, Init
<1>1. ClockInv
  BY DEF ClockInv, NoTime
<1>2. RequestInv
  <2>1. \A r \in Requests : req[r] = Idle
    OBVIOUS
  <2>2. Idle.pc = "idle"
    BY DEF Idle
  <2>3. req \in [Requests -> UnderWay \cup {Idle}]
    OBVIOUS
  <2>4. QED
    BY <2>1, <2>2, <2>3 DEF RequestInv
<1>3. CacheInv
  BY DEF CacheInv, Cache
<1>4. BucketInv
  BY DEF BucketInv, Bucket, NoLimiter
<1>5. QED
  BY <1>1, <1>2, <1>3, <1>4 DEF BearerInv

\* A request that is not idle.
LEMMA BusyFacts ==
  ASSUME BearerInv, NEW r \in Requests, req[r].pc # "idle"
  PROVE /\ req[r] \in UnderWay /\ OnTime(req[r])
        /\ req[r].token \in Bearers /\ req[r].client \in Clients /\ req[r].at \in 0..MaxTime
        /\ req[r].key = req[r].client /\ req[r].client \in Addresses
<1>1. Idle.pc = "idle"
  BY DEF Idle
<1>2. req[r] \in UnderWay
  BY <1>1 DEF BearerInv, RequestInv
<1>3. OnTime(req[r])
  BY DEF BearerInv, RequestInv
<1>4. Clients \subseteq Addresses
  BY BearerConstants DEF BearerConstants
<1>5. QED
  BY <1>2, <1>3, <1>4 DEF UnderWay, OnTime

LEMMA EntryFacts ==
  ASSUME BearerInv, NEW i \in DOMAIN cache
  PROVE cache[i].token \in Bearers /\ cache[i].until \in Nat /\ Vouches(cache[i])
<1>1. cache \in Seq(CacheEntry) /\ Vouches(cache[i])
  BY DEF BearerInv, CacheInv, Cache
<1>2. cache[i] \in CacheEntry
  BY <1>1
<1>3. QED
  BY <1>1, <1>2 DEF CacheEntry

\* One request changes, and the clock and the answers do not.
LEMMA RequestStep ==
  ASSUME BearerInv, NEW r \in Requests, NEW q \in UnderWay \cup {Idle},
         req' = [req EXCEPT ![r] = q], q.pc # "idle" => OnTime(q),
         now' = now, accepted' = accepted
  PROVE RequestInv'
<1>1. /\ req' \in [Requests -> UnderWay \cup {Idle}]
      /\ \A s \in Requests : req'[s] = IF s = r THEN q ELSE req[s]
  BY DEF BearerInv, RequestInv
<1>2. \A s \in Requests : req[s].pc # "idle" => OnTime(req[s])
  BY DEF BearerInv, RequestInv
<1>3. \A s \in Requests : req'[s].pc # "idle" => OnTime(req'[s])
  BY <1>1, <1>2
<1>4. \A p : OnTime(p) => (/\ p.at <= now' /\ now' <= p.at + MaxLag
                           /\ p.key = p.client
                           /\ p.pc = "store" =>
                                /\ accepted'[p.token] # NoTime
                                /\ p.at <= accepted'[p.token]
                                /\ Expiry[p.token] # 0 => p.at < Expiry[p.token])
  BY DEF OnTime
<1>5. QED
  BY <1>1, <1>3, <1>4 DEF RequestInv, OnTime

LEMMA DoneStep ==
  ASSUME BearerInv, NEW r \in Requests, Done(r), now' = now, accepted' = accepted
  PROVE RequestInv'
<1>1. Idle.pc = "idle"
  BY DEF Idle
<1>2. QED
  BY <1>1, RequestStep DEF Done

LEMMA GotoStep ==
  ASSUME BearerInv, NEW r \in Requests, req[r].pc # "idle",
         NEW pc \in {"limit", "add", "review"}, Goto(r, pc),
         now' = now, accepted' = accepted
  PROVE RequestInv'
<1> DEFINE q == [req[r] EXCEPT !.pc = pc]
<1>1. req[r] \in UnderWay /\ OnTime(req[r])
  BY BusyFacts
<1>2. q \in UnderWay /\ q.pc = pc /\ q.at = req[r].at /\ q.key = req[r].key
      /\ q.client = req[r].client /\ q.token = req[r].token
  BY <1>1 DEF UnderWay
<1>3. req' = [req EXCEPT ![r] = q]
  BY DEF Goto
<1> HIDE DEF q
<1>4. OnTime(q)
  BY <1>1, <1>2 DEF OnTime
<1>5. QED
  BY <1>2, <1>3, <1>4, RequestStep

\* The cache with each entry as it was, whatever its place.
LEMMA CacheStep ==
  ASSUME BearerInv, Cache(cache'), Len(cache') <= CacheSize, accepted' = accepted,
         \A i \in DOMAIN cache' : Vouches(cache'[i])
  PROVE CacheInv'
<1>1. \A e : Vouches(e) => (/\ accepted'[e.token] # NoTime
                            /\ e.until <= accepted'[e.token] + TTL + MaxLag
                            /\ Expiry[e.token] # 0 => e.until <= Expiry[e.token])
  BY DEF Vouches
<1>2. QED
  BY <1>1 DEF CacheInv, Vouches, Cache

LEMMA CacheSame ==
  ASSUME BearerInv, cache' = cache, accepted' = accepted
  PROVE CacheInv'
  BY CacheStep DEF BearerInv, CacheInv

LEMMA BucketSame ==
  ASSUME BearerInv, lims' = lims, drawn' = drawn, now' = now
  PROVE BucketInv'
  BY DEF BearerInv, BucketInv, Balanced

LEMMA ClockSame ==
  ASSUME BearerInv, now' = now, revoked' = revoked, accepted' = accepted
  PROVE ClockInv'
  BY DEF BearerInv, ClockInv

\* A drawn token is paid for: by what the bucket held or by the time since.
LEMMA SpendStep ==
  ASSUME BearerInv, NEW r \in Requests, req[r].pc # "idle", NEW l \in Bucket,
         Balanced(l, drawn[req[r].client]), Spend(r, l), now' = now, accepted' = accepted
  PROVE RequestInv' /\ BucketInv'
<1> USE BearerConstants DEF BearerConstants
<1> DEFINE k == req[r].client
           at == req[r].at
           T == Tokens(l, at, Rate, Burst)
<1>1. k \in Clients /\ k \in Addresses /\ req[r].key = k /\ at \in 0..MaxTime /\ at <= now
  BY BusyFacts DEF OnTime
<1>2. /\ lims \in [Addresses -> Bucket] /\ drawn \in [Clients -> Int] /\ now \in Nat
      /\ \A c \in Clients :
           IF lims[c] = NoLimiter THEN drawn[c] <= 0 ELSE Balanced(lims[c], drawn[c])
  BY DEF BearerInv, BucketInv, ClockInv
<1>3. l.tokens \in Nat /\ l.tokens <= Burst /\ l.last \in 0..MaxTime /\ l.last <= now
      /\ drawn[k] \in Int /\ l \in [tokens : Int, last : Nat]
  BY <1>1, <1>2 DEF Bucket, Balanced
<1>4. RequestInv'
  <2>1. CASE Allows(l, at, Rate, Burst)
    BY <2>1, GotoStep DEF Spend
  <2>2. CASE ~Allows(l, at, Rate, Burst)
    BY <2>2, DoneStep DEF Spend
  <2>3. QED
    BY <2>1, <2>2
<1>5. BucketInv'
  <2>1. SUFFICES ASSUME NEW m \in Bucket, NEW d \in Int,
                        lims' = [lims EXCEPT ![k] = m], drawn' = [drawn EXCEPT ![k] = d],
                        Balanced(m, d)
                 PROVE BucketInv'
    <3>1. CASE Allows(l, at, Rate, Burst)
      <4> DEFINE back == Rate * Max({0, l.last - at})
                 on == Rate * Max({0, at - l.last})
                 m == [tokens |-> T - 1, last |-> at]
                 d == drawn[k] + 1 - back
      <4>0. at \in Nat /\ l.last \in Nat /\ Rate \in Nat /\ Burst \in Nat
        BY <1>1, <1>3
      <4>1. /\ T \in Int /\ T <= Burst /\ T <= l.tokens + on
        BY ONLY <1>3, <4>0, TokensBounded
      <4>2. /\ on \in Int /\ back \in Int /\ Rate * at \in Int /\ Rate * l.last \in Int
            /\ on - back = Rate * at - Rate * l.last
        BY ONLY <4>0, TimeCounts
      <4>3. T >= 1
        BY <3>1 DEF Allows
      <4>4. lims' = [lims EXCEPT ![k] = m] /\ drawn' = [drawn EXCEPT ![k] = d]
        BY <1>1, <1>2, <3>1 DEF Spend, AllowN
      <4>5. drawn[k] + l.tokens <= Burst + Rate * l.last
        BY DEF Balanced
      <4> HIDE DEF on, back, T
      <4>6. m \in Bucket /\ d \in Int
        BY <1>1, <1>3, <4>1, <4>2, <4>3 DEF Bucket
      <4>7. d + (T - 1) <= Burst + Rate * at
        BY <1>3, <4>1, <4>2, <4>5
      <4>8. Balanced(m, d)
        BY <1>1, <4>1, <4>3, <4>7 DEF Balanced
      <4> HIDE DEF m, d
      <4>9. QED
        BY <2>1, <4>4, <4>6, <4>8
    <3>2. CASE ~Allows(l, at, Rate, Burst)
      <4>1. lims' = [lims EXCEPT ![k] = l] /\ drawn' = drawn
        BY <1>1, <3>2 DEF Spend, AllowN
      <4>2. drawn' = [drawn EXCEPT ![k] = drawn[k]]
        BY <1>2, <4>1
      <4>3. QED
        BY <1>3, <2>1, <4>1, <4>2
    <3>3. QED
      BY <3>1, <3>2
  <2>2. m.tokens >= 0 /\ m # NoLimiter
    BY <2>1 DEF Balanced, NoLimiter
  <2>3. lims' \in [Addresses -> Bucket] /\ drawn' \in [Clients -> Int]
    BY <1>2, <2>1
  <2>4. ASSUME NEW c \in Clients
        PROVE IF lims'[c] = NoLimiter THEN drawn'[c] <= 0 ELSE Balanced(lims'[c], drawn'[c])
    <3>1. CASE c = k
      BY <1>1, <1>2, <2>1, <2>2, <3>1
    <3>2. CASE c # k
      BY <1>1, <1>2, <2>1, <3>2
    <3>3. QED
      BY <3>1, <3>2
  <2>5. QED
    BY <2>3, <2>4 DEF BucketInv, Balanced
<1>6. QED
  BY <1>4, <1>5

LEMMA ArriveStep ==
  ASSUME BearerInv, NEW r \in Requests, NEW c \in Clients, NEW t \in Bearers,
         NEW forged \in {<<>>} \cup {<<a>> : a \in Addresses}, Arrive(r, c, t, forged)
  PROVE BearerInv'
<1> DEFINE q == [pc |-> "get", token |-> t, client |-> c, at |-> now, key |-> c]
<1>1. c \in Addresses /\ now \in 0..MaxTime /\ MaxLag \in Nat
  BY BearerConstants DEF BearerConstants, BearerInv, ClockInv
<1>2. req' = [req EXCEPT ![r] = q]
  <2>1. <<>> \in Seq(Addresses) /\ \A a \in Addresses : <<a>> \in Seq(Addresses)
    OBVIOUS
  <2>2. forged \in Seq(Addresses)
    BY <2>1
  <2>3. ClientKeyIP(forged \o <<c>>, <<c>>, c, Addresses) = c
    BY <1>1, <2>2, OwnKey
  <2>4. QED
    BY <2>3 DEF Arrive
<1>3. q \in UnderWay
  BY <1>1 DEF UnderWay
<1>4. OnTime(q)
  BY <1>1 DEF OnTime
<1> HIDE DEF q
<1>5. now' = now /\ revoked' = revoked /\ cache' = cache /\ lims' = lims
      /\ accepted' = accepted /\ drawn' = drawn
  BY DEF Arrive
<1>6. RequestInv'
  BY <1>2, <1>3, <1>4, <1>5, RequestStep
<1>7. QED
  BY <1>5, <1>6, CacheSame, BucketSame, ClockSame DEF BearerInv

LEMMA GetStep ==
  ASSUME BearerInv, NEW r \in Requests, Get(r)
  PROVE BearerInv'
<1>1. req[r].pc # "idle" /\ now' = now /\ revoked' = revoked /\ lims' = lims
      /\ accepted' = accepted /\ drawn' = drawn /\ cache' = Touched(req[r].token)
  BY DEF Get
<1>2. req[r].token \in Bearers
  BY <1>1, BusyFacts
<1>3. RequestInv'
  BY <1>1, DoneStep, GotoStep DEF Get
<1>4. /\ Cache(cache') /\ Len(cache') = Len(cache)
      /\ \A i \in DOMAIN cache' : \E j \in DOMAIN cache : cache'[i] = cache[j]
  BY <1>1, <1>2, TouchedFacts DEF BearerInv, CacheInv
<1>5. CacheInv'
  BY <1>1, <1>4, CacheStep DEF BearerInv, CacheInv
<1>6. QED
  BY <1>1, <1>3, <1>5, BucketSame, ClockSame DEF BearerInv

LEMMA AllowStep ==
  ASSUME BearerInv, NEW r \in Requests, Allow(r) \/ AllowMiss(r) \/ AllowAdd(r)
  PROVE BearerInv'
<1>1. req[r].pc # "idle" /\ now' = now /\ revoked' = revoked /\ cache' = cache
      /\ accepted' = accepted
  BY DEF Allow, AllowMiss, AllowAdd
<1>2. req[r].key = req[r].client /\ req[r].client \in Clients /\ req[r].client \in Addresses
  BY <1>1, BusyFacts
<1> DEFINE k == req[r].key
<1>3. lims[k] \in Bucket /\ (lims[k] # NoLimiter => Balanced(lims[k], drawn[k]))
      /\ (lims[k] = NoLimiter => drawn[k] <= 0) /\ drawn[k] \in Int
  BY <1>2 DEF BearerInv, BucketInv
<1>4. RequestInv' /\ BucketInv'
  <2>1. CASE Allow(r)
    BY <1>1, <1>2, <1>3, <2>1, SpendStep DEF Allow
  <2>2. CASE AllowMiss(r)
    BY <1>1, <2>2, GotoStep, BucketSame DEF AllowMiss
  <2>3. CASE AllowAdd(r)
    <3>1. PeekOrAdd(r) \in Bucket /\ Balanced(PeekOrAdd(r), drawn[k])
      <4>1. CASE lims[k] = NoLimiter
        <5>1. PeekOrAdd(r) = [tokens |-> Burst, last |-> 0]
          BY <4>1 DEF PeekOrAdd, NewLimiter
        <5>2. Burst \in Nat /\ MaxTime \in Nat /\ Rate * 0 = 0 /\ now \in Nat
          BY BearerConstants DEF BearerConstants, BearerInv, ClockInv
        <5>3. QED
          BY <1>3, <4>1, <5>1, <5>2 DEF Bucket, Balanced
      <4>2. CASE lims[k] # NoLimiter
        BY <1>3, <4>2 DEF PeekOrAdd
      <4>3. QED
        BY <4>1, <4>2
    <3>2. Spend(r, PeekOrAdd(r))
      BY <2>3 DEF AllowAdd
    <3>3. QED
      BY <1>1, <1>2, <3>1, <3>2, SpendStep
  <2>4. QED
    BY <2>1, <2>2, <2>3
<1>5. QED
  BY <1>1, <1>4, CacheSame, ClockSame DEF BearerInv

LEMMA StoreStep ==
  ASSUME BearerInv, NEW r \in Requests, Store(r)
  PROVE BearerInv'
<1> USE BearerConstants DEF BearerConstants
<1> DEFINE t == req[r].token
           u == ValidUntil(t)
<1>1. req[r].pc = "store" /\ now' = now /\ revoked' = revoked /\ lims' = lims
      /\ accepted' = accepted /\ drawn' = drawn /\ cache' = Added(t, u) /\ Done(r)
  BY DEF Store
<1>2. t \in Bearers /\ OnTime(req[r]) /\ req[r].at \in Nat
  BY <1>1, BusyFacts
<1>3. now \in Nat /\ Expiry[t] \in Nat /\ accepted[t] \in Int
  BY <1>2 DEF BearerInv, ClockInv, NoTime
<1>4. u \in Nat /\ u <= now + TTL /\ (Expiry[t] # 0 => u <= Expiry[t])
  BY <1>3 DEF ValidUntil, JWTExpiry
<1> HIDE DEF u
<1>5. Vouches([token |-> t, until |-> u])
  BY <1>1, <1>2, <1>3, <1>4 DEF OnTime, Vouches
<1>6. /\ Cache(cache') /\ Len(cache') <= CacheSize
      /\ \A i \in DOMAIN cache' :
           cache'[i] = [token |-> t, until |-> u] \/ \E j \in DOMAIN cache : cache'[i] = cache[j]
  BY <1>1, <1>2, <1>4, AddedFacts DEF BearerInv, CacheInv
<1>7. CacheInv'
  BY <1>1, <1>5, <1>6, CacheStep DEF BearerInv, CacheInv
<1>8. QED
  BY <1>1, <1>7, DoneStep, BucketSame, ClockSame DEF BearerInv

\* An answer: a token accepted now has been accepted no earlier than before.
LEMMA ReviewStep ==
  ASSUME BearerInv, NEW r \in Requests, Review(r)
  PROVE BearerInv'
<1> USE BearerConstants DEF BearerConstants
<1> DEFINE t == req[r].token
           q == [req[r] EXCEPT !.pc = "store"]
<1>1. req[r].pc = "review" /\ now' = now /\ revoked' = revoked /\ lims' = lims
      /\ cache' = cache /\ drawn' = drawn
  BY DEF Review
<1>2. CASE Done(r) /\ accepted' = accepted
  BY <1>1, <1>2, DoneStep, CacheSame, BucketSame, ClockSame DEF BearerInv
<1>3. CASE /\ Expiry[t] # 0 => now < Expiry[t]
           /\ accepted' = [accepted EXCEPT ![t] = now]
           /\ Goto(r, "store")
  <2>1. req[r] \in UnderWay /\ OnTime(req[r]) /\ t \in Bearers
    BY <1>1, BusyFacts
  <2>2. /\ now \in 0..MaxTime /\ accepted \in [Bearers -> {NoTime} \cup 0..MaxTime]
        /\ \A s \in Bearers : accepted[s] <= now /\ accepted[s] \in Int
    BY DEF BearerInv, ClockInv, NoTime
  <2>3. \A s \in Bearers : /\ accepted'[s] \in Int /\ accepted[s] <= accepted'[s]
                           /\ accepted'[s] <= now
                           /\ (accepted[s] # NoTime => accepted'[s] # NoTime)
    BY <1>3, <2>1, <2>2 DEF NoTime
  <2>4. accepted'[t] = now /\ now # NoTime
    BY <1>3, <2>1, <2>2 DEF NoTime
  <2>5. ClockInv'
    BY <1>1, <1>3, <2>1, <2>2, <2>3 DEF BearerInv, ClockInv
  <2>6. q \in UnderWay /\ q.pc = "store" /\ q.at = req[r].at /\ q.key = req[r].key
        /\ q.client = req[r].client /\ q.token = req[r].token
    BY <2>1 DEF UnderWay
  <2>7. req' = [req EXCEPT ![r] = q]
    BY <1>3 DEF Goto
  <2> HIDE DEF q
  <2>8. RequestInv'
    <3>1. /\ req' \in [Requests -> UnderWay \cup {Idle}]
          /\ \A s \in Requests : req'[s] = IF s = r THEN q ELSE req[s]
      BY <2>6, <2>7 DEF BearerInv, RequestInv
    <3>2. ASSUME NEW s \in Requests, req'[s].pc # "idle" PROVE OnTime(req[s])'
      <4>1. CASE s = r
        <5>1. req[r].at \in Nat /\ req[r].at <= now /\ now <= req[r].at + MaxLag
              /\ req[r].key = req[r].client /\ Expiry[t] \in Nat
          BY <2>1 DEF UnderWay, OnTime
        <5>2. QED
          BY <1>1, <1>3, <2>2, <2>4, <2>6, <3>1, <4>1, <5>1 DEF OnTime
      <4>2. CASE s # r
        <5>1. req'[s] = req[s] /\ req[s].pc # "idle"
          BY <3>1, <3>2, <4>2
        <5>2. OnTime(req[s]) /\ req[s].token \in Bearers /\ req[s].at \in Nat
          BY <5>1, BusyFacts
        <5>3. QED
          BY <1>1, <2>2, <2>3, <5>1, <5>2 DEF OnTime
      <4>3. QED
        BY <4>1, <4>2
    <3>3. QED
      BY <3>1, <3>2 DEF RequestInv
  <2>9. CacheInv'
    <3>1. Cache(cache) /\ Len(cache) <= CacheSize /\ \A i \in DOMAIN cache : Vouches(cache[i])
      BY DEF BearerInv, CacheInv
    <3>2. ASSUME NEW i \in DOMAIN cache PROVE Vouches(cache[i])'
      <4>1. cache[i].token \in Bearers /\ cache[i].until \in Nat /\ Vouches(cache[i])
        BY EntryFacts
      <4>2. QED
        BY <1>1, <2>2, <2>3, <4>1 DEF Vouches
    <3>3. QED
      BY <1>1, <3>1, <3>2 DEF CacheInv, Cache
  <2>10. QED
    BY <1>1, <2>5, <2>8, <2>9, BucketSame DEF BearerInv
<1>4. QED
  BY <1>2, <1>3 DEF Review

LEMMA RevokeStep ==
  ASSUME BearerInv, NEW t \in Bearers, Revoke(t)
  PROVE BearerInv'
<1>1. now' = now /\ cache' = cache /\ lims' = lims /\ req' = req /\ accepted' = accepted
      /\ drawn' = drawn /\ revoked' = revoked \cup {t}
  BY DEF Revoke
<1>2. ClockInv'
  BY <1>1 DEF BearerInv, ClockInv
<1>3. RequestInv'
  BY <1>1 DEF BearerInv, RequestInv, OnTime
<1>4. QED
  BY <1>1, <1>2, <1>3, CacheSame, BucketSame DEF BearerInv

LEMMA EvictStep ==
  ASSUME BearerInv, NEW c \in Clients, Evict(c)
  PROVE BearerInv'
<1>1. now' = now /\ cache' = cache /\ req' = req /\ accepted' = accepted
      /\ revoked' = revoked /\ lims' = [lims EXCEPT ![c] = NoLimiter]
      /\ drawn' = [drawn EXCEPT ![c] = 0]
  BY DEF Evict
<1>2. RequestInv'
  BY <1>1 DEF BearerInv, RequestInv, OnTime
<1>3. c \in Addresses /\ NoLimiter \in Bucket
  BY BearerConstants DEF BearerConstants, Bucket, NoLimiter
<1>4. BucketInv'
  BY <1>1, <1>3 DEF BearerInv, BucketInv, Balanced
<1>5. QED
  BY <1>1, <1>2, <1>4, CacheSame, ClockSame DEF BearerInv

LEMMA TickStep ==
  ASSUME BearerInv, Tick
  PROVE BearerInv'
<1>1. /\ now < MaxTime /\ now' = now + 1 /\ revoked' = revoked /\ cache' = cache
      /\ lims' = lims /\ req' = req /\ accepted' = accepted /\ drawn' = drawn
      /\ \A r \in Requests : req[r].pc # "idle" => now - req[r].at < MaxLag
  BY DEF Tick
<1>2. now \in Nat /\ MaxTime \in Nat /\ MaxLag \in Nat /\ Rate \in Nat /\ Burst \in Nat
  BY BearerConstants DEF BearerConstants, BearerInv, ClockInv
<1>3. ClockInv'
  <2>1. \A t \in Bearers : accepted[t] \in Int /\ accepted[t] <= now
    BY DEF BearerInv, ClockInv, NoTime
  <2>2. QED
    BY <1>1, <1>2, <2>1 DEF BearerInv, ClockInv
<1>4. RequestInv'
  <2>1. ASSUME NEW r \in Requests, req[r].pc # "idle" PROVE OnTime(req[r])'
    <3>1. OnTime(req[r]) /\ req[r].at \in Nat
      BY <2>1, BusyFacts
    <3>2. now - req[r].at < MaxLag
      BY <1>1, <2>1
    <3>3. QED
      BY <1>1, <1>2, <3>1, <3>2 DEF OnTime
  <2>2. QED
    BY <1>1, <2>1 DEF BearerInv, RequestInv
<1>5. BucketInv'
  <2>1. lims \in [Addresses -> Bucket] /\ drawn \in [Clients -> Int] /\ Clients \subseteq Addresses
    BY BearerConstants DEF BearerConstants, BearerInv, BucketInv
  <2>2. ASSUME NEW c \in Clients
        PROVE IF lims[c] = NoLimiter THEN drawn[c] <= 0 ELSE Balanced(lims[c], drawn[c])'
    <3>1. lims[c].last \in Nat
      BY <2>1 DEF Bucket
    <3>2. lims[c] # NoLimiter => Balanced(lims[c], drawn[c])
      BY DEF BearerInv, BucketInv
    <3>3. lims[c] = NoLimiter => drawn[c] <= 0
      BY DEF BearerInv, BucketInv
    <3>4. lims[c] # NoLimiter => Balanced(lims[c], drawn[c])'
      BY <1>1, <1>2, <3>1, <3>2 DEF Balanced
    <3>5. QED
      BY <3>3, <3>4
  <2>3. QED
    BY <1>1, <2>1, <2>2 DEF BucketInv
<1>6. QED
  BY <1>1, <1>3, <1>4, <1>5, CacheSame DEF BearerInv

LEMMA BearerPreserved == BearerInv /\ [Next]_vars => BearerInv'
<1> SUFFICES ASSUME BearerInv, [Next]_vars PROVE BearerInv'
  OBVIOUS
<1>1. CASE UNCHANGED vars
  <2>1. RequestInv'
    BY <1>1 DEF vars, BearerInv, RequestInv, OnTime
  <2>2. QED
    BY <1>1, <2>1, CacheSame, BucketSame, ClockSame DEF vars, BearerInv
<1>2. CASE Next
  BY <1>2, ArriveStep, GetStep, AllowStep, ReviewStep, StoreStep, RevokeStep, EvictStep,
     TickStep DEF Next
<1>3. QED
  BY <1>1, <1>2

LEMMA BearerAlways == Spec => []BearerInv
  BY BearerInitially, BearerPreserved, PTL DEF Spec

\* Every reachable state of the bearer validator and its limiter is type-correct: the
\* cache (lru.Cache) has one entry per token and stays within bearerCacheSize.
THEOREM BearerTypeCorrect == Spec => []TypeOK
<1>1. BearerInv => TypeOK
  <2> SUFFICES ASSUME BearerInv PROVE TypeOK
    OBVIOUS
  <2>1. now \in 0..MaxTime /\ revoked \subseteq Bearers
        /\ accepted \in [Bearers -> {NoTime} \cup 0..MaxTime]
    BY DEF BearerInv, ClockInv
  <2>2. req \in [Requests -> UnderWay \cup {Idle}]
    BY DEF BearerInv, RequestInv
  <2>3. /\ cache \in Seq([token : Bearers, until : Nat]) /\ Len(cache) <= CacheSize
        /\ \A i, j \in DOMAIN cache : cache[i].token = cache[j].token => i = j
    BY DEF BearerInv, CacheInv, Cache, CacheEntry
  <2>4. lims \in [Addresses -> [tokens : -1..Burst, last : 0..MaxTime]]
        /\ drawn \in [Clients -> Int]
    BY DEF BearerInv, BucketInv, Bucket
  <2>5. QED
    BY <2>1, <2>2, <2>3, <2>4 DEF TypeOK
<1>2. QED
  BY <1>1, BearerAlways, PTL

\* No client has more tokens reviewed than its bucket (ClientRateLimiter.Allow) holds and
\* refills, however many of its requests overlap and whatever addresses it forges.
THEOREM ReviewsAreThrottled == Spec => []ReviewsThrottled
<1>1. BearerInv => ReviewsThrottled
  <2> SUFFICES ASSUME BearerInv, NEW c \in Clients PROVE drawn[c] <= Burst + Rate * now
    BY DEF ReviewsThrottled
  <2>1. Rate \in Nat /\ Burst \in Nat /\ now \in Nat /\ c \in Addresses
    BY BearerConstants DEF BearerConstants, BearerInv, ClockInv
  <2>2. lims[c] \in Bucket /\ drawn[c] \in Int
    BY <2>1 DEF BearerInv, BucketInv
  <2>3. CASE lims[c] = NoLimiter
    <3>1. drawn[c] <= 0
      BY <2>3 DEF BearerInv, BucketInv
    <3>2. Rate * 0 = 0 /\ Rate * 0 <= Rate * now
      BY <2>1, RefillMonotone
    <3>3. Rate * now \in Int
      BY <2>1
    <3>4. QED
      BY <2>1, <2>2, <3>1, <3>2, <3>3
  <2>4. CASE lims[c] # NoLimiter
    <3>1. Balanced(lims[c], drawn[c])
      BY <2>4 DEF BearerInv, BucketInv
    <3>2. lims[c].last \in Nat /\ lims[c].tokens \in Int
      BY <2>2 DEF Bucket
    <3>3. Rate * lims[c].last <= Rate * now
      BY <2>1, <3>1, <3>2, RefillMonotone DEF Balanced
    <3>4. Rate * lims[c].last \in Int /\ Rate * now \in Int
      BY <2>1, <3>2
    <3>5. QED
      BY <2>1, <2>2, <3>1, <3>2, <3>3, <3>4 DEF Balanced
  <2>5. QED
    BY <2>3, <2>4
<1>2. QED
  BY <1>1, BearerAlways, PTL

-----------------------------------------------------------------------------
(* Who is let in *)

\* Only a fresh entry or the answer just stored lets a request in.
LEMMA AdmittedHow ==
  ASSUME BearerInv, [Next]_vars, NEW r \in Requests, Admits(r)
  PROVE \/ req[r].pc = "get" /\ Fresh(req[r].token, req[r].at)
        \/ req[r].pc = "store"
<1> SUFFICES ASSUME req[r].pc = "get" PROVE Fresh(req[r].token, req[r].at)
  BY DEF Admits
<1>0. req'[r].pc = "idle" /\ req \in [Requests -> UnderWay \cup {Idle}]
  BY DEF Admits, BearerInv, RequestInv
<1>1. ASSUME NEW s \in Requests, s # r, NEW q, req' = [req EXCEPT ![s] = q] PROVE FALSE
  BY <1>0, <1>1
<1>2. ASSUME NEW s \in Requests, s # r,
             \/ \E c \in Clients, t \in Bearers :
                  \E forged \in {<<>>} \cup {<<a>> : a \in Addresses} : Arrive(s, c, t, forged)
             \/ Get(s) \/ Allow(s) \/ AllowMiss(s) \/ AllowAdd(s) \/ Review(s) \/ Store(s)
      PROVE FALSE
  <2>1. \E q : req' = [req EXCEPT ![s] = q]
    BY <1>2 DEF Arrive, Get, Allow, AllowMiss, AllowAdd, Review, Store, Spend, Done, Goto
  <2>2. QED
    BY <1>1, <1>2, <2>1
<1>3. req' # req
  BY <1>0
<1>4. CASE Get(r)
  <2>1. CASE Goto(r, "limit")
    BY <1>0, <2>1 DEF Goto
  <2>2. QED
    BY <1>4, <2>1 DEF Get
<1>5. ASSUME \/ \E c \in Clients, t \in Bearers :
                  \E forged \in {<<>>} \cup {<<a>> : a \in Addresses} : Arrive(r, c, t, forged)
             \/ Allow(r) \/ AllowMiss(r) \/ AllowAdd(r) \/ Review(r) \/ Store(r)
      PROVE FALSE
  BY <1>5 DEF Arrive, Allow, AllowMiss, AllowAdd, Review, Store
<1>6. ASSUME \/ UNCHANGED vars \/ Tick
             \/ \E t \in Bearers : Revoke(t)
             \/ \E c \in Clients : Evict(c)
      PROVE FALSE
  BY <1>3, <1>6 DEF vars, Revoke, Evict, Tick
<1>7. QED
  BY <1>2, <1>4, <1>5, <1>6 DEF Next

\* bearerCacheTTL bounds how long a revoked token keeps working: a request that is let
\* in (bearerValidator.validate) has a token the API server accepted less than TTL ago,
\* give or take the time that two requests take.
THEOREM AdmittedWereAccepted == Spec => RecentlyAccepted
<1> USE BearerConstants DEF BearerConstants
<1> DEFINE Recent(r) == /\ accepted[req[r].token] # NoTime
                        /\ now < accepted[req[r].token] + TTL + 2 * MaxLag
<1>1. ASSUME BearerInv, [Next]_vars, NEW r \in Requests, Admits(r) PROVE Recent(r)
  <2> DEFINE t == req[r].token
             at == req[r].at
  <2>1. t \in Bearers /\ OnTime(req[r]) /\ at \in Nat
    BY <1>1, BusyFacts DEF Admits
  <2>2. now \in Nat /\ accepted[t] \in Int /\ at <= now /\ now <= at + MaxLag
    BY <1>1, <2>1 DEF BearerInv, ClockInv, OnTime, NoTime
  <2>3. CASE req[r].pc = "get" /\ Fresh(t, at)
    <3>1. PICK i \in DOMAIN cache : cache[i].token = t /\ at < cache[i].until
      BY <2>3 DEF Fresh, Entries
    <3>2. cache[i].until \in Nat /\ Vouches(cache[i])
      BY <1>1, <3>1, EntryFacts
    <3>3. accepted[t] # NoTime /\ cache[i].until <= accepted[t] + TTL + MaxLag
      BY <3>1, <3>2 DEF Vouches
    <3>4. QED
      BY <2>1, <2>2, <3>1, <3>2, <3>3
  <2>4. CASE req[r].pc = "store"
    <3>1. accepted[t] # NoTime /\ at <= accepted[t]
      BY <2>1, <2>4 DEF OnTime
    <3>2. QED
      BY <2>1, <2>2, <3>1
  <2>5. QED
    BY <1>1, <2>3, <2>4, AdmittedHow
<1>2. BearerInv /\ [Next]_vars => [\A r \in Requests : Admits(r) => Recent(r)]_vars
  BY <1>1
<1>3. QED
  BY <1>2, BearerAlways, PTL DEF Spec, RecentlyAccepted

\* "The entry must not outlive the token it vouches for" (bearer.go): no request is let in
\* with a token past its "exp", but for the time the request itself takes.
THEOREM ExpiredStayOut == Spec => ExpiredStaysOut
<1> USE BearerConstants DEF BearerConstants
<1>1. ASSUME BearerInv, [Next]_vars, NEW r \in Requests, Admits(r), Expiry[req[r].token] # 0
      PROVE now < Expiry[req[r].token] + MaxLag
  <2> DEFINE t == req[r].token
             at == req[r].at
  <2>1. t \in Bearers /\ OnTime(req[r]) /\ at \in Nat
    BY <1>1, BusyFacts DEF Admits
  <2>2. now \in Nat /\ Expiry[t] \in Nat /\ now <= at + MaxLag
    BY <1>1, <2>1 DEF BearerInv, ClockInv, OnTime
  <2>3. at < Expiry[t]
    <3>1. CASE req[r].pc = "get" /\ Fresh(t, at)
      <4>1. PICK i \in DOMAIN cache : cache[i].token = t /\ at < cache[i].until
        BY <3>1 DEF Fresh, Entries
      <4>2. cache[i].until \in Nat /\ Vouches(cache[i])
        BY <1>1, <4>1, EntryFacts
      <4>3. cache[i].until <= Expiry[t]
        BY <1>1, <4>1, <4>2 DEF Vouches
      <4>4. QED
        BY <2>1, <2>2, <4>1, <4>2, <4>3
    <3>2. CASE req[r].pc = "store"
      BY <1>1, <2>1, <3>2 DEF OnTime
    <3>3. QED
      BY <1>1, <3>1, <3>2, AdmittedHow
  <2>4. QED
    BY <2>1, <2>2, <2>3
<1>2. BearerInv /\ [Next]_vars =>
        [\A r \in Requests : Admits(r) /\ Expiry[req[r].token] # 0 =>
           now < Expiry[req[r].token] + MaxLag]_vars
  BY <1>1
<1>3. QED
  BY <1>2, BearerAlways, PTL DEF Spec, ExpiredStaysOut

-----------------------------------------------------------------------------
(* Traceflow *)

\* What the collector's lists still say of the objects when it acts on them.
CollectorInv ==
  /\ gc.pc = "wait" => gc.set = {}
  /\ gc.pc \in {"listed", "delete"} => \A n \in gc.set : tf[n].here => tf[n].ui
  /\ gc.pc = "delete" => \A n \in gc.set : tf[n].here => Expired(n)

TraceflowInv == TraceflowTypeOK /\ ResultAfterDone /\ CollectorInv

LEMMA ObjectFacts ==
  /\ None \in Objects /\ ~None.here /\ ~None.ui /\ None.age = 0
  /\ \A ui \in BOOLEAN :
       New(ui) \in Objects /\ New(ui).here /\ New(ui).ui = ui /\ New(ui).phase = "none"
  BY TraceflowConstants DEF Objects, None, New

LEMMA TraceflowInitially == TraceflowInit => TraceflowInv
<1> SUFFICES ASSUME TraceflowInit PROVE TraceflowInv
  OBVIOUS
<1>1. tf \in [Names -> Objects] /\ \A n \in Names : ~tf[n].here /\ ~tf[n].ui
  BY ObjectFacts DEF TraceflowInit
<1>2. bucket \in 0..BurstSize(limit)
  BY TraceflowConstants DEF TraceflowInit, BurstSize
<1>3. TraceflowTypeOK
  BY <1>1, <1>2 DEF TraceflowInit, TraceflowTypeOK, Resting
<1>4. ResultAfterDone /\ CollectorInv
  BY <1>1 DEF TraceflowInit, ResultAfterDone, CollectorInv, Resting
<1>5. QED
  BY <1>3, <1>4 DEF TraceflowInv

\* A step that changes one object, which the collector has not listed or which goes,
\* and what the browser knows of it.
LEMMA ObjectKeeps ==
  ASSUME TraceflowInv, NEW n \in Names, NEW o \in Objects,
         tf' = [tf EXCEPT ![n] = o],
         n \in gc.set => ~o.here \/ (o.ui = tf[n].ui /\ o.age = tf[n].age /\ tf[n].here),
         o.ui => tf[n].ui \/ limit # 0,
         known' \in [Names -> {"no", "created", "done", "result"}],
         \A m \in Names : known'[m] = "done" => known[m] = "done",
         known'[n] = "done" /\ o.here => o.phase \in {"Succeeded", "Failed"},
         limit' = limit, bucket' \in 0..BurstSize(limit), gc' = gc
  PROVE TraceflowInv'
<1>1. /\ tf' \in [Names -> Objects] /\ tf'[n] = o
      /\ \A m \in Names \ {n} : tf'[m] = tf[m]
  BY DEF TraceflowInv, TraceflowTypeOK
<1>2. TraceflowTypeOK'
  <2>1. limit = 0 => \A m \in Names : ~tf'[m].ui
    BY <1>1 DEF TraceflowInv, TraceflowTypeOK
  <2>2. QED
    BY <1>1, <2>1 DEF TraceflowInv, TraceflowTypeOK, BurstSize
<1>3. ResultAfterDone'
  BY <1>1 DEF TraceflowInv, ResultAfterDone
<1>4. CollectorInv'
  BY <1>1 DEF TraceflowInv, TraceflowTypeOK, CollectorInv, Expired
<1>5. QED
  BY <1>2, <1>3, <1>4 DEF TraceflowInv

\* A step that only changes what the browser knows.
LEMMA KnownKeeps ==
  ASSUME TraceflowInv, NEW n \in Names, NEW k \in {"no", "created", "done", "result"},
         known' = [known EXCEPT ![n] = k], k = "done" => known[n] = "done" \/ Finished(n),
         UNCHANGED <<limit, bucket, tf, gc>>
  PROVE TraceflowInv'
<1>1. /\ known' \in [Names -> {"no", "created", "done", "result"}] /\ known'[n] = k
      /\ \A m \in Names \ {n} : known'[m] = known[m]
  BY DEF TraceflowInv, TraceflowTypeOK
<1>2. TraceflowTypeOK'
  BY <1>1 DEF TraceflowInv, TraceflowTypeOK, BurstSize
<1>3. ResultAfterDone' /\ CollectorInv'
  BY <1>1 DEF TraceflowInv, ResultAfterDone, CollectorInv, Expired, Finished
<1>4. QED
  BY <1>2, <1>3 DEF TraceflowInv

\* What users, the controller and other clients of the API do.
LEMMA RoutesKeep ==
  ASSUME TraceflowInv, NEW n \in Names,
         \/ Create(n) \/ GetStatus(n) \/ GetResult(n) \/ Delete(n) \/ Forget(n) \/ Kubectl(n)
         \/ \E phase \in {"Running", "Succeeded", "Failed"} : Progress(n, phase)
  PROVE TraceflowInv'
<1> USE TraceflowConstants, ObjectFacts
<1>0. /\ tf \in [Names -> Objects] /\ known \in [Names -> {"no", "created", "done", "result"}]
      /\ limit \in Int /\ bucket \in 0..BurstSize(limit) /\ BurstSize(limit) \in Nat
      /\ limit <= 0 => BurstSize(limit) = 0
  BY DEF TraceflowInv, TraceflowTypeOK, BurstSize
<1>1. CASE Create(n)
  <2>1. tf' = [tf EXCEPT ![n] = New(TRUE)] /\ n \notin gc.set /\ known[n] = "no"
    BY <1>1 DEF Create, Unknown
  <2>2. limit # 0 /\ bucket' \in 0..BurstSize(limit)
    BY <1>0, <1>1 DEF Create, Admitted
  <2>3. /\ known' \in [Names -> {"no", "created", "done", "result"}] /\ known'[n] # "done"
        /\ \A m \in Names : known'[m] = "done" => known[m] = "done"
    BY <1>0, <1>1, <2>1 DEF Create
  <2>4. QED
    BY <1>1, <2>1, <2>2, <2>3, ObjectKeeps DEF Create
<1>2. CASE GetStatus(n)
  BY <1>0, <1>2, KnownKeeps DEF GetStatus
<1>3. CASE GetResult(n)
  BY <1>0, <1>3, KnownKeeps DEF GetResult
<1>4. CASE Delete(n)
  <2>1. /\ known' \in [Names -> {"no", "created", "done", "result"}] /\ known'[n] # "done"
        /\ \A m \in Names : known'[m] = "done" => known[m] = "done"
    BY <1>0, <1>4 DEF Delete
  <2>2. QED
    BY <1>0, <1>4, <2>1, ObjectKeeps DEF Delete
<1>5. CASE Forget(n)
  BY <1>0, <1>5, KnownKeeps DEF Forget
<1>6. CASE Kubectl(n)
  BY <1>0, <1>6, ObjectKeeps DEF Kubectl, Unknown
<1>7. CASE \E phase \in {"Running", "Succeeded", "Failed"} : Progress(n, phase)
  <2>1. PICK phase \in {"Running", "Succeeded", "Failed"} : Progress(n, phase)
    BY <1>7
  <2> DEFINE o == [tf[n] EXCEPT !.phase = phase]
  <2>2. /\ o \in Objects /\ o.here = tf[n].here /\ o.ui = tf[n].ui /\ o.age = tf[n].age
        /\ tf' = [tf EXCEPT ![n] = o]
    BY <1>0, <2>1 DEF Progress, Objects
  <2>3. known[n] # "done" /\ tf[n].here
    BY <2>1 DEF Progress, TraceflowInv, ResultAfterDone
  <2> HIDE DEF o
  <2>4. /\ known' = known /\ known[n] # "done" /\ limit' = limit /\ gc' = gc
        /\ bucket' \in 0..BurstSize(limit)
    BY <1>0, <2>1, <2>3 DEF Progress
  <2>5. QED
    BY <1>0, <2>2, <2>3, <2>4, ObjectKeeps
<1>8. QED
  BY <1>1, <1>2, <1>3, <1>4, <1>5, <1>6, <1>7

\* The collector's steps.
LEMMA CollectorKeeps ==
  ASSUME TraceflowInv,
         \/ List \/ Pick \/ EndRound
         \/ \E n \in Names : Collect(n) \/ CollectFails(n)
  PROVE TraceflowInv'
<1> USE TraceflowConstants, ObjectFacts DEF TraceflowInv
<1>1. CASE List \/ Pick \/ EndRound
  BY <1>1 DEF List, Pick, EndRound, TraceflowTypeOK, ResultAfterDone, CollectorInv,
     Labelled, Expired, Resting, BurstSize
<1>2. CASE \E n \in Names : Collect(n)
  <2>1. PICK n \in Names : Collect(n)
    BY <1>2
  <2>2. /\ tf' \in [Names -> Objects] /\ tf'[n] = None
        /\ \A m \in Names \ {n} : tf'[m] = tf[m]
    BY <2>1 DEF Collect, TraceflowTypeOK
  <2>3. QED
    BY <2>1, <2>2 DEF Collect, TraceflowTypeOK, ResultAfterDone, CollectorInv, Expired, BurstSize
<1>3. CASE \E n \in Names : CollectFails(n)
  BY <1>3 DEF CollectFails, TraceflowTypeOK, ResultAfterDone, CollectorInv, Expired, BurstSize
<1>4. QED
  BY <1>1, <1>2, <1>3

\* Time passes: an object that has expired stays expired.
LEMMA TickKeeps ==
  ASSUME TraceflowInv, Age
  PROVE TraceflowInv'
<1> USE TraceflowConstants DEF TraceflowInv
<1>1. \A n \in Names : Min({tf[n].age + 1, ExpiryTimeout + 1}) =
                         IF tf[n].age + 1 <= ExpiryTimeout + 1 THEN tf[n].age + 1 ELSE ExpiryTimeout + 1
  BY MinMax DEF TraceflowTypeOK, Objects
<1>2. /\ tf' \in [Names -> Objects]
      /\ \A n \in Names :
           /\ tf'[n].here = tf[n].here /\ tf'[n].ui = tf[n].ui /\ tf'[n].phase = tf[n].phase
           /\ Expired(n) => tf'[n].age > ExpiryTimeout
  BY <1>1 DEF Age, TraceflowTypeOK, Objects, Expired
<1>3. bucket' \in 0..BurstSize(limit)
  <2>1. CASE limit < 0
    BY <2>1 DEF Age, TraceflowTypeOK, BurstSize
  <2>2. CASE ~(limit < 0)
    <3>1. limit \in Nat /\ bucket \in Nat /\ BurstSize(limit) \in Nat
      BY <2>2 DEF TraceflowTypeOK, BurstSize
    <3>2. Tokens([tokens |-> bucket, last |-> 0], 1, limit, BurstSize(limit))
            = Min({BurstSize(limit), bucket + limit * Max({0, 1 - 0})})
      BY <3>1 DEF Tokens
    <3>3. Max({0, 1 - 0}) = 1 /\ bucket + limit * 1 \in Nat
      <4>1. 0 \in Int /\ 1 - 0 \in Int /\ 1 - 0 >= 0 /\ 1 - 0 = 1
        OBVIOUS
      <4>2. Max({0, 1 - 0}) = 1
        BY <4>1, MinMax
      <4>3. QED
        BY <3>1, <4>2
    <3>4. Min({BurstSize(limit), bucket + limit * 1}) \in 0..BurstSize(limit)
      BY <3>1, <3>3, MinMax
    <3>5. QED
      BY <2>2, <3>2, <3>3, <3>4 DEF Age
  <2>3. QED
    BY <2>1, <2>2
<1>4. TraceflowTypeOK' /\ ResultAfterDone' /\ CollectorInv'
  BY <1>2, <1>3 DEF Age, TraceflowTypeOK, ResultAfterDone, CollectorInv, Expired, BurstSize
<1>5. QED
  BY <1>4

LEMMA TraceflowInvariant == TraceflowSpec => []TraceflowInv
<1>1. ASSUME TraceflowInv, [TraceflowNext]_traceflowVars PROVE TraceflowInv'
  <2> USE TraceflowConstants
  <2>1. CASE UNCHANGED traceflowVars
    BY <1>1, <2>1 DEF traceflowVars, TraceflowInv, TraceflowTypeOK,
       ResultAfterDone, CollectorInv, Expired, BurstSize
  <2>2. CASE CreateFails \/ Restart
    BY <1>1, <2>2 DEF CreateFails, Restart, Admitted, Resting, TraceflowInv, TraceflowTypeOK,
       ResultAfterDone, CollectorInv, Expired, BurstSize
  <2>3. CASE \E n \in Names :
               \/ Create(n) \/ GetStatus(n) \/ GetResult(n) \/ Delete(n) \/ Forget(n) \/ Kubectl(n)
               \/ \E phase \in {"Running", "Succeeded", "Failed"} : Progress(n, phase)
    BY <1>1, <2>3, RoutesKeep
  <2>4. CASE List \/ Pick \/ EndRound \/ \E n \in Names : Collect(n) \/ CollectFails(n)
    BY <1>1, <2>4, CollectorKeeps
  <2>5. CASE Age
    BY <1>1, <2>5, TickKeeps
  <2>6. QED
    BY <1>1, <2>1, <2>2, <2>3, <2>4, <2>5 DEF TraceflowNext
<1>2. QED
  BY <1>1, TraceflowInitially, PTL DEF TraceflowSpec

\* Every reachable state is well-formed; with a limit of 0 nothing is created here.
THEOREM TraceflowTypeCorrect == TraceflowSpec => []TraceflowTypeOK
<1>1. TraceflowInv => TraceflowTypeOK
  BY DEF TraceflowInv
<1>2. QED
  BY <1>1, TraceflowInvariant, PTL

\* A browser that the status route sent to the result finds a result or nothing, never
\* an unfinished Traceflow, whatever the collector and other clients do meanwhile.
THEOREM ResultsAreDone == TraceflowSpec => []ResultAfterDone
<1>1. TraceflowInv => ResultAfterDone
  BY DEF TraceflowInv
<1>2. QED
  BY <1>1, TraceflowInvariant, PTL

\* The collector deletes only Traceflows made here that have expired, although it acts
\* on a list that was taken earlier.
THEOREM CollectorSparesTheRest == TraceflowSpec => CollectsOnlyStale
<1>1. ASSUME TraceflowInv, TraceflowInv', [TraceflowNext]_traceflowVars
      PROVE [\A n \in Names : gc.pc = "delete" /\ n \in gc.set \ gc'.set /\ tf[n].here =>
               tf[n].ui /\ tf[n].age > ExpiryTimeout]_traceflowVars
  BY <1>1 DEF TraceflowInv, CollectorInv, Expired
<1>2. QED
  BY <1>1, TraceflowInvariant, PTL DEF TraceflowSpec, CollectsOnlyStale
=============================================================================
