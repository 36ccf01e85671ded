----------------------------- MODULE RateLimiter -----------------------------
(* The token buckets of pkg/server/ratelimit: golang.org/x/time/rate as       *)
(* AllowN uses it, and the key a client's bucket is found under.              *)
EXTENDS Integers, Sequences, FiniteSetsExt

\* rate.NewLimiter: the bucket starts full.
NewLimiter(burst) == [tokens |-> burst, last |-> 0]

\* The tokens at time t.  A time before the last one counts as no time elapsed.
Tokens(l, t, rate, burst) ==
  LET refilled == l.tokens + rate * Max({0, t - l.last}) IN Min({burst, refilled})

\* AllowN(t, 1): what it answers, and the bucket afterwards.  Its clock follows the
\* caller's, backwards too.
Allows(l, t, rate, burst) == Tokens(l, t, rate, burst) >= 1

AllowN(l, t, rate, burst) ==
  IF Allows(l, t, rate, burst)
  THEN [tokens |-> Tokens(l, t, rate, burst) - 1, last |-> t]
  ELSE l

ClientKeyIP_Leftmost(xff, realIP, remote, public) ==
  LET hops == {i \in DOMAIN xff : xff[i] \in public} IN
  IF hops # {} THEN xff[Min(hops)] ELSE IF realIP # <<>> THEN realIP[1] ELSE remote

\* ClientKeyIP: the rightmost address of X-Forwarded-For that is not private, else
\* X-Real-IP if it is there, else the peer.
ClientKeyIP(xff, realIP, remote, public) ==
  LET hops == {i \in DOMAIN xff : xff[i] \in public} IN
  IF hops # {} THEN xff[Max(hops)] ELSE IF realIP # <<>> THEN realIP[1] ELSE remote
=============================================================================
