--------------------------- MODULE MCSessionStore ---------------------------
(* Instances of SessionStore for TLC. *)
EXTENDS SessionStore, TLC

CONSTANTS t1, t2, s1, s2, s3, alice, admin

TwoThreads == {t1, t2}
ThreadSymmetry == Permutations({t1, t2})
IdSymmetry3 == Permutations({t1, t2}) \cup Permutations({s1, s2, s3})

SpecOf(mode, user, ttl, refresher, tok) ==
  [mode |-> mode, username |-> user, ttl |-> ttl, refresher |-> refresher, tok |-> tok]

\* One session of each lifetime rule: refreshable, refreshable without a refresh
\* token, expiring, unbounded.
MixedSpecs == {SpecOf("oidc", alice, 2, TRUE, 1),
               SpecOf("oidc", alice, 2, TRUE, 0),
               SpecOf("serviceAccountToken", alice, 2, FALSE, 0),
               SpecOf("kubeconfig", alice, 0, FALSE, 0)}

\* A refreshable session and one nothing can renew.
LiveSpecs == {SpecOf("oidc", alice, 2, TRUE, 1), SpecOf("kubeconfig", admin, 0, FALSE, 0)}

\* Logins competing for room: two users, one of them called "admin", the static
\* admin, and a credential without a username.
LoginSpecs == {SpecOf("kubeconfig", alice, 0, FALSE, 0),
               SpecOf("serviceAccountToken", admin, 0, FALSE, 0),
               SpecOf("admin", admin, 0, FALSE, 0),
               SpecOf("kubeconfig", NoUser, 0, FALSE, 0)}

TwoTTLs == {1, 3}
NoKeys  == {}
ThreeKeys == {<<"k8s", 0>>, <<"antreasvc", 1>>, <<"antreasvc", 2>>}
=============================================================================
