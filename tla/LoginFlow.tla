------------------------------ MODULE LoginFlow ------------------------------
(***************************************************************************)
(* Logins, logouts and authenticated requests as a browser sees them        *)
(* (pkg/server/auth.go, oauth2.go, authn): cookie jars, the OIDC redirects,  *)
(* responses that arrive in any order, and the session registry, of which    *)
(* only the IDs matter here (SessionStore has the rest).                     *)
(*                                                                         *)
(* A tab belongs to a browser while it has a request under way, or is at the *)
(* provider's page.  The request carries the cookies the jar *)
(* held when it was sent; the response changes the jar when it arrives.      *)
(*                                                                         *)
(* An operator named Def_Slip is Def with one plausible slip in it; it is   *)
(* used only to confirm that a property would notice the slip.              *)
(***************************************************************************)
EXTENDS Integers, FiniteSets

CONSTANTS
  Browsers, Tabs, Nobody,
  MaxSessions,                \* session.maxSessions
  MaxStarts,                  \* bound: sessions created and OIDC logins started, together
  MaxFaults                   \* bound: restarts, lost responses and reopened callback URLs

ASSUME LoginConstants ==
  /\ Nobody \notin Browsers
  /\ MaxSessions \in Nat /\ MaxStarts \in Nat
  /\ MaxFaults \in Nat

VARIABLES
  jar,       \* the cookies of each browser
  tab,       \* what each tab is doing
  live,      \* IDs of the sessions in the store
  ids,       \* sessions created so far
  logins,    \* OIDC logins started so far
  boot,      \* the running process; its number is its oauth2StateSecret
  urls,      \* callback URLs the provider has issued
  spent,     \* authorization codes exchanged
  faults,    \* restarts, lost responses and reopened callback URLs so far
  starter,   \* history: the browser that started each OIDC login
  born,      \* history: where each session was created, and by which OIDC login
  blurred    \* history: a browser's requests overlapped, or a response of its
             \* was lost, or a session cookie was withheld from a request

vars == <<jar, tab, live, ids, logins, boot, urls, spent, faults, starter, born, blurred>>

\* Cookies: the session ID, the state nonce with the secret that signed it, and
\* the OIDC nonce.  0 is no cookie; in a response, Keep leaves a cookie alone.
Cookies == {"session", "state", "secret", "nonce"}
Keep == -1
NoCookies == [c \in Cookies |-> 0]
Same == [c \in Cookies |-> Keep]

NoURL == [login |-> 0, state |-> 0, nonce |-> 0]

Idle == [pc |-> "idle", browser |-> Nobody, kind |-> "none", page |-> "none",
         ck |-> NoCookies, q |-> NoURL, set |-> Same]

Init ==
  /\ jar = [b \in Browsers |-> NoCookies]
  /\ tab = [t \in Tabs |-> Idle]
  /\ live = {} /\ ids = 0 /\ logins = 0 /\ boot = 1
  /\ urls = {} /\ spent = {} /\ faults = 0
  /\ starter = [n \in 1..MaxStarts |-> Nobody]
  /\ born = [i \in 1..MaxStarts |-> [browser |-> Nobody, login |-> 0]]
  /\ blurred = [b \in Browsers |-> FALSE]

-----------------------------------------------------------------------------
(* The browser's side of a request *)

\* Who makes a request: the UI or the address bar; a page of another origin of the
\* same site; a page of another site.
Pages == {"own", "sibling", "foreign"}

\* nav: it is a navigation.  modern: the browser sends Sec-Fetch-Site.
Sources == [page : Pages, nav : BOOLEAN, modern : BOOLEAN]

\* The headers Origin and Sec-Fetch-Site.
Origin(h) == IF h.nav THEN "absent" ELSE IF h.page = "own" THEN "self" ELSE "other"

Site(h) ==
  IF ~h.modern THEN "absent"
  ELSE CASE h.page = "own" -> IF h.nav THEN "none" ELSE "same-origin"
         [] h.page = "sibling" -> "same-site"
         [] h.page = "foreign" -> "cross-site"

SessionCookie_Lax(b, page, nav) ==
  IF page = "foreign" /\ ~nav THEN 0 ELSE jar[b]["session"]

\* The session cookie is SameSite=Strict: of the requests, those that a page of another
\* site makes carry none, its links included.
SessionCookie(b, page, nav) == IF page = "foreign" THEN 0 ELSE jar[b]["session"]

\* The two cookies of an OIDC login are sent to /auth/oauth2 only.
SentCookies(b, h) == [NoCookies EXCEPT !["session"] = SessionCookie(b, h.page, h.nav)]

\* checkCrossOrigin
CheckCrossOrigin(h, allowTopLevelNavigation) ==
  IF Site(h) # "absent"
  THEN Site(h) \in {"same-origin", "none"} \/ (allowTopLevelNavigation /\ h.nav)
  ELSE Origin(h) \in {"absent", "self"}

Gate_LoginOpen(kind, h, ck) ==
  CASE kind = "login" -> TRUE
    [] kind = "logout" -> CheckCrossOrigin(h, h.nav)
    [] kind = "api" -> ck["session"] # 0 => CheckCrossOrigin(h, FALSE)

\* Which middleware stands before which route.  Logout is a GET, with the
\* relaxed gate, or a POST; Resolve's gate is for requests with a cookie.
Gate(kind, h, ck) ==
  CASE kind = "login" -> CheckCrossOrigin(h, FALSE)
    [] kind = "logout" -> CheckCrossOrigin(h, h.nav)
    [] kind = "api" -> ck["session"] # 0 => CheckCrossOrigin(h, FALSE)

Busy(b) == \E t \in Tabs : tab[t].browser = b /\ tab[t].pc # "provider"

Withheld(b, ck) == jar[b]["session"] # ck["session"]

Blur(b, ck) == blurred' = [blurred EXCEPT ![b] = @ \/ Busy(b) \/ Withheld(b, ck)]

\* A request leaves the browser and passes the gate (a 403 changes
\* nothing, nor does the 401 of an API request without a cookie).
\* "login" is a POST of a password, a token or a kubeconfig, "api" any route
\* behind authenticate(), GET /auth/session included.
Send(t, b, kind, h) ==
  LET ck == SentCookies(b, h) IN
  /\ tab[t].pc = "idle"
  /\ kind = "login" => ~h.nav
  /\ kind = "api" => ck["session"] # 0
  /\ Gate(kind, h, ck)
  /\ tab' = [tab EXCEPT ![t] =
       [Idle EXCEPT !.pc = "handle", !.browser = b, !.kind = kind, !.page = h.page, !.ck = ck]]
  /\ Blur(b, ck)
  /\ UNCHANGED <<jar, live, ids, logins, boot, urls, spent, faults, starter, born>>

\* The response arrives, and the browser follows its redirect if it has one.
Deliver(t) ==
  LET b == tab[t].browser IN
  /\ tab[t].pc = "answer"
  /\ jar' = [jar EXCEPT ![b] =
       [c \in Cookies |-> IF tab[t].set[c] = Keep THEN @[c] ELSE tab[t].set[c]]]
  /\ tab' = [tab EXCEPT ![t] =
       IF tab[t].q # NoURL
       THEN [Idle EXCEPT !.pc = "provider", !.browser = b, !.q = tab[t].q] ELSE Idle]
  /\ UNCHANGED <<live, ids, logins, boot, urls, spent, faults, starter, born, blurred>>

\* The tab is closed, or the connection breaks, before the response is there.
Lose(t) ==
  /\ tab[t].pc = "answer"
  /\ faults < MaxFaults
  /\ faults' = faults + 1
  /\ tab' = [tab EXCEPT ![t] = Idle]
  /\ blurred' = [blurred EXCEPT ![tab[t].browser] = TRUE]
  /\ UNCHANGED <<jar, live, ids, logins, boot, urls, spent, starter, born>>

\* The browser navigates to a callback URL.  The two cookies of the login are Lax.
Callback(t, b, page, u) ==
  LET ck == [jar[b] EXCEPT !["session"] = SessionCookie(b, page, TRUE)] IN
  /\ tab' = [tab EXCEPT ![t] =
       [Idle EXCEPT !.pc = "handle", !.browser = b, !.kind = "callback", !.page = page,
                    !.ck = ck, !.q = u]]
  /\ Blur(b, ck)
  /\ UNCHANGED <<jar, live, ids, logins, boot, spent, starter, born>>

\* The user logs in at the provider, or is logged in there already, and the provider
\* sends the browser back with a code: a navigation from another site.
Authenticate(t) ==
  /\ tab[t].pc = "provider"
  /\ urls' = urls \cup {tab[t].q}
  /\ UNCHANGED faults
  /\ Callback(t, tab[t].browser, "foreign", tab[t].q)

Abandon(t) ==
  /\ tab[t].pc = "provider"
  /\ tab' = [tab EXCEPT ![t] = Idle]
  /\ UNCHANGED <<jar, live, ids, logins, boot, urls, spent, faults, starter, born, blurred>>

\* A callback URL is loaded again, from the history, as a copied link or from a link on
\* a page, in the browser it was issued to or in another one.
OpenCallback(t, b, page, u) ==
  /\ tab[t].pc = "idle"
  /\ u \in urls
  /\ faults < MaxFaults
  /\ faults' = faults + 1
  /\ UNCHANGED urls
  /\ Callback(t, b, page, u)

-----------------------------------------------------------------------------
(* The handlers *)

\* The handler returns.  A response without cookies leaves no trace.
Answer(t, set) ==
  tab' = [tab EXCEPT ![t] =
    IF set = Same THEN Idle
    ELSE [Idle EXCEPT !.pc = "answer", !.browser = tab[t].browser, !.set = set]]

\* The handler goes on, with the session ID of the request if it still needs it.
Goto(t, pc, id) ==
  tab' = [tab EXCEPT ![t].pc = pc, ![t].ck = [NoCookies EXCEPT !["session"] = id]]

GenNonce_Fixed(k) == 1

\* genNonce: no value is drawn twice
GenNonce(k) == k

\* OAuth2Login: draws the state nonce and the OIDC nonce and leaves them in two
\* cookies, over those of a login under way in another tab.  The route has no gate
\* and reads no cookie: any page may send the browser there, with the same effect.
OAuth2Login(t, b) ==
  LET n == logins + 1
      u == [login |-> n, state |-> GenNonce(2 * n - 1), nonce |-> GenNonce(2 * n)]
  IN
  /\ tab[t].pc = "idle"
  /\ ids + logins < MaxStarts
  /\ logins' = n
  /\ starter' = [starter EXCEPT ![n] = b]
  /\ tab' = [tab EXCEPT ![t] =
       [Idle EXCEPT !.pc = "answer", !.browser = b, !.q = u,
          !.set = [Same EXCEPT !["state"] = u.state, !["secret"] = boot, !["nonce"] = u.nonce]]]
  /\ Blur(b, jar[b])
  /\ UNCHANGED <<jar, live, ids, boot, urls, spent, faults, born>>

\* ParseOAuth2State checks the signature; the nonce inside is compared with the
\* query's.
StateMatches(ck, q) == ck["state"] # 0 /\ ck["secret"] = boot /\ ck["state"] = q.state

NonceMatches(ck, q) == ck["nonce"] # 0 /\ ck["nonce"] = q.nonce

Accepted_KeepsOld(t) ==
  /\ Goto(t, "create", 0)
  /\ UNCHANGED live

\* A login is accepted: createSession drops the session its cookie names and
\* goes on to create another.
Accepted(t) ==
  /\ live' = live \ {tab[t].ck["session"]}
  /\ Goto(t, "create", 0)

\* OAuth2Callback.  The provider redeems a code once; the nonce of the id_token or
\* the credential may be rejected afterwards.
OAuth2Callback(t) ==
  LET ck == tab[t].ck
      q == tab[t].q
  IN
  /\ tab[t].pc = "handle" /\ tab[t].kind = "callback"
  /\ StateMatches(ck, q)
  /\ q.login \notin spent
  /\ spent' = spent \cup {q.login}
  /\ \/ NonceMatches(ck, q) /\ Accepted(t)
     \/ Answer(t, Same) /\ UNCHANGED live
  /\ UNCHANGED <<jar, ids, logins, boot, urls, faults, starter, born, blurred>>

\* A login ends with an error before it touches the sessions: too many attempts,
\* no valid state, an exchange that failed, a body that cannot be parsed, a
\* password or a credential that is rejected.
Refuse(t) ==
  /\ tab[t].pc = "handle" /\ tab[t].kind \in {"login", "callback"}
  /\ Answer(t, Same)
  /\ UNCHANGED <<jar, live, ids, logins, boot, urls, spent, faults, starter, born, blurred>>

\* Login, LoginWithToken, LoginWithKubeconfig: Compare or validateCredential
\* accepts.
Login(t) ==
  /\ tab[t].pc = "handle" /\ tab[t].kind = "login"
  /\ Accepted(t)
  /\ UNCHANGED <<jar, ids, logins, boot, urls, spent, faults, starter, born, blurred>>

HasRoom == Cardinality(live) < MaxSessions

\* createSession goes on: Create.  A callback also clears its two cookies.
CreateSession(t) ==
  LET i == ids + 1
      callback == tab[t].kind = "callback"
  IN
  /\ tab[t].pc = "create"
  /\ HasRoom
  /\ ids + logins < MaxStarts
  /\ ids' = i
  /\ live' = live \cup {i}
  /\ born' = [born EXCEPT ![i] = [browser |-> tab[t].browser, login |-> tab[t].q.login]]
  /\ Answer(t, [c \in Cookies |-> IF c = "session" THEN i ELSE IF callback THEN 0 ELSE Keep])
  /\ UNCHANGED <<jar, logins, boot, urls, spent, faults, starter, blurred>>

\* Create fails: the store is full, or no ID could be drawn.
CreateFails(t) ==
  /\ tab[t].pc = "create"
  /\ Answer(t, Same)
  /\ UNCHANGED <<jar, live, ids, logins, boot, urls, spent, faults, starter, born, blurred>>

SessionGone == [Same EXCEPT !["session"] = 0]

\* Resolve: a cookie whose session is gone is cleared, with a 401.
Resolve(t) ==
  LET id == tab[t].ck["session"] IN
  /\ tab[t].pc = "handle" /\ tab[t].kind = "api"
  /\ Answer(t, IF id \in live THEN Same ELSE SessionGone)
  /\ UNCHANGED <<jar, live, ids, logins, boot, urls, spent, faults, starter, born, blurred>>

\* The API server answers 401: k8sError invalidates the session and clears the
\* cookie.
Unauthorized(t) ==
  /\ tab[t].pc = "handle" /\ tab[t].kind = "api"
  /\ tab[t].ck["session"] \in live
  /\ live' = live \ {tab[t].ck["session"]}
  /\ Answer(t, SessionGone)
  /\ UNCHANGED <<jar, ids, logins, boot, urls, spent, faults, starter, born, blurred>>

Logout_CookieOnly(t) ==
  /\ tab[t].pc = "handle" /\ tab[t].kind = "logout"
  /\ Answer(t, SessionGone)
  /\ UNCHANGED <<jar, live, ids, logins, boot, urls, spent, faults, starter, born, blurred>>

\* Logout
Logout(t) ==
  /\ tab[t].pc = "handle" /\ tab[t].kind = "logout"
  /\ live' = live \ {tab[t].ck["session"]}
  /\ Answer(t, SessionGone)
  /\ UNCHANGED <<jar, ids, logins, boot, urls, spent, faults, starter, born, blurred>>

-----------------------------------------------------------------------------
\* A session ends by itself: idle, at its cap, evicted for another of its user,
\* with a credential that cannot be renewed.
Lapse(i) ==
  /\ i \in live
  /\ live' = live \ {i}
  /\ UNCHANGED <<jar, tab, ids, logins, boot, urls, spent, faults, starter, born, blurred>>

\* The backend restarts: no sessions, a new secret, requests cut off.
Restart ==
  /\ faults < MaxFaults
  /\ faults' = faults + 1
  /\ boot' = boot + 1
  /\ live' = {}
  /\ tab' = [t \in Tabs |-> IF tab[t].pc \in {"idle", "provider", "answer"} THEN tab[t] ELSE Idle]
  /\ UNCHANGED <<jar, ids, logins, urls, spent, starter, born, blurred>>

Handle(t) ==
  \/ OAuth2Callback(t) \/ Refuse(t) \/ Login(t)
  \/ CreateSession(t) \/ CreateFails(t)
  \/ Resolve(t) \/ Unauthorized(t) \/ Logout(t)

Browse(t) ==
  \/ \E b \in Browsers, kind \in {"login", "logout", "api"}, h \in Sources :
       Send(t, b, kind, h)
  \/ \E b \in Browsers : OAuth2Login(t, b)
  \/ \E b \in Browsers, page \in Pages, u \in urls : OpenCallback(t, b, page, u)
  \/ Authenticate(t) \/ Abandon(t) \/ Deliver(t) \/ Lose(t)

Next ==
  \/ \E t \in Tabs : Browse(t) \/ Handle(t)
  \/ \E i \in live : Lapse(i)
  \/ Restart

Spec == Init /\ [][Next]_vars

-----------------------------------------------------------------------------
(* Properties *)

CookieJars == [Cookies -> Nat]
CallbackURLs == [login : Nat, state : Nat, nonce : Nat]

TabStates ==
  [pc : {"idle", "handle", "create", "answer", "provider"}, browser : Browsers \cup {Nobody},
   kind : {"none", "login", "logout", "api", "callback"}, page : Pages \cup {"none"},
   ck : CookieJars, q : CallbackURLs, set : [Cookies -> Nat \cup {Keep}]]

\* Type invariant, with the cap on sessions, which concurrent logins must respect.
TypeOK ==
  /\ jar \in [Browsers -> CookieJars]
  /\ tab \in [Tabs -> TabStates]
  /\ ids \in 0..MaxStarts /\ live \subseteq 1..ids /\ Cardinality(live) <= MaxSessions
  /\ logins \in 0..MaxStarts /\ boot \in Nat
  /\ urls \subseteq CallbackURLs /\ spent \subseteq 1..logins /\ faults \in 0..MaxFaults
  /\ starter \in [1..MaxStarts -> Browsers \cup {Nobody}]
  /\ born \in [1..MaxStarts -> [browser : Browsers \cup {Nobody}, login : 0..MaxStarts]]
  /\ blurred \in [Browsers -> BOOLEAN]

\* A session that an OIDC callback creates lands in the browser that started the
\* login: neither another browser's callback URL, nor a second login that
\* overwrote the two cookies, nor a replay can put it elsewhere.
OwnLogin ==
  \A i \in 1..ids : born[i].login # 0 => born[i].browser = starter[born[i].login]

\* createSession: "Logging in again replaces whatever session the caller already
\* had".  A browser whose requests do not overlap, whose responses arrive and
\* whose cookie is not withheld (a callback reached from the provider's page
\* carries no Strict cookie) never leaves a session behind in the store: logins,
\* logouts, 401s, refused logins and restarts in any order.
NoSessionLeftBehind ==
  \A b \in Browsers :
    ~blurred[b] /\ ~Busy(b) => \A i \in live : born[i].browser = b => i = jar[b]["session"]

\* What the requests of pages may do (checkCrossOrigin before the logins, SameSite=Strict
\* on the session cookie, the state and nonce of OAuth2Callback).  No request ends a
\* session of another browser, and one that a page of another site makes ends none:
\* neither by the logout link that the gate lets through, nor by an OIDC login, which
\* replaces the caller's session.  From outside the UI a session is created only as the
\* last step of an OIDC login that this very browser has started, on a route without a
\* gate; never with a password or a token.
OutsidersContained ==
  [][\A t \in Tabs : tab'[t] # tab[t] /\ boot' = boot =>
       /\ \A i \in live \ live' : born[i].browser = tab[t].browser /\ tab[t].page # "foreign"
       /\ live' \ live # {} /\ tab[t].page # "own" =>
            tab[t].kind = "callback" /\ starter[tab[t].q.login] = tab[t].browser]_vars
=============================================================================
