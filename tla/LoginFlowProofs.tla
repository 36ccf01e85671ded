--------------------------- MODULE LoginFlowProofs ---------------------------
(* Proofs about LoginFlow.                                                  *)
EXTENDS LoginFlow, FiniteSetTheorems, TLAPS

\* A state cookie that browser b holds, sends or is about to be given is that of a
\* login b has started.
Mine(b, x) ==
  x \in {0, Keep} \/ \E n \in 1..logins : x = 2 * n - 1 /\ starter[n] = b

\* A callback URL carries the state of its own login.
Genuine(u) == u = NoURL \/ (u.login \in 1..logins /\ u.state = 2 * u.login - 1)

TabInv(x) ==
  /\ Mine(x.browser, x.ck["state"]) /\ Mine(x.browser, x.set["state"])
  /\ Genuine(x.q)
  /\ x.pc = "idle" <=> x.browser = Nobody
  /\ x.kind = "login" /\ x.pc = "handle" => x.q = NoURL
  /\ x.pc = "create" => x.q = NoURL \/ starter[x.q.login] = x.browser

StateInv ==
  /\ \A b \in Browsers : Mine(b, jar[b]["state"])
  /\ \A u \in urls : Genuine(u)
  /\ \A t \in Tabs : TabInv(tab[t])
  /\ \A i \in 1..ids : born[i].login \in 0..logins

LoginInv == TypeOK /\ StateInv /\ OwnLogin

LEMMA CookieFacts ==
  /\ "session" \in Cookies /\ "state" \in Cookies /\ "secret" \in Cookies /\ "nonce" \in Cookies
  /\ NoCookies \in CookieJars /\ NoCookies["state"] = 0
  /\ Same \in [Cookies -> Nat \cup {Keep}] /\ Same["state"] = Keep
  /\ SessionGone \in [Cookies -> Nat \cup {Keep}] /\ SessionGone["state"] = Keep
  /\ NoURL \in CallbackURLs
  BY DEF Cookies, CookieJars, NoCookies, Same, SessionGone, Keep, NoURL, CallbackURLs

LEMMA IdleFacts ==
  /\ Idle \in TabStates /\ Idle.pc = "idle" /\ Idle.browser = Nobody /\ Idle.q = NoURL
  /\ Idle.ck = NoCookies /\ Idle.set = Same
  BY CookieFacts DEF Idle, TabStates

LEMMA IdleKeeps == TabInv(Idle)
  BY CookieFacts, IdleFacts DEF TabInv, Mine, Genuine

LEMMA LoginInitially == Init => LoginInv
<1> SUFFICES ASSUME Init PROVE LoginInv
  OBVIOUS
<1>1. live \subseteq 1..ids /\ Cardinality(live) <= MaxSessions /\ ids \in 0..MaxStarts
  BY LoginConstants, FS_EmptySet DEF Init
<1>2. TypeOK
  <2>1. jar \in [Browsers -> CookieJars] /\ tab \in [Tabs -> TabStates]
    BY CookieFacts, IdleFacts DEF Init
  <2>2. /\ starter \in [1..MaxStarts -> Browsers \cup {Nobody}]
        /\ born \in [1..MaxStarts -> [browser : Browsers \cup {Nobody}, login : 0..MaxStarts]]
    BY LoginConstants DEF Init
  <2>3. blurred \in [Browsers -> BOOLEAN]
    BY DEF Init
  <2>4. QED
    BY <1>1, <2>1, <2>2, <2>3, LoginConstants DEF Init, TypeOK
<1>3. StateInv
  <2>1. \A t \in Tabs : TabInv(tab[t])
    BY IdleKeeps DEF Init
  <2>2. QED
    BY <2>1, CookieFacts DEF Init, StateInv, Mine
<1>4. OwnLogin
  BY LoginConstants DEF Init, OwnLogin
<1>5. QED
  BY <1>2, <1>3, <1>4 DEF LoginInv

\* Sessions that go leave the others within the cap.
LEMMA FewerLive ==
  ASSUME TypeOK, NEW S, S \subseteq live
  PROVE S \subseteq 1..ids /\ Cardinality(S) <= MaxSessions
<1>1. IsFiniteSet(1..ids)
  BY FS_Interval, LoginConstants DEF TypeOK
<1>2. IsFiniteSet(live)
  BY <1>1, FS_Subset DEF TypeOK
<1>3. Cardinality(S) <= Cardinality(live) /\ Cardinality(S) \in Nat /\ Cardinality(live) \in Nat
  BY <1>2, FS_Subset, FS_CardinalityType
<1>4. QED
  BY <1>3, LoginConstants DEF TypeOK

\* Most steps move one tab on, and at most end sessions.
LEMMA TabKeeps ==
  ASSUME LoginInv, NEW t \in Tabs, NEW x \in TabStates, TabInv(x),
         tab' = [tab EXCEPT ![t] = x], live' \subseteq live,
         spent' \subseteq 1..logins, faults' \in 0..MaxFaults, blurred' \in [Browsers -> BOOLEAN],
         UNCHANGED <<jar, ids, logins, boot, urls, starter, born>>
  PROVE LoginInv'
<1>1. /\ tab' \in [Tabs -> TabStates] /\ tab'[t] = x
      /\ \A u \in Tabs \ {t} : tab'[u] = tab[u]
  BY DEF LoginInv, TypeOK
<1>2. TypeOK'
  BY <1>1, FewerLive DEF LoginInv, TypeOK
<1>3. StateInv'
  BY <1>1 DEF LoginInv, StateInv, TabInv, Mine, Genuine
<1>4. OwnLogin'
  BY DEF LoginInv, OwnLogin
<1>5. QED
  BY <1>2, <1>3, <1>4 DEF LoginInv

LEMMA BlurType ==
  ASSUME LoginInv, NEW b \in Browsers, NEW ck, Blur(b, ck)
  PROVE blurred' \in [Browsers -> BOOLEAN]
<1> DEFINE v == blurred[b] \/ Busy(b) \/ Withheld(b, ck)
<1>1. v \in BOOLEAN /\ blurred \in [Browsers -> BOOLEAN]
  BY DEF LoginInv, TypeOK
<1>2. blurred' = [blurred EXCEPT ![b] = v]
  BY DEF Blur
<1> HIDE DEF v
<1>3. QED
  BY <1>1, <1>2

LEMMA TabFacts ==
  ASSUME LoginInv, NEW t \in Tabs, tab[t].pc # "idle"
  PROVE /\ tab[t] \in TabStates /\ TabInv(tab[t]) /\ tab[t].browser \in Browsers
        /\ tab[t].browser # Nobody
  BY DEF LoginInv, TypeOK, StateInv, TabInv, TabStates

\* A handler returns without having created a session.
LEMMA AnswerKeeps ==
  ASSUME LoginInv, NEW t \in Tabs, tab[t].pc # "idle", NEW set \in {Same, SessionGone},
         Answer(t, set), live' \subseteq live, spent' \subseteq 1..logins,
         UNCHANGED <<jar, ids, logins, boot, urls, faults, starter, born, blurred>>
  PROVE LoginInv'
<1> DEFINE x == IF set = Same THEN Idle
                ELSE [Idle EXCEPT !.pc = "answer", !.browser = tab[t].browser, !.set = set]
<1>1. x \in TabStates
  BY TabFacts, IdleFacts, CookieFacts DEF TabStates
<1>2. TabInv(x)
  <2>1. CASE set = Same
    BY <2>1, IdleKeeps
  <2>2. CASE set # Same
    <3>1. /\ x.pc = "answer" /\ x.browser = tab[t].browser /\ x.set["state"] = Keep
          /\ x.ck = NoCookies /\ x.q = NoURL
      BY <2>2, IdleFacts, CookieFacts DEF TabStates
    <3>2. QED
      BY <3>1, CookieFacts, TabFacts DEF TabInv, Mine, Genuine
  <2>3. QED
    BY <2>1, <2>2
<1>3. tab' = [tab EXCEPT ![t] = x]
  BY DEF Answer
<1>4. faults' \in 0..MaxFaults /\ blurred' \in [Browsers -> BOOLEAN]
  BY DEF LoginInv, TypeOK
<1> HIDE DEF x
<1>5. QED
  BY <1>1, <1>2, <1>3, <1>4, TabKeeps

\* A login is accepted.
LEMMA AcceptedKeeps ==
  ASSUME LoginInv, NEW t \in Tabs, tab[t].pc # "idle", Accepted(t),
         tab[t].q = NoURL \/ starter[tab[t].q.login] = tab[t].browser,
         spent' \subseteq 1..logins,
         UNCHANGED <<jar, ids, logins, boot, urls, faults, starter, born, blurred>>
  PROVE LoginInv'
<1> DEFINE x == [tab[t] EXCEPT !.pc = "create", !.ck = [NoCookies EXCEPT !["session"] = 0]]
<1>0. tab \in [Tabs -> TabStates]
  BY DEF LoginInv, TypeOK
<1>1. x \in TabStates
  BY TabFacts, CookieFacts DEF TabStates, CookieJars, NoCookies
<1>2. /\ x.pc = "create" /\ x.browser = tab[t].browser /\ x.q = tab[t].q /\ x.set = tab[t].set
      /\ x.ck["state"] = 0
  BY TabFacts, CookieFacts DEF TabStates, NoCookies, Cookies
<1>3. TabInv(x)
  BY <1>2, TabFacts DEF TabInv, Mine
<1>4. tab' = [tab EXCEPT ![t] = x] /\ live' \subseteq live
  BY <1>0 DEF Accepted, Goto
<1>5. faults' \in 0..MaxFaults /\ blurred' \in [Browsers -> BOOLEAN]
  BY DEF LoginInv, TypeOK
<1> HIDE DEF x
<1>6. QED
  BY <1>1, <1>3, <1>4, <1>5, TabKeeps

\* OAuth2Callback: a state that matches is that of a login of this browser.
LEMMA CallbackKeeps ==
  ASSUME LoginInv, NEW t \in Tabs, OAuth2Callback(t)
  PROVE LoginInv'
<1>1. /\ tab[t].pc # "idle" /\ tab[t].ck["state"] = tab[t].q.state /\ tab[t].ck["state"] # 0
      /\ spent' = spent \cup {tab[t].q.login}
      /\ UNCHANGED <<jar, ids, logins, boot, urls, faults, starter, born, blurred>>
  BY DEF OAuth2Callback, StateMatches
<1>2. tab[t].ck["state"] \in Nat /\ tab[t].q \in CallbackURLs
  BY <1>1, TabFacts, CookieFacts DEF TabStates, CookieJars
<1>3. PICK n \in 1..logins : tab[t].ck["state"] = 2 * n - 1 /\ starter[n] = tab[t].browser
  <2>1. tab[t].ck["state"] \notin {0, Keep}
    BY <1>1, <1>2 DEF Keep
  <2>2. Mine(tab[t].browser, tab[t].ck["state"])
    BY <1>1, TabFacts DEF TabInv
  <2>3. QED
    BY <2>1, <2>2 DEF Mine
<1>4. tab[t].q.login \in 1..logins /\ tab[t].q.state = 2 * tab[t].q.login - 1
  BY <1>1, TabFacts DEF TabInv, Genuine, NoURL
<1>5. tab[t].q.login = n
  <2>1. logins \in Nat
    BY LoginConstants DEF LoginInv, TypeOK
  <2>2. n \in Int /\ tab[t].q.login \in Int /\ 2 * tab[t].q.login - 1 = 2 * n - 1
    <3>1. n \in Int /\ tab[t].q.login \in Int
      BY <1>3, <1>4, <2>1
    <3>2. 2 * tab[t].q.login - 1 = 2 * n - 1
      BY <1>1, <1>3, <1>4
    <3>3. QED
      BY <3>1, <3>2
  <2>3. QED
    BY <2>2
<1>6. spent' \subseteq 1..logins
  BY <1>1, <1>4 DEF LoginInv, TypeOK
<1>7. CASE Accepted(t)
  BY <1>1, <1>3, <1>5, <1>6, <1>7, AcceptedKeeps
<1>8. CASE Answer(t, Same) /\ UNCHANGED live
  BY <1>1, <1>6, <1>8, AnswerKeeps
<1>9. QED
  BY <1>7, <1>8 DEF OAuth2Callback

\* The other handlers, but for CreateSession.
LEMMA HandlersKeep ==
  ASSUME LoginInv, NEW t \in Tabs,
         Refuse(t) \/ Login(t) \/ CreateFails(t) \/ Resolve(t) \/ Unauthorized(t) \/ Logout(t)
  PROVE LoginInv'
<1>1. tab[t].pc # "idle"
  BY DEF Refuse, Login, CreateFails, Resolve, Unauthorized, Logout
<1>2. spent \subseteq 1..logins
  BY DEF LoginInv, TypeOK
<1>3. CASE Refuse(t) \/ CreateFails(t) \/ Resolve(t) \/ Unauthorized(t) \/ Logout(t)
  <2>1. \E set \in {Same, SessionGone} : Answer(t, set)
    BY <1>3 DEF Refuse, CreateFails, Resolve, Unauthorized, Logout
  <2>2. /\ live' \subseteq live /\ spent' = spent
        /\ UNCHANGED <<jar, ids, logins, boot, urls, faults, starter, born, blurred>>
    BY <1>3 DEF Refuse, CreateFails, Resolve, Unauthorized, Logout
  <2>3. QED
    BY <1>1, <1>2, <2>1, <2>2, AnswerKeeps
<1>4. CASE Login(t)
  <2>1. tab[t].q = NoURL
    BY <1>1, <1>4, TabFacts DEF Login, TabInv
  <2>2. QED
    BY <1>1, <1>2, <1>4, <2>1, AcceptedKeeps DEF Login
<1>5. QED
  BY <1>3, <1>4

\* A browser sends a request to the backend; it has no OIDC cookies on it.
LEMMA SendKeeps ==
  ASSUME LoginInv, NEW t \in Tabs, NEW b \in Browsers, NEW kind \in {"login", "logout", "api"},
         NEW h \in Sources, Send(t, b, kind, h)
  PROVE LoginInv'
<1> DEFINE ck == SentCookies(b, h)
           x == [Idle EXCEPT !.pc = "handle", !.browser = b, !.kind = kind, !.page = h.page, !.ck = ck]
<1>1. ck \in CookieJars /\ ck["state"] = 0
  BY CookieFacts DEF SentCookies, SessionCookie, NoCookies, CookieJars, Cookies, LoginInv, TypeOK
<1>2. h.page \in Pages \cup {"none"}
  BY DEF Sources
<1>3. blurred' \in [Browsers -> BOOLEAN] /\ tab' = [tab EXCEPT ![t] = x]
  BY BlurType DEF Send
<1>4. live' \subseteq live /\ spent' \subseteq 1..logins /\ faults' \in 0..MaxFaults
  BY DEF Send, LoginInv, TypeOK
<1> HIDE DEF ck
<1>5. x \in TabStates
  BY <1>1, <1>2, IdleFacts, CookieFacts DEF TabStates
<1>6. /\ x.pc = "handle" /\ x.browser = b /\ x.ck["state"] = 0 /\ x.set["state"] = Keep
      /\ x.q = NoURL
  BY <1>1, IdleFacts, CookieFacts DEF TabStates
<1>7. TabInv(x)
  BY <1>6, LoginConstants DEF TabInv, Mine, Genuine
<1> HIDE DEF x
<1>8. QED
  BY <1>3, <1>4, <1>5, <1>7, TabKeeps DEF Send

\* A response is lost, or the user leaves the provider's page.
LEMMA LoseKeeps ==
  ASSUME LoginInv, NEW t \in Tabs, Lose(t) \/ Abandon(t)
  PROVE LoginInv'
<1>1. tab' = [tab EXCEPT ![t] = Idle] /\ live' \subseteq live /\ spent' \subseteq 1..logins
  BY DEF Lose, Abandon, LoginInv, TypeOK
<1>2. UNCHANGED <<jar, ids, logins, boot, urls, starter, born>>
  BY DEF Lose, Abandon
<1>3. faults' \in 0..MaxFaults
  BY LoginConstants DEF Lose, Abandon, LoginInv, TypeOK
<1>4. blurred' \in [Browsers -> BOOLEAN]
  <2>1. CASE Lose(t)
    BY <2>1 DEF Lose, LoginInv, TypeOK
  <2>2. CASE Abandon(t)
    BY <2>2 DEF Abandon, LoginInv, TypeOK
  <2>3. QED
    BY <2>1, <2>2
<1>5. QED
  BY <1>1, <1>2, <1>3, <1>4, IdleFacts, IdleKeeps, TabKeeps

\* The tab state of a callback under way.
LEMMA CallbackFacts ==
  ASSUME LoginInv, NEW b \in Browsers, NEW ck \in CookieJars, ck["state"] = jar[b]["state"],
         NEW page \in Pages, NEW u \in CallbackURLs, Genuine(u)
  PROVE LET x == [Idle EXCEPT !.pc = "handle", !.browser = b, !.kind = "callback", !.page = page,
                              !.ck = ck, !.q = u]
        IN x \in TabStates /\ TabInv(x)
<1> DEFINE x == [Idle EXCEPT !.pc = "handle", !.browser = b, !.kind = "callback", !.page = page,
                             !.ck = ck, !.q = u]
<1>1. x \in TabStates
  BY IdleFacts, CookieFacts DEF TabStates
<1>2. /\ x.pc = "handle" /\ x.browser = b /\ x.ck = ck /\ x.set["state"] = Keep /\ x.q = u
      /\ x.kind = "callback"
  BY IdleFacts, CookieFacts DEF TabStates
<1>3. TabInv(x)
  BY <1>2, LoginConstants DEF TabInv, Mine, LoginInv, StateInv
<1>4. QED
  BY <1>1, <1>3

\* The cookies on the way to the callback: those of the jar, but for the session's.
LEMMA CallbackCookies ==
  ASSUME LoginInv, NEW b \in Browsers, NEW page
  PROVE LET ck == [jar[b] EXCEPT !["session"] = SessionCookie(b, page, TRUE)]
        IN /\ ck \in CookieJars /\ ck["state"] = jar[b]["state"]
           /\ ck["session"] = SessionCookie(b, page, TRUE)
<1>1. jar[b] \in [Cookies -> Nat] /\ SessionCookie(b, page, TRUE) \in Nat
  BY CookieFacts DEF LoginInv, TypeOK, CookieJars, SessionCookie
<1>2. QED
  BY <1>1, CookieFacts DEF CookieJars

\* Whoever sends the browser to a callback, it is one that the provider has issued, or
\* issues now.
LEMMA CallbackSources ==
  ASSUME LoginInv, NEW t \in Tabs,
         \/ Authenticate(t)
         \/ \E b \in Browsers, page \in Pages, u \in urls : OpenCallback(t, b, page, u)
  PROVE \E b \in Browsers, page \in Pages, u \in CallbackURLs :
          /\ Callback(t, b, page, u) /\ Genuine(u) /\ urls' \subseteq urls \cup {u}
          /\ tab[t].browser \in {b, Nobody}
<1>1. CASE Authenticate(t)
  <2>1. /\ tab[t].browser \in Browsers /\ tab[t].q \in CallbackURLs /\ Genuine(tab[t].q)
    BY <1>1, TabFacts DEF Authenticate, TabStates, TabInv
  <2>2. "foreign" \in Pages
    BY DEF Pages
  <2>3. QED
    BY <1>1, <2>1, <2>2 DEF Authenticate
<1>2. CASE \E b \in Browsers, page \in Pages, u \in urls : OpenCallback(t, b, page, u)
  <2>1. PICK b \in Browsers, page \in Pages, u \in urls : OpenCallback(t, b, page, u)
    BY <1>2
  <2>2. u \in CallbackURLs /\ Genuine(u)
    BY DEF LoginInv, TypeOK, StateInv
  <2>3. tab[t].browser = Nobody
    BY <2>1 DEF OpenCallback, LoginInv, StateInv, TabInv
  <2>4. QED
    BY <2>1, <2>2, <2>3 DEF OpenCallback
<1>3. QED
  BY <1>1, <1>2

\* The provider sends the browser back, or a callback URL is opened again.
LEMMA CallbacksKeep ==
  ASSUME LoginInv, NEW t \in Tabs,
         \/ Authenticate(t)
         \/ \E b \in Browsers, page \in Pages, u \in urls : OpenCallback(t, b, page, u)
  PROVE LoginInv'
<1>1. PICK b \in Browsers, page \in Pages, u \in CallbackURLs :
        Callback(t, b, page, u) /\ Genuine(u) /\ urls' \subseteq urls \cup {u}
  BY CallbackSources
<1> DEFINE ck == [jar[b] EXCEPT !["session"] = SessionCookie(b, page, TRUE)]
           x == [Idle EXCEPT !.pc = "handle", !.browser = b, !.kind = "callback", !.page = page,
                             !.ck = ck, !.q = u]
<1>a. tab' = [tab EXCEPT ![t] = x] /\ Blur(b, ck)
  BY <1>1 DEF Callback
<1>b. ck \in CookieJars /\ ck["state"] = jar[b]["state"]
  BY CallbackCookies
<1> HIDE DEF ck
<1>2. x \in TabStates /\ TabInv(x) /\ tab' = [tab EXCEPT ![t] = x]
  BY <1>1, <1>a, <1>b, CallbackFacts
<1> HIDE DEF x
<1>3. /\ tab' \in [Tabs -> TabStates] /\ tab'[t] = x /\ \A v \in Tabs \ {t} : tab'[v] = tab[v]
  BY <1>2 DEF LoginInv, TypeOK
<1>4. faults' \in 0..MaxFaults
  BY LoginConstants DEF Authenticate, OpenCallback, LoginInv, TypeOK
<1>5. blurred' \in [Browsers -> BOOLEAN]
  BY <1>a, BlurType
<1>6. UNCHANGED <<jar, live, ids, logins, boot, spent, starter, born>>
  BY <1>1 DEF Callback
<1>7. TypeOK'
  BY <1>1, <1>3, <1>4, <1>5, <1>6 DEF LoginInv, TypeOK
<1>8. StateInv' /\ OwnLogin'
  BY <1>1, <1>2, <1>3, <1>6 DEF LoginInv, StateInv, TabInv, Mine, Genuine, OwnLogin
<1>9. QED
  BY <1>7, <1>8 DEF LoginInv

\* A response arrives: the browser takes its cookies over.
LEMMA DeliverKeeps ==
  ASSUME LoginInv, NEW t \in Tabs, Deliver(t)
  PROVE LoginInv'
<1> DEFINE b == tab[t].browser
           c == [k \in Cookies |-> IF tab[t].set[k] = Keep THEN jar[b][k] ELSE tab[t].set[k]]
           x == IF tab[t].q # NoURL
                THEN [Idle EXCEPT !.pc = "provider", !.browser = b, !.q = tab[t].q] ELSE Idle
<1>1. tab[t].pc # "idle" /\ tab' = [tab EXCEPT ![t] = x] /\ jar' = [jar EXCEPT ![b] = c]
      /\ UNCHANGED <<live, ids, logins, boot, urls, spent, faults, starter, born, blurred>>
  BY DEF Deliver
<1>2. b \in Browsers /\ b # Nobody /\ TabInv(tab[t]) /\ tab[t] \in TabStates
  BY <1>1, TabFacts
<1>3. c \in CookieJars /\ Mine(b, c["state"])
  <2>1. tab[t].set \in [Cookies -> Nat \cup {Keep}] /\ jar[b] \in [Cookies -> Nat]
    BY <1>2 DEF TabStates, LoginInv, TypeOK, CookieJars
  <2>2. Mine(b, jar[b]["state"]) /\ Mine(b, tab[t].set["state"])
    BY <1>2 DEF LoginInv, StateInv, TabInv
  <2>3. QED
    BY <2>1, <2>2, CookieFacts DEF CookieJars
<1>4. x \in TabStates
  BY <1>2, IdleFacts, CookieFacts DEF TabStates
<1>5. TabInv(x)
  <2>1. CASE tab[t].q = NoURL
    BY <2>1, IdleKeeps
  <2>2. CASE tab[t].q # NoURL
    <3>1. /\ x.pc = "provider" /\ x.browser = b /\ x.q = tab[t].q /\ x.ck["state"] = 0
          /\ x.set["state"] = Keep
      BY <2>2, IdleFacts, CookieFacts DEF TabStates
    <3>2. QED
      BY <1>2, <3>1 DEF TabInv, Mine
  <2>3. QED
    BY <2>1, <2>2
<1> HIDE DEF b, c, x
<1>6. /\ tab' \in [Tabs -> TabStates] /\ tab'[t] = x /\ \A v \in Tabs \ {t} : tab'[v] = tab[v]
      /\ jar' \in [Browsers -> CookieJars] /\ jar'[b] = c /\ \A d \in Browsers \ {b} : jar'[d] = jar[d]
  BY <1>1, <1>2, <1>3, <1>4 DEF LoginInv, TypeOK
<1>7. TypeOK'
  BY <1>1, <1>6 DEF LoginInv, TypeOK
<1>8. StateInv' /\ OwnLogin'
  BY <1>1, <1>3, <1>5, <1>6 DEF LoginInv, StateInv, TabInv, Mine, Genuine, OwnLogin
<1>9. QED
  BY <1>7, <1>8 DEF LoginInv

\* Another login starts: its number is new, and what held of the older ones still does.
LEMMA StartKeeps ==
  ASSUME LoginInv, NEW t \in Tabs, NEW b \in Browsers, OAuth2Login(t, b)
  PROVE LoginInv'
<1>1. PICK n, u, c, x :
        /\ n = logins + 1
        /\ u = [login |-> n, state |-> 2 * n - 1, nonce |-> 2 * n]
        /\ c = [Same EXCEPT !["state"] = u.state, !["secret"] = boot, !["nonce"] = u.nonce]
        /\ x = [Idle EXCEPT !.pc = "answer", !.browser = b, !.q = u, !.set = c]
        /\ tab' = [tab EXCEPT ![t] = x] /\ logins' = n /\ starter' = [starter EXCEPT ![n] = b]
        /\ UNCHANGED <<jar, live, ids, boot, urls, spent, faults, born>>
  BY DEF OAuth2Login, GenNonce
<1>2. n \in 1..MaxStarts /\ logins \in Nat /\ n \notin 1..logins /\ boot \in Nat /\ n \in Nat
  BY <1>1, LoginConstants DEF OAuth2Login, LoginInv, TypeOK
<1>3. /\ starter' \in [1..MaxStarts -> Browsers \cup {Nobody}] /\ starter'[n] = b
      /\ \A m \in 1..logins : starter'[m] = starter[m] /\ m \in 1..logins'
      /\ n \in 1..logins' /\ logins' \in 0..MaxStarts
  BY <1>1, <1>2, LoginConstants DEF LoginInv, TypeOK
<1>4. u \in CallbackURLs /\ u.login = n /\ u.state = 2 * n - 1
  BY <1>1, <1>2 DEF CallbackURLs
<1>5. c \in [Cookies -> Nat \cup {Keep}] /\ c["state"] = 2 * n - 1
  BY <1>1, <1>2, <1>4, CookieFacts DEF Same, Cookies, CallbackURLs
<1>6. blurred' \in [Browsers -> BOOLEAN]
  BY BlurType DEF OAuth2Login
<1>7. /\ x \in TabStates /\ x.pc = "answer" /\ x.browser = b /\ x.q = u /\ x.set = c
      /\ x.ck["state"] = 0
  <2>1. x = [Idle EXCEPT !.pc = "answer", !.browser = b, !.q = u, !.set = c]
    BY <1>1
  <2>2. x \in TabStates
    BY <1>4, <1>5, <2>1, IdleFacts DEF TabStates
  <2>3. QED
    BY <2>1, <2>2, IdleFacts, CookieFacts DEF TabStates
<1>8. /\ tab' \in [Tabs -> TabStates] /\ tab'[t] = x /\ \A v \in Tabs \ {t} : tab'[v] = tab[v]
  BY <1>1, <1>7 DEF LoginInv, TypeOK
<1>9. TypeOK'
  <2>1. spent' \subseteq 1..logins'
    BY <1>1, <1>3 DEF LoginInv, TypeOK
  <2>2. QED
    BY <1>1, <1>3, <1>6, <1>8, <2>1 DEF LoginInv, TypeOK
<1>10. \A d, y : Mine(d, y) => Mine(d, y)'
  BY <1>3 DEF Mine
<1>11. \A v : Genuine(v) => Genuine(v)'
  BY <1>3 DEF Genuine
<1>12. TabInv(x)'
  <2>1. Mine(b, 2 * n - 1)' /\ Mine(b, 0)'
    BY <1>3 DEF Mine
  <2>2. Genuine(u)'
    BY <1>3, <1>4 DEF Genuine
  <2>3. QED
    BY <1>5, <1>7, <2>1, <2>2, LoginConstants DEF TabInv
<1>13. \A v \in Tabs : TabInv(tab[v])'
  <2>1. SUFFICES ASSUME NEW v \in Tabs, v # t PROVE TabInv(tab[v])'
    BY <1>8, <1>12
  <2>2. PICK y : y = tab[v] /\ y = tab'[v]
    BY <1>8, <2>1
  <2>3. TabInv(y)
    BY <2>2 DEF LoginInv, StateInv
  <2>4. y.pc = "create" /\ y.q # NoURL => starter'[y.q.login] = y.browser
    BY <1>3, <2>3 DEF TabInv, Genuine
  <2>5. TabInv(y)'
    BY <1>10, <1>11, <2>3, <2>4 DEF TabInv
  <2>6. QED
    BY <2>2, <2>5
<1>14. StateInv'
  <2>1. \A d \in Browsers : Mine(d, jar[d]["state"])'
    <3>1. SUFFICES ASSUME NEW d \in Browsers PROVE Mine(d, jar[d]["state"])'
      OBVIOUS
    <3>2. PICK y : y = jar[d]["state"] /\ y = jar'[d]["state"]
      BY <1>1
    <3>3. Mine(d, y)'
      BY <1>10, <3>2 DEF LoginInv, StateInv
    <3>4. QED
      BY <3>2, <3>3
  <2>2. \A v \in urls' : Genuine(v)'
    BY <1>1, <1>11 DEF LoginInv, StateInv
  <2>3. \A i \in 1..ids' : born'[i].login \in 0..logins'
    BY <1>1, <1>2 DEF LoginInv, StateInv
  <2>4. QED
    BY <1>13, <2>1, <2>2, <2>3 DEF StateInv
<1>15. OwnLogin'
  <2>1. SUFFICES ASSUME NEW i \in 1..ids, born[i].login # 0
                 PROVE born[i].browser = starter'[born[i].login]
    BY <1>1 DEF OwnLogin
  <2>2. born[i].login \in 1..logins
    BY <2>1, <1>2 DEF LoginInv, StateInv
  <2>3. QED
    BY <2>1, <2>2, <1>3 DEF LoginInv, OwnLogin
<1>16. QED
  BY <1>9, <1>14, <1>15 DEF LoginInv

\* createSession: the session of a callback belongs to the browser that started its login.
LEMMA CreateKeeps ==
  ASSUME LoginInv, NEW t \in Tabs, CreateSession(t)
  PROVE LoginInv'
<1>1. PICK i, b, q, c :
        /\ i = ids + 1 /\ b = tab[t].browser /\ q = tab[t].q
        /\ c = [k \in Cookies |-> IF k = "session" THEN i ELSE
                                   IF tab[t].kind = "callback" THEN 0 ELSE Keep]
        /\ Answer(t, c)
        /\ ids' = i /\ live' = live \cup {i}
        /\ born' = [born EXCEPT ![i] = [browser |-> b, login |-> q.login]]
        /\ UNCHANGED <<jar, logins, boot, urls, spent, faults, starter, blurred>>
        /\ tab[t].pc = "create"
  BY DEF CreateSession
<1>2. /\ i \in 1..MaxStarts /\ ids \in Nat /\ i \notin 1..ids /\ 1..i = 1..ids \cup {i}
      /\ logins \in Nat /\ i \in Nat
  BY <1>1, LoginConstants DEF CreateSession, LoginInv, TypeOK
<1>3. /\ b \in Browsers /\ b # Nobody /\ q \in CallbackURLs /\ TabInv(tab[t])
  BY <1>1, TabFacts DEF TabStates
<1>4. q.login \in 0..logins /\ (q.login # 0 => starter[q.login] = b)
  <2>1. CASE q = NoURL
    BY <2>1, <1>2 DEF NoURL
  <2>2. CASE q # NoURL
    BY <2>2, <1>1, <1>2, <1>3 DEF TabInv, Genuine
  <2>3. QED
    BY <2>1, <2>2
<1>5. /\ born' \in [1..MaxStarts -> [browser : Browsers \cup {Nobody}, login : 0..MaxStarts]]
      /\ born'[i] = [browser |-> b, login |-> q.login]
      /\ \A m \in 1..ids : born'[m] = born[m]
  BY <1>1, <1>2, <1>3, <1>4, LoginConstants DEF LoginInv, TypeOK
<1>6. live' \subseteq 1..ids' /\ Cardinality(live') <= MaxSessions
  <2>0. live \subseteq 1..ids
    BY DEF LoginInv, TypeOK
  <2>1. IsFiniteSet(live) /\ i \notin live
    <3>1. IsFiniteSet(1..ids)
      BY <1>2, FS_Interval
    <3>2. QED
      BY <1>2, <2>0, <3>1, FS_Subset
  <2>2. Cardinality(live') = Cardinality(live) + 1 /\ Cardinality(live) \in Nat
    BY <1>1, <2>1, FS_AddElement, FS_CardinalityType
  <2>3. Cardinality(live) < MaxSessions
    BY DEF CreateSession, HasRoom
  <2>4. live' \subseteq 1..ids'
    BY <1>1, <1>2, <2>0
  <2>5. QED
    BY <2>2, <2>3, <2>4, LoginConstants
<1>7. c \in [Cookies -> Nat \cup {Keep}] /\ c["state"] \in {0, Keep}
  BY <1>1, <1>2, CookieFacts DEF Keep
<1>8. PICK x : x = (IF c = Same THEN Idle ELSE [Idle EXCEPT !.pc = "answer", !.browser = b, !.set = c])
  OBVIOUS
<1>9. x \in TabStates /\ tab' = [tab EXCEPT ![t] = x]
  BY <1>1, <1>3, <1>7, <1>8, IdleFacts, CookieFacts DEF TabStates, Answer
<1>10. TabInv(x)
  <2>1. CASE c = Same
    BY <2>1, <1>8, IdleKeeps
  <2>2. CASE c # Same
    <3>1. /\ x.pc = "answer" /\ x.browser = b /\ x.set = c /\ x.q = NoURL /\ x.ck["state"] = 0
      BY <2>2, <1>8, IdleFacts, CookieFacts DEF TabStates
    <3>2. QED
      BY <3>1, <1>3, <1>7 DEF TabInv, Mine, Genuine
  <2>3. QED
    BY <2>1, <2>2
<1>11. /\ tab' \in [Tabs -> TabStates] /\ tab'[t] = x /\ \A v \in Tabs \ {t} : tab'[v] = tab[v]
  BY <1>9 DEF LoginInv, TypeOK
<1>12. TypeOK'
  <2>1. ids' \in 0..MaxStarts
    BY <1>1, <1>2, LoginConstants
  <2>2. QED
    BY <1>1, <1>5, <1>6, <1>11, <2>1 DEF LoginInv, TypeOK
<1>13. StateInv'
  <2>1. \A m \in 1..ids' : born'[m].login \in 0..logins'
    BY <1>1, <1>2, <1>4, <1>5 DEF LoginInv, StateInv
  <2>2. QED
    BY <1>1, <1>10, <1>11, <2>1 DEF LoginInv, StateInv, TabInv, Mine, Genuine
<1>14. OwnLogin'
  BY <1>1, <1>2, <1>4, <1>5 DEF LoginInv, OwnLogin
<1>15. QED
  BY <1>12, <1>13, <1>14 DEF LoginInv

\* Sessions end by themselves, or the backend restarts.
LEMMA EndsKeep ==
  ASSUME LoginInv, Restart \/ \E i \in live : Lapse(i)
  PROVE LoginInv'
<1>1. live' \subseteq live /\ UNCHANGED <<jar, ids, logins, urls, spent, starter, born, blurred>>
  BY DEF Restart, Lapse
<1>2. faults' \in 0..MaxFaults /\ boot' \in Nat
  BY LoginConstants DEF Restart, Lapse, LoginInv, TypeOK
<1>3. tab' \in [Tabs -> TabStates] /\ \A t \in Tabs : tab'[t] \in {tab[t], Idle}
  BY IdleFacts DEF Restart, Lapse, LoginInv, TypeOK
<1>4. TypeOK'
  BY <1>1, <1>2, <1>3, FewerLive DEF LoginInv, TypeOK
<1>5. StateInv' /\ OwnLogin'
  BY <1>1, <1>3, IdleKeeps DEF LoginInv, StateInv, TabInv, Mine, Genuine, OwnLogin
<1>6. QED
  BY <1>4, <1>5 DEF LoginInv

LEMMA LoginInvariant == Spec => []LoginInv
<1>1. ASSUME LoginInv, [Next]_vars PROVE LoginInv'
  <2>1. CASE UNCHANGED vars
    BY <1>1, <2>1 DEF vars, LoginInv, TypeOK, StateInv, TabInv, Mine, Genuine, OwnLogin
  <2>2. CASE \E t \in Tabs : Browse(t)
    BY <1>1, <2>2, SendKeeps, StartKeeps, CallbacksKeep, LoseKeeps, DeliverKeeps DEF Browse
  <2>3. CASE \E t \in Tabs : Handle(t)
    BY <1>1, <2>3, CallbackKeeps, HandlersKeep, CreateKeeps DEF Handle
  <2>4. CASE Restart \/ \E i \in live : Lapse(i)
    BY <1>1, <2>4, EndsKeep
  <2>5. QED
    BY <1>1, <2>1, <2>2, <2>3, <2>4 DEF Next
<1>2. QED
  BY <1>1, LoginInitially, PTL DEF Spec

\* Cookies, tabs and sessions are well-formed and the cap on sessions holds, with any
\* number of browsers, tabs, logins and faults.
THEOREM LoginTypeCorrect == Spec => []TypeOK
<1>1. LoginInv => TypeOK
  BY DEF LoginInv
<1>2. QED
  BY <1>1, LoginInvariant, PTL

\* An OIDC login ends in the browser that started it, whichever callback URLs are
\* replayed where, and whatever overlaps, is lost or restarts.
THEOREM LoginsStayHome == Spec => []OwnLogin
<1>1. LoginInv => OwnLogin
  BY DEF LoginInv
<1>2. QED
  BY <1>1, LoginInvariant, PTL
-----------------------------------------------------------------------------
(***************************************************************************)
(* Sessions left behind.  A browser whose requests do not overlap has at     *)
(* most one tab at the backend.  What its cookie will be once that tab is    *)
(* done is known all along the handler, and names the only session of the    *)
(* browser that may still be in the store.                                   *)
(***************************************************************************)

\* Of the sessions created in browser b, at most session x is still there.
Held(b, x) == \A i \in live : born[i].browser = b => i = x

AtBackend(x, b) == x.browser = b /\ x.pc # "provider"

\* Of tab state x of browser b: what the store may hold of b at each point of a handler.
Tidy(x, b) ==
  /\ x.pc \in {"idle", "provider"} => Held(b, jar[b]["session"])
  /\ x.pc = "handle" => x.ck["session"] = jar[b]["session"] /\ Held(b, jar[b]["session"])
  /\ x.pc = "create" => Held(b, 0)
  /\ x.pc = "answer" => Held(b, IF x.set["session"] = Keep THEN jar[b]["session"] ELSE x.set["session"])

CleanInv ==
  \A b \in Browsers : ~blurred[b] =>
    /\ ~Busy(b) => Held(b, jar[b]["session"])
    /\ \A t, u \in Tabs : AtBackend(tab[t], b) /\ AtBackend(tab[u], b) => t = u
    /\ \A t \in Tabs : AtBackend(tab[t], b) => Tidy(tab[t], b)

\* A step of browser b in one tab concerns no other browser.
LEMMA CleanKeeps ==
  ASSUME LoginInv, CleanInv, NEW t \in Tabs, NEW b \in Browsers, NEW x \in TabStates,
         tab' = [tab EXCEPT ![t] = x],
         tab[t].browser \in {b, Nobody}, x.browser = b \/ (x.browser = Nobody /\ x.pc = "idle"),
         \A d \in Browsers \ {b} : jar'[d] = jar[d] /\ blurred'[d] = blurred[d],
         \A i \in live' : (i \in live /\ born'[i] = born[i]) \/ born'[i].browser = b,
         ~blurred'[b] => /\ ~blurred[b]
                         /\ \A u \in Tabs \ {t} : ~AtBackend(tab[u], b)
                         /\ Tidy(x, b)'
  PROVE CleanInv'
<1>1. tab'[t] = x /\ \A u \in Tabs \ {t} : tab'[u] = tab[u]
  BY DEF LoginInv, TypeOK
<1>2. SUFFICES ASSUME NEW d \in Browsers, ~blurred'[d]
               PROVE /\ ~Busy(d)' => Held(d, jar[d]["session"])'
                     /\ \A u, v \in Tabs : AtBackend(tab[u], d)' /\ AtBackend(tab[v], d)' => u = v
                     /\ \A u \in Tabs : AtBackend(tab[u], d)' => Tidy(tab[u], d)'
  BY DEF CleanInv
<1>3. CASE d = b
  <2>1. \A u \in Tabs : AtBackend(tab[u], d)' => u = t
    BY <1>1, <1>2, <1>3 DEF AtBackend
  <2>2. Tidy(tab[t], d)'
    BY <1>1, <1>2, <1>3 DEF Tidy, Held
  <2>3. ~Busy(d)' => x.pc \in {"idle", "provider"}
    BY <1>1, <1>3 DEF Busy
  <2>4. QED
    BY <1>1, <1>3, <2>1, <2>2, <2>3 DEF Tidy
<1>4. CASE d # b
  <2>1. d # Nobody /\ ~blurred[d] /\ jar'[d] = jar[d]
    BY <1>2, <1>4, LoginConstants
  <2>2. \A u \in Tabs : AtBackend(tab[u], d)' => u # t /\ AtBackend(tab[u], d) /\ tab'[u] = tab[u]
    BY <1>1, <1>4, <2>1 DEF AtBackend
  <2>3. \A y : Held(d, y) => Held(d, y)'
    BY <1>4 DEF Held
  <2>4. ~Busy(d)' => ~Busy(d)
    BY <1>1, <1>4, <2>1 DEF Busy
  <2>5. ASSUME NEW u \in Tabs, AtBackend(tab[u], d)' PROVE Tidy(tab[u], d)'
    <3>1. Tidy(tab[u], d) /\ tab'[u] = tab[u]
      BY <2>1, <2>2, <2>5 DEF CleanInv
    <3>2. PICK y, j : y = tab[u] /\ y = tab'[u] /\ j = jar[d] /\ j = jar'[d]
      BY <2>1, <3>1
    <3>3. QED
      BY <2>3, <3>1, <3>2 DEF Tidy
  <2>6. ~Busy(d)' => Held(d, jar[d]["session"])'
    <3>1. PICK y : y = jar[d]["session"] /\ y = jar'[d]["session"]
      BY <2>1
    <3>2. ~Busy(d) => Held(d, y)
      BY <2>1, <3>1 DEF CleanInv
    <3>3. QED
      BY <2>3, <2>4, <3>1, <3>2
  <2>7. QED
    BY <2>1, <2>2, <2>5, <2>6 DEF CleanInv
<1>5. QED
  BY <1>3, <1>4
\* A browser sends a request: the first step of a tab at the backend.
LEMMA LeaveKeeps ==
  ASSUME LoginInv, CleanInv, NEW t \in Tabs, NEW b \in Browsers, NEW x \in TabStates, NEW ck,
         tab' = [tab EXCEPT ![t] = x], tab[t].browser \in {b, Nobody}, Blur(b, ck),
         x.browser = b, x.pc \in {"handle", "answer"},
         x.pc = "handle" => x.ck["session"] = ck["session"],
         x.pc = "answer" => x.set["session"] = Keep,
         UNCHANGED <<jar, live, born>>
  PROVE CleanInv'
<1> DEFINE v == blurred[b] \/ Busy(b) \/ Withheld(b, ck)
<1>1. blurred'[b] = v /\ \A d \in Browsers \ {b} : blurred'[d] = blurred[d]
  BY DEF Blur, LoginInv, TypeOK
<1>2. ~blurred'[b] => ~blurred[b] /\ ~Busy(b) /\ jar[b]["session"] = ck["session"]
  BY <1>1 DEF Withheld
<1>3. ~blurred'[b] => Held(b, jar[b]["session"])
  BY <1>2 DEF CleanInv
<1>4. ~blurred'[b] => Tidy(x, b)'
  BY <1>2, <1>3 DEF Tidy, Held
<1>5. ~blurred'[b] => \A u \in Tabs \ {t} : ~AtBackend(tab[u], b)
  BY <1>2 DEF Busy, AtBackend
<1> HIDE DEF v
<1>6. QED
  BY <1>1, <1>2, <1>4, <1>5, CleanKeeps

\* A tab at the backend goes on, or is done.
LEMMA BackendKeeps ==
  ASSUME LoginInv, CleanInv, NEW t \in Tabs, NEW b \in Browsers, NEW x \in TabStates,
         tab[t].browser = b, tab[t].pc # "provider", tab' = [tab EXCEPT ![t] = x],
         x.browser = b \/ (x.browser = Nobody /\ x.pc = "idle"),
         \A d \in Browsers \ {b} : jar'[d] = jar[d], UNCHANGED blurred,
         \A i \in live' : (i \in live /\ born'[i] = born[i]) \/ born'[i].browser = b,
         Tidy(tab[t], b) => Tidy(x, b)'
  PROVE CleanInv'
<1>1. ~blurred[b] => /\ \A u \in Tabs \ {t} : ~AtBackend(tab[u], b)
                     /\ Tidy(tab[t], b)
  BY DEF CleanInv, AtBackend
<1>2. QED
  BY <1>1, CleanKeeps

\* The handlers that create no session: they end none but that of their cookie, and a
\* response that clears the cookie is sent only when that session is gone.
LEMMA AnswerClean ==
  ASSUME LoginInv, CleanInv, NEW t \in Tabs, NEW set \in {Same, SessionGone}, Answer(t, set),
         tab[t].pc \in {"handle", "create"}, live' \subseteq live,
         set = SessionGone => tab[t].pc = "handle" /\ tab[t].ck["session"] \notin live',
         UNCHANGED <<jar, born, blurred>>
  PROVE CleanInv'
<1>0. PICK b \in Browsers : b = tab[t].browser
  BY TabFacts
<1>1. PICK x : x = (IF set = Same THEN Idle
                    ELSE [Idle EXCEPT !.pc = "answer", !.browser = b, !.set = set])
  OBVIOUS
<1>2. tab[t].pc # "provider"
  OBVIOUS
<1>3. x \in TabStates /\ tab' = [tab EXCEPT ![t] = x]
  BY <1>0, <1>1, IdleFacts, CookieFacts DEF TabStates, Answer
<1>4. x.browser = b \/ (x.browser = Nobody /\ x.pc = "idle")
  BY <1>1, <1>3, IdleFacts DEF TabStates
<1>5. 0 \notin live
  BY DEF LoginInv, TypeOK
<1>6. ASSUME Tidy(tab[t], b) PROVE Tidy(x, b)'
  <2>1. PICK j : j = jar[b]["session"] /\ j = jar'[b]["session"]
    OBVIOUS
  <2>2. \A y : Held(b, y) => Held(b, y)'
    BY DEF Held
  <2>3. \A y : Held(b, 0) => Held(b, y)
    BY <1>5 DEF Held
  <2>4. Held(b, j)
    BY <1>6, <2>1, <2>3 DEF Tidy
  <2>5. CASE set = Same
    BY <1>1, <2>1, <2>2, <2>4, <2>5, IdleFacts DEF Tidy
  <2>6. CASE set # Same
    <3>1. x.pc = "answer" /\ x.set["session"] = 0 /\ set = SessionGone
      BY <1>1, <2>6, IdleFacts DEF Idle, SessionGone, Same, Cookies, TabStates
    <3>2. tab[t].ck["session"] = j /\ j \notin live'
      BY <1>6, <2>1, <3>1 DEF Tidy
    <3>3. Held(b, 0)'
      BY <2>2, <2>4, <3>2 DEF Held
    <3>4. QED
      BY <2>1, <3>1, <3>3 DEF Tidy, Keep
  <2>7. QED
    BY <2>1, <2>5, <2>6
<1>7. \A i \in live' : (i \in live /\ born'[i] = born[i]) \/ born'[i].browser = b
  OBVIOUS
<1>8. QED
  BY <1>0, <1>2, <1>3, <1>4, <1>6, <1>7, BackendKeeps
\* A login is accepted: the session its cookie names goes before another is created.
LEMMA AcceptedClean ==
  ASSUME LoginInv, CleanInv, NEW t \in Tabs, tab[t].pc = "handle", Accepted(t),
         UNCHANGED <<jar, born, blurred>>
  PROVE CleanInv'
<1>1. PICK b \in Browsers : b = tab[t].browser
  BY TabFacts
<1>2. PICK x : x = [tab[t] EXCEPT !.pc = "create", !.ck = [NoCookies EXCEPT !["session"] = 0]]
  OBVIOUS
<1>3. /\ x \in TabStates /\ x.pc = "create" /\ x.browser = b
  BY <1>1, <1>2, TabFacts, CookieFacts DEF TabStates, CookieJars, NoCookies
<1>4. tab' = [tab EXCEPT ![t] = x] /\ live' = live \ {tab[t].ck["session"]}
  BY <1>2 DEF Accepted, Goto, LoginInv, TypeOK
<1>5. Tidy(tab[t], b) => Tidy(x, b)'
  BY <1>3, <1>4 DEF Tidy, Held
<1>6. QED
  BY <1>1, <1>3, <1>4, <1>5, BackendKeeps

\* createSession gives the browser its only session.
LEMMA CreateClean ==
  ASSUME LoginInv, CleanInv, NEW t \in Tabs, CreateSession(t)
  PROVE CleanInv'
<1>1. PICK b \in Browsers : b = tab[t].browser
  BY TabFacts DEF CreateSession
<1>2. PICK i, c :
        /\ i = ids + 1
        /\ c = [k \in Cookies |-> IF k = "session" THEN i ELSE
                                   IF tab[t].kind = "callback" THEN 0 ELSE Keep]
        /\ Answer(t, c) /\ live' = live \cup {i}
        /\ born' = [born EXCEPT ![i] = [browser |-> b, login |-> tab[t].q.login]]
        /\ tab[t].pc = "create" /\ UNCHANGED <<jar, blurred>>
  BY <1>1 DEF CreateSession
<1>3. i \in 1..MaxStarts /\ i \in Nat /\ i # 0 /\ i \notin live
  BY <1>2, LoginConstants DEF CreateSession, LoginInv, TypeOK
<1>4. c \in [Cookies -> Nat \cup {Keep}] /\ c["session"] = i /\ c # Same
  BY <1>2, <1>3, CookieFacts DEF Keep, Same
<1>5. PICK x : x = [Idle EXCEPT !.pc = "answer", !.browser = b, !.set = c]
  OBVIOUS
<1>6. x \in TabStates /\ x.pc = "answer" /\ x.browser = b /\ x.set["session"] = i
  BY <1>4, <1>5, IdleFacts DEF TabStates
<1>7. tab' = [tab EXCEPT ![t] = x]
  BY <1>1, <1>2, <1>4, <1>5 DEF Answer
<1>8. born'[i].browser = b /\ \A m \in live : born'[m] = born[m]
  BY <1>2, <1>3 DEF LoginInv, TypeOK
<1>9. Tidy(tab[t], b) => Tidy(x, b)'
  <2>1. SUFFICES ASSUME Tidy(tab[t], b) PROVE Held(b, i)'
    BY <1>3, <1>6 DEF Tidy, Keep
  <2>2. Held(b, 0) /\ 0 \notin live
    BY <1>2, <2>1 DEF Tidy, LoginInv, TypeOK
  <2>3. QED
    BY <1>2, <1>8, <2>2 DEF Held
<1>10. QED
  BY <1>1, <1>2, <1>6, <1>7, <1>8, <1>9, BackendKeeps

\* The response arrives, and with it the cookie of the session that is left.
LEMMA DeliverClean ==
  ASSUME LoginInv, CleanInv, NEW t \in Tabs, Deliver(t)
  PROVE CleanInv'
<1>1. PICK b \in Browsers : b = tab[t].browser
  BY TabFacts DEF Deliver
<1>2. PICK c, x :
        /\ c = [k \in Cookies |-> IF tab[t].set[k] = Keep THEN jar[b][k] ELSE tab[t].set[k]]
        /\ x = (IF tab[t].q # NoURL
                THEN [Idle EXCEPT !.pc = "provider", !.browser = b, !.q = tab[t].q] ELSE Idle)
        /\ tab' = [tab EXCEPT ![t] = x] /\ jar' = [jar EXCEPT ![b] = c]
        /\ tab[t].pc = "answer" /\ UNCHANGED <<live, born, blurred>>
  BY <1>1 DEF Deliver
<1>3. x \in TabStates /\ ((x.browser = b /\ x.pc = "provider") \/ (x.browser = Nobody /\ x.pc = "idle"))
  <2>1. tab[t].q \in CallbackURLs
    BY <1>2, TabFacts DEF TabStates
  <2>2. CASE tab[t].q = NoURL
    BY <1>2, <2>2, IdleFacts
  <2>3. CASE tab[t].q # NoURL
    <3>1. x = [Idle EXCEPT !.pc = "provider", !.browser = b, !.q = tab[t].q]
      BY <1>2, <2>3
    <3>2. x \in TabStates
      BY <2>1, <3>1, IdleFacts DEF TabStates
    <3>3. x.browser = b /\ x.pc = "provider"
      BY <3>1 DEF Idle
    <3>4. QED
      BY <3>2, <3>3
  <2>4. QED
    BY <2>2, <2>3
<1>4. /\ jar'[b] = c /\ \A d \in Browsers \ {b} : jar'[d] = jar[d]
      /\ c["session"] = IF tab[t].set["session"] = Keep THEN jar[b]["session"] ELSE tab[t].set["session"]
  BY <1>2, CookieFacts DEF LoginInv, TypeOK
<1>5. Tidy(tab[t], b) => Tidy(x, b)'
  BY <1>2, <1>3, <1>4 DEF Tidy, Held
<1>6. QED
  BY <1>1, <1>2, <1>3, <1>4, <1>5, BackendKeeps

\* A lost response blurs its browser; leaving the provider's page changes no session.
LEMMA LoseClean ==
  ASSUME LoginInv, CleanInv, NEW t \in Tabs, Lose(t) \/ Abandon(t)
  PROVE CleanInv'
<1>1. PICK b \in Browsers : b = tab[t].browser
  BY TabFacts DEF Lose, Abandon
<1>2. tab' = [tab EXCEPT ![t] = Idle] /\ UNCHANGED <<jar, live, born>>
  BY DEF Lose, Abandon
<1>3. CASE Lose(t)
  <2>1. blurred'[b] /\ \A d \in Browsers \ {b} : blurred'[d] = blurred[d]
    BY <1>1, <1>3 DEF Lose, LoginInv, TypeOK
  <2>2. QED
    BY <1>1, <1>2, <2>1, IdleFacts, CleanKeeps
<1>4. CASE Abandon(t)
  <2>1. UNCHANGED blurred /\ tab[t].pc = "provider"
    BY <1>4 DEF Abandon
  <2>2. tab'[t] = Idle /\ \A u \in Tabs \ {t} : tab'[u] = tab[u]
    BY <1>2 DEF LoginInv, TypeOK
  <2>3. \A u \in Tabs, d \in Browsers : AtBackend(tab[u], d)' <=> AtBackend(tab[u], d)
    BY <2>1, <2>2, IdleFacts, LoginConstants DEF AtBackend
  <2>4. \A u \in Tabs, d \in Browsers : AtBackend(tab[u], d)' => tab'[u] = tab[u]
    BY <2>2, IdleFacts, LoginConstants DEF AtBackend
  <2>5. \A d \in Browsers : Busy(d)' <=> Busy(d)
    BY <2>3 DEF Busy, AtBackend
  <2>6. QED
    BY <1>2, <2>1, <2>3, <2>4, <2>5 DEF CleanInv, Tidy, Held
<1>5. QED
  BY <1>3, <1>4

\* Sessions that end by themselves, and a restart, leave fewer sessions behind.
LEMMA EndsClean ==
  ASSUME LoginInv, CleanInv, Restart \/ \E i \in live : Lapse(i)
  PROVE CleanInv'
<1>1. UNCHANGED <<jar, born, blurred>> /\ live' \subseteq live
  BY DEF Restart, Lapse
<1>2. CASE \E i \in live : Lapse(i)
  BY <1>1, <1>2 DEF Lapse, CleanInv, Tidy, Held, AtBackend, Busy
<1>3. CASE Restart
  <2>1. live' = {} /\ \A t \in Tabs : tab'[t] = tab[t] \/ (tab'[t] = Idle /\ tab[t].pc \in {"handle", "create"})
    BY <1>3 DEF Restart, LoginInv, TypeOK, TabStates
  <2>2. \A t \in Tabs, b \in Browsers : AtBackend(tab[t], b)' => AtBackend(tab[t], b) /\ tab'[t] = tab[t]
    BY <2>1, IdleFacts, LoginConstants DEF AtBackend
  <2>3. ASSUME NEW t \in Tabs, NEW b \in Browsers, ~blurred[b], AtBackend(tab[t], b)'
        PROVE  Tidy(tab[t], b)'
    BY <1>1, <2>1, <2>2, <2>3 DEF CleanInv, Tidy, Held
  <2>4. QED
    BY <1>1, <2>1, <2>2, <2>3 DEF CleanInv, Held
<1>4. QED
  BY <1>2, <1>3

LEMMA CleanStep == LoginInv /\ CleanInv /\ [Next]_vars => CleanInv'
<1> SUFFICES ASSUME LoginInv, CleanInv, [Next]_vars PROVE CleanInv'
  OBVIOUS
<1>1. ASSUME NEW t \in Tabs, NEW b \in Browsers, NEW kind \in {"login", "logout", "api"},
             NEW h \in Sources, Send(t, b, kind, h)
      PROVE  CleanInv'
  <2>1. PICK ck, x : /\ ck = SentCookies(b, h)
                     /\ x = [Idle EXCEPT !.pc = "handle", !.browser = b, !.kind = kind,
                                         !.page = h.page, !.ck = ck]
    OBVIOUS
  <2>2. ck \in CookieJars /\ h.page \in Pages \cup {"none"}
    BY <2>1, CookieFacts DEF SentCookies, SessionCookie, NoCookies, CookieJars, LoginInv, TypeOK, Sources
  <2>3. x \in TabStates /\ x.pc = "handle" /\ x.browser = b /\ x.ck = ck
    BY <2>1, <2>2, IdleFacts DEF TabStates
  <2>4. tab[t].browser = Nobody
    BY <1>1 DEF Send, LoginInv, StateInv, TabInv
  <2>5. tab' = [tab EXCEPT ![t] = x] /\ Blur(b, ck) /\ UNCHANGED <<jar, live, born>>
    BY <1>1, <2>1 DEF Send
  <2>6. QED
    BY <2>3, <2>4, <2>5, LeaveKeeps
<1>2. ASSUME NEW t \in Tabs, NEW b \in Browsers, OAuth2Login(t, b) PROVE CleanInv'
  <2>1. PICK n, u, c, x :
          /\ n = logins + 1
          /\ u = [login |-> n, state |-> 2 * n - 1, nonce |-> 2 * n]
          /\ c = [Same EXCEPT !["state"] = u.state, !["secret"] = boot, !["nonce"] = u.nonce]
          /\ x = [Idle EXCEPT !.pc = "answer", !.browser = b, !.q = u, !.set = c]
          /\ tab' = [tab EXCEPT ![t] = x] /\ Blur(b, jar[b]) /\ UNCHANGED <<jar, live, born>>
    BY <1>2 DEF OAuth2Login, GenNonce
  <2>2. n \in Nat /\ n >= 1 /\ boot \in Nat
    BY <2>1, LoginConstants DEF LoginInv, TypeOK
  <2>3. u \in CallbackURLs
    BY <2>1, <2>2 DEF CallbackURLs
  <2>4. c \in [Cookies -> Nat \cup {Keep}] /\ c["session"] = Keep
    BY <2>1, <2>2, <2>3, CookieFacts DEF Same, Cookies, CallbackURLs
  <2>5. x \in TabStates /\ x.pc = "answer" /\ x.browser = b /\ x.set = c
    <3>1. x = [Idle EXCEPT !.pc = "answer", !.browser = b, !.q = u, !.set = c]
      BY <2>1
    <3>2. QED
      BY <2>3, <2>4, <3>1, IdleFacts DEF TabStates
  <2>6. tab[t].browser = Nobody
    BY <1>2 DEF OAuth2Login, LoginInv, StateInv, TabInv
  <2>7. tab' = [tab EXCEPT ![t] = x] /\ Blur(b, jar[b]) /\ UNCHANGED <<jar, live, born>>
    BY <2>1
  <2>8. x.pc # "handle" /\ x.set["session"] = Keep
    BY <2>4, <2>5
  <2>9. QED
    BY <2>5, <2>6, <2>7, <2>8, LeaveKeeps
<1>3. ASSUME NEW t \in Tabs,
             \/ Authenticate(t)
             \/ \E b \in Browsers, page \in Pages, u \in urls : OpenCallback(t, b, page, u)
      PROVE  CleanInv'
  <2>1. PICK b \in Browsers, page \in Pages, u \in CallbackURLs :
          Callback(t, b, page, u) /\ tab[t].browser \in {b, Nobody}
    BY <1>3, CallbackSources
  <2>2. PICK ck, x : /\ ck = [jar[b] EXCEPT !["session"] = SessionCookie(b, page, TRUE)]
                     /\ x = [Idle EXCEPT !.pc = "handle", !.browser = b, !.kind = "callback",
                                         !.page = page, !.ck = ck, !.q = u]
    OBVIOUS
  <2>a. ck \in CookieJars
    BY <2>2, CallbackCookies
  <2>3. x \in TabStates /\ x.pc = "handle" /\ x.browser = b /\ x.ck = ck
    BY <2>2, <2>a, IdleFacts DEF TabStates
  <2>4. tab' = [tab EXCEPT ![t] = x] /\ Blur(b, ck) /\ UNCHANGED <<jar, live, born>>
    BY <2>1, <2>2 DEF Callback
  <2>5. QED
    BY <2>1, <2>3, <2>4, LeaveKeeps
<1>4. ASSUME NEW t \in Tabs, OAuth2Callback(t) PROVE CleanInv'
  BY <1>4, AcceptedClean, AnswerClean DEF OAuth2Callback, Same, SessionGone, Cookies, Keep
<1>5. ASSUME NEW t \in Tabs, Login(t) PROVE CleanInv'
  BY <1>5, AcceptedClean DEF Login
<1>6. Same # SessionGone
  BY DEF Same, SessionGone, Cookies, Keep
<1>7. ASSUME NEW t \in Tabs, Refuse(t) \/ CreateFails(t) PROVE CleanInv'
  BY <1>6, <1>7, AnswerClean DEF Refuse, CreateFails
<1>8. ASSUME NEW t \in Tabs, Resolve(t) \/ Unauthorized(t) \/ Logout(t) PROVE CleanInv'
  BY <1>6, <1>8, AnswerClean DEF Resolve, Unauthorized, Logout
<1>9. CASE UNCHANGED vars
  BY <1>9 DEF vars, CleanInv, Tidy, Held, AtBackend, Busy
<1>10. QED
  BY <1>1, <1>2, <1>3, <1>4, <1>5, <1>7, <1>8, <1>9, CreateClean, DeliverClean, LoseClean, EndsClean
     DEF Next, Browse, Handle

\* A browser whose requests do not overlap, whose responses arrive and whose cookie is not
\* withheld never leaves a session behind in the store (createSession, Logout, Resolve).
THEOREM NothingLeftBehind == Spec => []NoSessionLeftBehind
<1>1. Init => CleanInv
  BY IdleFacts, LoginConstants DEF Init, CleanInv, Held, AtBackend
<1>2. CleanInv => NoSessionLeftBehind
  BY DEF CleanInv, NoSessionLeftBehind, Held
<1>3. QED
  BY <1>1, <1>2, CleanStep, LoginInvariant, PTL DEF Spec
-----------------------------------------------------------------------------
(***************************************************************************)
(* Pages.  A session cookie names a session of the browser that holds it, a  *)
(* request of a page of another site carries none, and a login with a         *)
(* password or a token comes from the UI.                                    *)
(***************************************************************************)

\* A session cookie that browser b holds, sends or is about to be given names a session
\* that was created in b.
Ours(b, x) == x \in {0, Keep} \/ (x \in 1..ids /\ born[x].browser = b)

TabPage(x) ==
  /\ Ours(x.browser, x.ck["session"]) /\ Ours(x.browser, x.set["session"])
  /\ x.page = "foreign" => x.ck["session"] = 0
  /\ x.pc \in {"handle", "create"} /\ x.kind = "login" => x.page = "own"
  /\ x.pc = "create" => x.kind = "login" \/ (x.kind = "callback" /\ x.q # NoURL)

PageInv ==
  /\ \A b \in Browsers : Ours(b, jar[b]["session"])
  /\ \A t \in Tabs : TabPage(tab[t])

\* A tab that waits for nothing, or for a response that leaves the session cookie alone or
\* clears it.
LEMMA PassivePage ==
  ASSUME NEW x \in TabStates, x.pc \notin {"handle", "create"}, x.page = "none",
         x.ck["session"] = 0, x.set["session"] \in {0, Keep}
  PROVE TabPage(x)
  BY DEF TabPage, Ours

LEMMA SessionFacts ==
  /\ NoCookies["session"] = 0 /\ Same["session"] = Keep /\ SessionGone["session"] = 0
  /\ Idle.page = "none" /\ Idle.kind = "none"
  BY DEF Cookies, NoCookies, Same, SessionGone, Idle

LEMMA IdlePage == TabPage(Idle)
  BY PassivePage, SessionFacts, IdleFacts

\* Most steps move one tab on and create no session.
LEMMA PageKeeps ==
  ASSUME LoginInv, PageInv, NEW t \in Tabs, NEW x, TabPage(x),
         tab' = [tab EXCEPT ![t] = x], UNCHANGED <<jar, ids, born>>
  PROVE PageInv'
<1>1. tab'[t] = x /\ \A u \in Tabs \ {t} : tab'[u] = tab[u]
  BY DEF LoginInv, TypeOK
<1>2. QED
  BY <1>1 DEF PageInv, TabPage, Ours

\* A handler returns without having created a session.
LEMMA AnswerPage ==
  ASSUME LoginInv, PageInv, NEW t \in Tabs, tab[t].pc # "idle", NEW set \in {Same, SessionGone},
         Answer(t, set), UNCHANGED <<jar, ids, born>>
  PROVE PageInv'
<1>1. PICK x : x = (IF set = Same THEN Idle
                    ELSE [Idle EXCEPT !.pc = "answer", !.browser = tab[t].browser, !.set = set])
  OBVIOUS
<1>2. TabPage(x)
  <2>1. CASE set = Same
    BY <1>1, <2>1, IdlePage
  <2>2. CASE set # Same
    <3>1. x = [Idle EXCEPT !.pc = "answer", !.browser = tab[t].browser, !.set = set]
      BY <1>1, <2>2
    <3>2. x \in TabStates
      BY <3>1, TabFacts, IdleFacts, CookieFacts DEF TabStates
    <3>3. x.pc = "answer" /\ x.page = "none" /\ x.ck = NoCookies /\ x.set = set
      BY <3>1, IdleFacts, SessionFacts DEF TabStates
    <3>4. QED
      BY <3>2, <3>3, SessionFacts, PassivePage
  <2>3. QED
    BY <2>1, <2>2
<1>3. tab' = [tab EXCEPT ![t] = x]
  BY <1>1 DEF Answer
<1>4. QED
  BY <1>2, <1>3, PageKeeps

\* A login is accepted.
LEMMA AcceptedPage ==
  ASSUME LoginInv, PageInv, NEW t \in Tabs, tab[t].pc = "handle", Accepted(t),
         tab[t].kind = "login" \/ (tab[t].kind = "callback" /\ tab[t].q # NoURL),
         UNCHANGED <<jar, ids, born>>
  PROVE PageInv'
<1>1. PICK x : x = [tab[t] EXCEPT !.pc = "create", !.ck = [NoCookies EXCEPT !["session"] = 0]]
  OBVIOUS
<1>2. /\ x.pc = "create" /\ x.kind = tab[t].kind /\ x.page = tab[t].page /\ x.q = tab[t].q
      /\ x.set = tab[t].set /\ x.browser = tab[t].browser /\ x.ck["session"] = 0
  BY <1>1, TabFacts, CookieFacts DEF TabStates, NoCookies
<1>3. TabPage(tab[t])
  BY DEF PageInv
<1>4. TabPage(x)
  BY <1>2, <1>3 DEF TabPage, Ours
<1>5. tab' = [tab EXCEPT ![t] = x]
  BY <1>1 DEF Accepted, Goto, LoginInv, TypeOK
<1>6. QED
  BY <1>4, <1>5, PageKeeps

\* The gate lets a POST of credentials through for the UI only.
LEMMA GateKeepsOut ==
  ASSUME NEW h \in Sources, NEW ck, ~h.nav, Gate("login", h, ck)
  PROVE h.page = "own"
<1>1. h.page \in {"own", "sibling", "foreign"} /\ h.modern \in BOOLEAN /\ CheckCrossOrigin(h, FALSE)
  BY DEF Sources, Pages, Gate
<1>2. QED
  BY <1>1 DEF CheckCrossOrigin, Site, Origin

\* Requests leave the browsers with the cookies they may carry.
LEMMA LeavePage ==
  ASSUME LoginInv, PageInv, NEW t \in Tabs, Browse(t), ~Deliver(t)
  PROVE PageInv'
<1>1. ASSUME NEW b \in Browsers, NEW page, NEW nav
      PROVE  /\ SessionCookie(b, page, nav) \in Nat /\ Ours(b, SessionCookie(b, page, nav))
             /\ page = "foreign" => SessionCookie(b, page, nav) = 0
  <2>1. jar[b]["session"] \in Nat /\ Ours(b, jar[b]["session"])
    BY CookieFacts DEF LoginInv, TypeOK, CookieJars, PageInv
  <2>2. QED
    BY <2>1 DEF SessionCookie, Ours
<1>2. ASSUME NEW b \in Browsers, NEW kind \in {"login", "logout", "api"}, NEW h \in Sources,
             Send(t, b, kind, h)
      PROVE  PageInv'
  <2>1. PICK ck, x : /\ ck = SentCookies(b, h)
                     /\ x = [Idle EXCEPT !.pc = "handle", !.browser = b, !.kind = kind,
                                         !.page = h.page, !.ck = ck]
    OBVIOUS
  <2>2. ck["session"] = SessionCookie(b, h.page, h.nav)
    BY <2>1, CookieFacts DEF SentCookies, NoCookies
  <2>3. x.pc = "handle" /\ x.browser = b /\ x.kind = kind /\ x.page = h.page /\ x.ck = ck /\ x.set = Same
    BY <2>1 DEF Idle
  <2>4. kind = "login" => h.page = "own"
    BY <1>2, GateKeepsOut DEF Send
  <2>5. TabPage(x)
    BY <1>1, <2>2, <2>3, <2>4, SessionFacts DEF TabPage, Ours
  <2>6. tab' = [tab EXCEPT ![t] = x] /\ UNCHANGED <<jar, ids, born>>
    BY <1>2, <2>1 DEF Send
  <2>7. QED
    BY <2>5, <2>6, PageKeeps
<1>3. ASSUME NEW b \in Browsers, OAuth2Login(t, b) PROVE PageInv'
  <2>1. PICK u, c, x : /\ c["session"] = Keep
                       /\ x = [Idle EXCEPT !.pc = "answer", !.browser = b, !.q = u, !.set = c]
                       /\ tab' = [tab EXCEPT ![t] = x] /\ UNCHANGED <<jar, ids, born>>
    <3>1. PICK u, c : /\ c = [Same EXCEPT !["state"] = u.state, !["secret"] = boot, !["nonce"] = u.nonce]
                      /\ tab' = [tab EXCEPT ![t] =
                                  [Idle EXCEPT !.pc = "answer", !.browser = b, !.q = u, !.set = c]]
                      /\ UNCHANGED <<jar, ids, born>>
      BY <1>3 DEF OAuth2Login
    <3>2. c["session"] = Keep
      BY <3>1 DEF Same, Cookies
    <3>3. QED
      BY <3>1, <3>2
  <2>2. x.pc = "answer" /\ x.page = "none" /\ x.set = c /\ x.ck = NoCookies
    BY <2>1 DEF Idle
  <2>3. TabPage(x)
    BY <2>1, <2>2, SessionFacts DEF TabPage, Ours
  <2>4. QED
    BY <2>1, <2>3, PageKeeps
<1>4. ASSUME \/ Authenticate(t)
             \/ \E b \in Browsers, page \in Pages, u \in urls : OpenCallback(t, b, page, u)
      PROVE  PageInv'
  <2>1. PICK b \in Browsers, page \in Pages, u \in CallbackURLs : Callback(t, b, page, u)
    BY <1>4, CallbackSources
  <2>2. PICK ck, x : /\ ck = [jar[b] EXCEPT !["session"] = SessionCookie(b, page, TRUE)]
                     /\ x = [Idle EXCEPT !.pc = "handle", !.browser = b, !.kind = "callback",
                                         !.page = page, !.ck = ck, !.q = u]
    OBVIOUS
  <2>3. ck["session"] = SessionCookie(b, page, TRUE)
    BY <2>2, CallbackCookies
  <2>4. /\ x.pc = "handle" /\ x.browser = b /\ x.kind = "callback" /\ x.page = page /\ x.ck = ck
        /\ x.set = Same
    BY <2>2 DEF Idle
  <2>5. TabPage(x)
    <3>1. Ours(b, ck["session"]) /\ (page = "foreign" => ck["session"] = 0)
      BY <1>1, <2>3
    <3>2. Ours(b, x.set["session"])
      BY <2>4, SessionFacts DEF Ours
    <3>3. QED
      BY <2>4, <3>1, <3>2 DEF TabPage
  <2>6. tab' = [tab EXCEPT ![t] = x] /\ UNCHANGED <<jar, ids, born>>
    BY <2>1, <2>2 DEF Callback
  <2>7. QED
    BY <2>5, <2>6, PageKeeps
<1>5. ASSUME Lose(t) \/ Abandon(t) PROVE PageInv'
  BY <1>5, IdlePage, PageKeeps DEF Lose, Abandon
<1>6. QED
  BY <1>2, <1>3, <1>4, <1>5 DEF Browse

\* A response arrives.
LEMMA DeliverPage ==
  ASSUME LoginInv, PageInv, NEW t \in Tabs, Deliver(t)
  PROVE PageInv'
<1>1. PICK b \in Browsers : b = tab[t].browser
  BY TabFacts DEF Deliver
<1>2. PICK c, x :
        /\ c = [k \in Cookies |-> IF tab[t].set[k] = Keep THEN jar[b][k] ELSE tab[t].set[k]]
        /\ x = (IF tab[t].q # NoURL
                THEN [Idle EXCEPT !.pc = "provider", !.browser = b, !.q = tab[t].q] ELSE Idle)
        /\ tab' = [tab EXCEPT ![t] = x] /\ jar' = [jar EXCEPT ![b] = c] /\ UNCHANGED <<ids, born>>
  BY <1>1 DEF Deliver
<1>3. Ours(b, c["session"])
  BY <1>1, <1>2, CookieFacts DEF PageInv, TabPage
<1>4. TabPage(x)
  <2>1. CASE tab[t].q = NoURL
    BY <1>2, <2>1, IdlePage
  <2>2. CASE tab[t].q # NoURL
    <3>1. x.pc = "provider" /\ x.page = "none" /\ x.ck = NoCookies /\ x.set = Same
      BY <1>2, <2>2 DEF Idle
    <3>2. QED
      BY <3>1, SessionFacts DEF TabPage, Ours
  <2>3. QED
    BY <2>1, <2>2
<1>5. /\ tab'[t] = x /\ \A u \in Tabs \ {t} : tab'[u] = tab[u]
      /\ jar'[b] = c /\ \A d \in Browsers \ {b} : jar'[d] = jar[d]
  BY <1>2 DEF LoginInv, TypeOK
<1>6. \A d, y : Ours(d, y) <=> Ours(d, y)'
  BY <1>2 DEF Ours
<1>7. ASSUME NEW d \in Browsers PROVE Ours(d, jar[d]["session"])'
  BY <1>3, <1>5, <1>6 DEF PageInv, Ours
<1>8. ASSUME NEW u \in Tabs PROVE TabPage(tab[u])'
  <2>1. PICK y : y = tab'[u] /\ TabPage(y)
    BY <1>4, <1>5 DEF PageInv
  <2>2. TabPage(y)'
    BY <1>6, <2>1 DEF TabPage
  <2>3. QED
    BY <2>1, <2>2
<1>9. QED
  BY <1>7, <1>8 DEF PageInv

\* createSession: the new session, and the cookie that names it, are of the same browser.
LEMMA CreatePage ==
  ASSUME LoginInv, PageInv, NEW t \in Tabs, CreateSession(t)
  PROVE PageInv'
<1>1. PICK b \in Browsers : b = tab[t].browser
  BY TabFacts DEF CreateSession
<1>2. PICK i, c :
        /\ i = ids + 1
        /\ c = [k \in Cookies |-> IF k = "session" THEN i ELSE
                                   IF tab[t].kind = "callback" THEN 0 ELSE Keep]
        /\ Answer(t, c) /\ ids' = i
        /\ born' = [born EXCEPT ![i] = [browser |-> b, login |-> tab[t].q.login]]
        /\ UNCHANGED jar
  BY <1>1 DEF CreateSession
<1>3. i \in 1..MaxStarts /\ i \in Nat /\ i \notin 1..ids /\ i \in 1..ids' /\ 1..ids \subseteq 1..ids'
  BY <1>2, LoginConstants DEF CreateSession, LoginInv, TypeOK
<1>4. born'[i].browser = b /\ \A m \in 1..ids : born'[m] = born[m]
  BY <1>2, <1>3, LoginConstants DEF LoginInv, TypeOK
<1>5. \A d, y : Ours(d, y) => Ours(d, y)'
  BY <1>3, <1>4 DEF Ours
<1>6. c["session"] = i /\ c # Same
  BY <1>2, <1>3, CookieFacts DEF Keep, Same
<1>7. PICK x : x = [Idle EXCEPT !.pc = "answer", !.browser = b, !.set = c]
  OBVIOUS
<1>8. x.pc = "answer" /\ x.page = "none" /\ x.browser = b /\ x.set = c /\ x.ck = NoCookies
  BY <1>7 DEF Idle
<1>9. TabPage(x)'
  BY <1>3, <1>4, <1>6, <1>8, SessionFacts DEF TabPage, Ours
<1>10. tab' = [tab EXCEPT ![t] = x]
  BY <1>1, <1>2, <1>6, <1>7 DEF Answer
<1>11. tab'[t] = x /\ \A u \in Tabs \ {t} : tab'[u] = tab[u]
  BY <1>10 DEF LoginInv, TypeOK
<1>12. ASSUME NEW u \in Tabs, u # t PROVE TabPage(tab[u])'
  <2>1. PICK y : y = tab[u] /\ y = tab'[u]
    BY <1>11, <1>12
  <2>2. TabPage(y)
    BY <2>1 DEF PageInv
  <2>3. TabPage(y)'
    BY <1>5, <2>2 DEF TabPage
  <2>4. QED
    BY <2>1, <2>3
<1>13. ASSUME NEW d \in Browsers PROVE Ours(d, jar[d]["session"])'
  <2>1. PICK y : y = jar[d]["session"] /\ y = jar'[d]["session"]
    BY <1>2
  <2>2. Ours(d, y)
    BY <2>1 DEF PageInv
  <2>3. QED
    BY <1>5, <2>1, <2>2
<1>14. QED
  BY <1>9, <1>11, <1>12, <1>13 DEF PageInv

LEMMA PageStep == LoginInv /\ PageInv /\ [Next]_vars => PageInv'
<1> SUFFICES ASSUME LoginInv, PageInv, [Next]_vars PROVE PageInv'
  OBVIOUS
<1>1. ASSUME NEW t \in Tabs, Handle(t) PROVE PageInv'
  <2>1. CASE CreateSession(t)
    BY <2>1, CreatePage
  <2>2. CASE Refuse(t) \/ CreateFails(t) \/ Resolve(t) \/ Unauthorized(t) \/ Logout(t)
    BY <2>2, AnswerPage DEF Refuse, CreateFails, Resolve, Unauthorized, Logout
  <2>3. CASE Login(t)
    BY <2>3, AcceptedPage DEF Login
  <2>4. CASE OAuth2Callback(t)
    <3>1. tab[t].q # NoURL
      BY <2>4 DEF OAuth2Callback, StateMatches, NoURL
    <3>2. QED
      BY <2>4, <3>1, AcceptedPage, AnswerPage DEF OAuth2Callback
  <2>5. QED
    BY <1>1, <2>1, <2>2, <2>3, <2>4 DEF Handle
<1>2. CASE Restart \/ (\E i \in live : Lapse(i))
  <2>1. (\A t \in Tabs : tab'[t] \in {tab[t], Idle}) /\ UNCHANGED <<jar, ids, born>>
    BY <1>2 DEF Restart, Lapse, LoginInv, TypeOK
  <2>2. QED
    BY <2>1, IdlePage DEF PageInv, TabPage, Ours
<1>3. CASE UNCHANGED vars
  BY <1>3 DEF vars, PageInv, TabPage, Ours
<1>4. QED
  BY <1>1, <1>2, <1>3, LeavePage, DeliverPage DEF Next

\* What a handler ends and creates.
LEMMA HandlerPowers ==
  ASSUME LoginInv, PageInv, NEW t \in Tabs, Handle(t)
  PROVE /\ \A i \in live \ live' : born[i].browser = tab[t].browser /\ tab[t].page # "foreign"
        /\ live' \ live # {} /\ tab[t].page # "own" =>
             tab[t].kind = "callback" /\ starter[tab[t].q.login] = tab[t].browser
<1>1. TabPage(tab[t]) /\ TabInv(tab[t])
  BY DEF PageInv, LoginInv, StateInv
<1>2. CASE CreateSession(t)
  BY <1>1, <1>2 DEF CreateSession, TabPage, TabInv
<1>3. CASE ~CreateSession(t)
  <2>1. live' \subseteq live /\ live \ live' \subseteq {tab[t].ck["session"]}
    BY <1>3 DEF Handle, OAuth2Callback, Refuse, Login, CreateFails, Resolve, Unauthorized, Logout, Accepted
  <2>2. \A i \in live : i # 0 /\ i # Keep
    BY DEF LoginInv, TypeOK, Keep
  <2>3. QED
    BY <1>1, <2>1, <2>2 DEF TabPage, Ours
<1>4. QED
  BY <1>2, <1>3

\* No request ends a session of another browser; one of a page of another site ends none,
\* and from outside the UI a session is created only by an OIDC login that this browser has
\* started (checkCrossOrigin, SameSite, OAuth2Callback).
THEOREM OutsidersAreContained == Spec => OutsidersContained
<1>1. ASSUME LoginInv, PageInv, [Next]_vars, NEW t \in Tabs, tab'[t] # tab[t], boot' = boot
      PROVE  /\ \A i \in live \ live' : born[i].browser = tab[t].browser /\ tab[t].page # "foreign"
             /\ live' \ live # {} /\ tab[t].page # "own" =>
                  tab[t].kind = "callback" /\ starter[tab[t].q.login] = tab[t].browser
  <2>1. ~Restart
    BY <1>1 DEF Restart, LoginInv, TypeOK
  <2>2. \A i \in live : ~Lapse(i)
    BY <1>1 DEF Lapse
  <2>3. (\E u \in Tabs : Browse(u)) => live' = live
    BY DEF Browse, Send, OAuth2Login, OpenCallback, Callback, Authenticate, Abandon, Deliver, Lose
  <2>4. ASSUME NEW u \in Tabs, Handle(u) PROVE u = t
    BY <1>1, <2>4 DEF Handle, OAuth2Callback, Refuse, Login, CreateSession, CreateFails, Resolve,
       Unauthorized, Logout, Answer, Accepted, Goto, LoginInv, TypeOK
  <2>5. Handle(t) \/ live' = live
    BY <1>1, <2>1, <2>2, <2>3, <2>4 DEF Next, vars
  <2>6. QED
    BY <1>1, <2>5, HandlerPowers
<1>2. LoginInv /\ PageInv /\ [Next]_vars =>
        [\A t \in Tabs : tab'[t] # tab[t] /\ boot' = boot =>
           /\ \A i \in live \ live' : born[i].browser = tab[t].browser /\ tab[t].page # "foreign"
           /\ live' \ live # {} /\ tab[t].page # "own" =>
                tab[t].kind = "callback" /\ starter[tab[t].q.login] = tab[t].browser]_vars
  BY <1>1
<1>3. Init => PageInv
  <2>1. Init => \A b \in Browsers : Ours(b, jar[b]["session"])
    BY SessionFacts DEF Init, Ours
  <2>2. QED
    BY <2>1, IdlePage DEF Init, PageInv
<1>4. QED
  BY <1>2, <1>3, PageStep, LoginInvariant, PTL DEF Spec, OutsidersContained
=============================================================================
