--------------------------- MODULE UpstreamProofs ----------------------------
(* Proofs about Upstream.                                                   *)
EXTENDS Upstream, TLAPS

\* A generation stands for one bundle, wherever it has got to: the factory, the
\* session's cached transport, or a request that has read it.
GenerationInv ==
  /\ factory.gen <= factory.ca /\ (notified => factory.ca < loaded)
  /\ cached.gen <= factory.gen
  /\ cached.gen # 0 /\ cached.gen = factory.gen => cached.ca = factory.ca
  /\ \A r \in Requests :
       /\ req[r].pc = "factory" => req[r].floor <= factory.ca
       /\ req[r].pc = "transport" =>
            /\ req[r].gen \in 1..factory.gen /\ req[r].floor <= req[r].ca
            /\ req[r].gen = factory.gen => req[r].ca = factory.ca
            /\ req[r].gen = cached.gen => req[r].ca = cached.ca
            /\ \A q \in Requests :
                 req[q].pc = "transport" /\ req[q].gen = req[r].gen => req[q].ca = req[r].ca

\* What is sent, and a 401, while the session lasts, is about credentials it has held.
CredentialInv ==
  cred # 0 =>
    /\ cached.gen # 0 => cached.cred \in 1..cred
    /\ \A r \in Requests :
         /\ req[r].pc \in {"send", "proxied"} => req[r].cred \in 1..cred
         /\ req[r].pc = "401" => \E k \in 1..cred : k \in rejected

UpstreamInv == TypeOK /\ GenerationInv /\ NoStaleTrust /\ CredentialInv

LEMMA IdleFacts ==
  /\ Idle \in RequestStates /\ Idle.pc = "idle"
  /\ \A s \in {"401", "403"} :
       LET x == [Idle EXCEPT !.pc = s] IN x \in RequestStates /\ x.pc = s
  /\ NoTransport \in Transports /\ NoTransport.gen = 0
  BY UpstreamConstants DEF Idle, RequestStates, NoTransport, Transports

LEMMA UpstreamInitially == Init => UpstreamInv
<1> SUFFICES ASSUME Init PROVE UpstreamInv
  OBVIOUS
<1> USE UpstreamConstants, IdleFacts DEF Init
<1>1. TypeOK
  <2>1. notified \in BOOLEAN
    OBVIOUS
  <2>2. fwd \in [pc : {"none", "retry", "dial", "ready", "up"}, port : Ports \cup {0}, open : BOOLEAN]
    <3>1. PICK c \in {"none", "retry"} : fwd = [pc |-> c, port |-> 0, open |-> FALSE]
      OBVIOUS
    <3>2. QED
      BY <3>1
  <2>3. req \in [Requests -> RequestStates]
    OBVIOUS
  <2>4. QED
    BY <2>1, <2>2, <2>3 DEF TypeOK
<1>2. GenerationInv /\ NoStaleTrust /\ CredentialInv
  BY DEF GenerationInv, NoStaleTrust, CredentialInv
<1>3. QED
  BY <1>1, <1>2 DEF UpstreamInv

\* The CA bundle: generations never go back, and a new one is new.
LEMMA BundleKeeps ==
  ASSUME UpstreamInv, Rotate \/ Load \/ UpdateClientFactory \/ UpdateFails
  PROVE UpstreamInv'
<1> USE UpstreamConstants DEF UpstreamInv
<1>1. UNCHANGED <<host, fwd, cred, cached, rejected, req>>
  BY DEF Rotate, Load, UpdateClientFactory, UpdateFails, hostVars, sessionVars
<1>2. NoStaleTrust' /\ CredentialInv'
  BY <1>1 DEF NoStaleTrust, CredentialInv
<1>3. CASE Rotate \/ Load \/ UpdateFails
  <2>1. factory' = factory /\ (notified' => factory.ca < loaded')
    BY <1>3 DEF Rotate, Load, UpdateFails, GenerationInv, TypeOK
  <2>2. GenerationInv'
    BY <1>1, <2>1 DEF GenerationInv
  <2>3. TypeOK'
    <3>1. notified' \in BOOLEAN
      BY <1>3 DEF Rotate, Load, UpdateFails, TypeOK
    <3>2. /\ bundle' \in 0..MaxBundles /\ loaded' \in 0..bundle' /\ failures' \in 0..MaxFailures
          /\ lost' \in 0..loaded'
          /\ factory' \in [ca : 0..loaded', gen : 0..MaxBundles]
      BY <1>3, <2>1 DEF Rotate, Load, UpdateFails, TypeOK
    <3>3. QED
      BY <1>1, <2>1, <3>1, <3>2 DEF TypeOK
  <2>4. QED
    BY <1>2, <2>2, <2>3
<1>4. CASE UpdateClientFactory
  <2>1. /\ factory.ca \in Nat /\ factory.gen \in Nat /\ loaded \in Nat /\ factory.ca < loaded
        /\ factory.gen <= factory.ca /\ loaded <= MaxBundles
    BY <1>4 DEF UpdateClientFactory, GenerationInv, TypeOK
  <2>2. factory'.ca = loaded /\ factory'.gen = factory.gen + 1 /\ ~notified'
    BY <1>4 DEF UpdateClientFactory
  <2>3. GenerationInv'
    BY <1>1, <2>1, <2>2 DEF GenerationInv, TypeOK, Transports, RequestStates
  <2>4. TypeOK'
    <3>1. notified' \in BOOLEAN /\ UNCHANGED <<bundle, loaded, failures, lost>>
      BY <1>4 DEF UpdateClientFactory, TypeOK
    <3>2. factory' \in [ca : 0..loaded, gen : 0..MaxBundles]
      BY <1>4, <2>1 DEF UpdateClientFactory
    <3>3. QED
      BY <1>1, <2>1, <2>2, <3>1, <3>2 DEF TypeOK
  <2>5. QED
    BY <1>2, <2>3, <2>4
<1>5. QED
  BY <1>3, <1>4

\* The port forward.
LEMMA ForwardKeeps ==
  ASSUME UpstreamInv, Dial \/ (\E p \in Ports : Ready(p)) \/ SetHost \/ Break \/ ClearHost
  PROVE UpstreamInv'
<1> USE DEF UpstreamInv
<1>1. UNCHANGED <<caVars, sessionVars, req>>
  BY DEF Dial, Ready, SetHost, Break, ClearHost
<1>2. host' \in Ports \cup {0, ServiceAddress}
  BY DEF Dial, Ready, SetHost, Break, ClearHost, TypeOK
<1>3. fwd' \in [pc : {"none", "retry", "dial", "ready", "up"}, port : Ports \cup {0}, open : BOOLEAN]
  <2> USE DEF TypeOK
  <2>1. CASE Dial \/ SetHost
    <3>1. PICK c \in {"dial", "up"} : fwd' = [fwd EXCEPT !.pc = c]
      BY <2>1 DEF Dial, SetHost
    <3>2. QED
      BY <3>1
  <2>2. CASE Break
    BY <2>2 DEF Break
  <2>3. CASE (\E p \in Ports : Ready(p)) \/ ClearHost
    <3>1. PICK c \in {"ready", "retry"}, p \in Ports \cup {0}, o \in BOOLEAN :
            fwd' = [pc |-> c, port |-> p, open |-> o]
      BY <2>3 DEF Ready, ClearHost
    <3>2. QED
      BY <3>1
  <2>4. QED
    BY <2>1, <2>2, <2>3
<1>4. TypeOK'
  BY <1>1, <1>2, <1>3 DEF TypeOK, caVars, sessionVars
<1>5. QED
  BY <1>1, <1>4 DEF caVars, sessionVars, GenerationInv, NoStaleTrust, CredentialInv

\* A request moves on, and nothing else changes.  Only GetClientFactory gives a
\* request a generation.
LEMMA RequestKeeps ==
  ASSUME UpstreamInv, NEW r \in Requests, NEW x \in RequestStates, req' = [req EXCEPT ![r] = x],
         UNCHANGED <<caVars, hostVars, sessionVars>>,
         x.pc \notin {"transport", "send"},
         x.pc = "factory" => x.floor <= factory.ca,
         cred # 0 /\ x.pc = "proxied" => x.cred \in 1..cred,
         cred # 0 /\ x.pc = "401" => \E k \in 1..cred : k \in rejected
  PROVE UpstreamInv'
<1> USE DEF UpstreamInv
<1>1. UNCHANGED <<bundle, loaded, notified, factory, failures, lost, host, fwd, cred, cached, rejected>>
  BY DEF caVars, hostVars, sessionVars
<1>2. /\ req' \in [Requests -> RequestStates] /\ req'[r] = x
      /\ \A q \in Requests \ {r} : req'[q] = req[q]
  BY DEF TypeOK
<1>3. TypeOK'
  BY <1>1, <1>2 DEF TypeOK
<1>4. GenerationInv'
  BY <1>1, <1>2 DEF GenerationInv
<1>5. NoStaleTrust' /\ CredentialInv'
  BY <1>1, <1>2 DEF NoStaleTrust, CredentialInv
<1>6. QED
  BY <1>3, <1>4, <1>5

\* An answer, or the end of a request.  A 401 tells of a credential the session held.
LEMMA AnswerKeeps ==
  ASSUME UpstreamInv, NEW r \in Requests,
         Done(r) \/ Answered(r, "403")
           \/ (Answered(r, "401") /\ (cred # 0 => \E k \in 1..cred : k \in rejected)),
         UNCHANGED <<caVars, hostVars, sessionVars>>
  PROVE UpstreamInv'
<1>1. CASE Done(r)
  BY <1>1, RequestKeeps, IdleFacts DEF Done
<1>2. CASE Answered(r, "403")
  <2> DEFINE x == [Idle EXCEPT !.pc = "403"]
  <2>1. x \in RequestStates /\ x.pc = "403"
    BY IdleFacts
  <2>2. req' = [req EXCEPT ![r] = x]
    BY <1>2 DEF Answered
  <2> HIDE DEF x
  <2>3. QED
    BY <2>1, <2>2, RequestKeeps
<1>3. CASE Answered(r, "401") /\ (cred # 0 => \E k \in 1..cred : k \in rejected)
  <2> DEFINE x == [Idle EXCEPT !.pc = "401"]
  <2>1. x \in RequestStates /\ x.pc = "401"
    BY IdleFacts
  <2>2. req' = [req EXCEPT ![r] = x]
    BY <1>3 DEF Answered
  <2> HIDE DEF x
  <2>3. QED
    BY <1>3, <2>1, <2>2, RequestKeeps
<1>4. QED
  BY <1>1, <1>2, <1>3

LEMMA GetHostKeeps ==
  ASSUME UpstreamInv, NEW r \in Requests, GetHost(r)
  PROVE UpstreamInv'
<1> DEFINE x == [Idle EXCEPT !.pc = "factory", !.host = host, !.floor = factory.ca]
<1>1. factory.ca \in 0..MaxBundles /\ host \in Ports \cup {0, ServiceAddress}
  BY UpstreamConstants DEF UpstreamInv, TypeOK
<1>2. x \in RequestStates /\ x.pc = "factory" /\ x.floor = factory.ca
  BY <1>1, IdleFacts DEF RequestStates
<1>3. req' = [req EXCEPT ![r] = x] /\ UNCHANGED <<caVars, hostVars, sessionVars>>
  BY DEF GetHost
<1> HIDE DEF x
<1>4. x.floor <= factory.ca
  BY <1>1, <1>2, UpstreamConstants
<1>5. QED
  BY <1>2, <1>3, <1>4, RequestKeeps

\* What a request reads is the present generation, and so agrees with every other
\* holder of that generation.
LEMMA GetClientFactoryKeeps ==
  ASSUME UpstreamInv, NEW r \in Requests, GetClientFactory(r)
  PROVE UpstreamInv'
<1>0. UNCHANGED <<caVars, hostVars, sessionVars>>
  BY DEF GetClientFactory
<1>1. CASE factory.ca = 0
  <2>1. Done(r)
    BY <1>1 DEF GetClientFactory
  <2>2. QED
    BY <1>0, <2>1, AnswerKeeps
<1>2. CASE factory.ca # 0
  <2> USE DEF UpstreamInv
  <2> DEFINE x == [req[r] EXCEPT !.pc = "transport", !.ca = factory.ca, !.gen = factory.gen]
  <2>1. /\ factory.ca \in 0..MaxBundles /\ factory.gen \in 1..MaxBundles
        /\ req[r] \in RequestStates /\ req[r].floor <= factory.ca
    BY <1>2, UpstreamConstants DEF TypeOK, GetClientFactory, GenerationInv
  <2>2. /\ x \in RequestStates /\ x.pc = "transport" /\ x.ca = factory.ca /\ x.gen = factory.gen
        /\ x.floor = req[r].floor
    <3>1. factory.gen \in 0..MaxBundles
      BY <2>1, UpstreamConstants
    <3>2. QED
      BY <2>1, <3>1 DEF RequestStates
  <2>3. req' = [req EXCEPT ![r] = x]
    BY <1>2 DEF GetClientFactory, TypeOK
  <2> HIDE DEF x
  <2>4. /\ req' \in [Requests -> RequestStates] /\ req'[r] = x
        /\ \A q \in Requests \ {r} : req'[q] = req[q]
    BY <2>2, <2>3 DEF TypeOK
  <2>5. UNCHANGED <<bundle, loaded, notified, factory, failures, lost, host, fwd, cred, cached, rejected>>
    BY <1>0 DEF caVars, hostVars, sessionVars
  <2>6. TypeOK'
    BY <2>4, <2>5 DEF TypeOK
  <2>7. GenerationInv'
    <3>1. /\ factory'.gen <= factory'.ca /\ (notified' => factory'.ca < loaded')
          /\ cached'.gen <= factory'.gen
          /\ cached'.gen # 0 /\ cached'.gen = factory'.gen => cached'.ca = factory'.ca
      BY <2>5 DEF GenerationInv
    <3>2. ASSUME NEW q \in Requests
          PROVE /\ req'[q].pc = "factory" => req'[q].floor <= factory.ca
                /\ req'[q].pc = "transport" =>
                     /\ req'[q].gen \in 1..factory.gen /\ req'[q].floor <= req'[q].ca
                     /\ req'[q].gen = factory.gen => req'[q].ca = factory.ca
                     /\ req'[q].gen = cached.gen => req'[q].ca = cached.ca
      BY <2>1, <2>2, <2>4 DEF GenerationInv
    <3>3. ASSUME NEW p \in Requests, NEW q \in Requests, req'[p].pc = "transport",
                 req'[q].pc = "transport", req'[q].gen = req'[p].gen
          PROVE req'[q].ca = req'[p].ca
      BY <2>2, <2>4, <3>2, <3>3 DEF GenerationInv
    <3>4. QED
      BY <2>5, <3>1, <3>2, <3>3 DEF GenerationInv
  <2>8. NoStaleTrust' /\ CredentialInv'
    BY <2>2, <2>4, <2>5 DEF NoStaleTrust, CredentialInv
  <2>9. QED
    BY <2>6, <2>7, <2>8
<1>3. QED
  BY <1>1, <1>2

\* The cached transport is used only by a request of its own generation, whose bundle
\* it then has.
LEMMA TransportForKeeps ==
  ASSUME UpstreamInv, NEW r \in Requests, TransportFor(r)
  PROVE UpstreamInv'
<1> USE UpstreamConstants DEF UpstreamInv
<1> DEFINE rt == IF cached.gen = req[r].gen THEN cached
                 ELSE [gen |-> req[r].gen, ca |-> req[r].ca, cred |-> cred]
           x == [req[r] EXCEPT !.pc = "send", !.gen = 0, !.ca = rt.ca, !.cred = rt.cred]
<1>1. /\ req[r].pc = "transport" /\ req[r] \in RequestStates /\ cached \in Transports
      /\ cred \in 0..MaxCreds /\ factory.gen \in Nat /\ factory.ca \in Nat
      /\ req[r].gen \in 1..factory.gen /\ req[r].floor <= req[r].ca
      /\ req[r].gen = factory.gen => req[r].ca = factory.ca
      /\ req[r].gen = cached.gen => req[r].ca = cached.ca
  BY DEF TransportFor, TypeOK, GenerationInv
<1>2. /\ rt \in Transports /\ rt.gen = req[r].gen /\ rt.ca = req[r].ca
      /\ (cred # 0 => rt.cred \in 1..cred)
  <2>1. CASE cached.gen = req[r].gen
    BY <1>1, <2>1 DEF CredentialInv, Transports
  <2>2. CASE cached.gen # req[r].gen
    BY <1>1, <2>2 DEF Transports, RequestStates
  <2>3. QED
    BY <2>1, <2>2
<1>3. cached' = rt /\ req' = [req EXCEPT ![r] = x]
  BY DEF TransportFor, TransportKey, TypeOK
<1>4. UNCHANGED <<bundle, loaded, notified, factory, failures, lost, host, fwd, cred, rejected>>
  BY DEF TransportFor, caVars, hostVars
<1> HIDE DEF rt
<1>5. /\ x \in RequestStates /\ x.pc = "send" /\ x.ca = req[r].ca /\ x.floor = req[r].floor
      /\ x.cred = rt.cred
  <2>1. rt.ca \in 0..MaxBundles /\ rt.cred \in 0..MaxCreds /\ 0 \in 0..MaxBundles
    BY <1>2 DEF Transports
  <2>2. QED
    BY <1>1, <1>2, <2>1 DEF RequestStates
<1> HIDE DEF x
<1>6. /\ req' \in [Requests -> RequestStates] /\ req'[r] = x
      /\ \A q \in Requests \ {r} : req'[q] = req[q]
  BY <1>3, <1>5 DEF TypeOK
<1>7. TypeOK'
  BY <1>2, <1>3, <1>4, <1>6 DEF TypeOK
<1>8. GenerationInv'
  <2>1. /\ factory.gen <= factory.ca /\ (notified => factory.ca < loaded)
        /\ rt.gen <= factory.gen
        /\ rt.gen = factory.gen => rt.ca = factory.ca
    BY <1>1, <1>2 DEF GenerationInv
  <2>2. ASSUME NEW q \in Requests
        PROVE /\ req'[q].pc = "factory" => req'[q].floor <= factory.ca
              /\ req'[q].pc = "transport" =>
                   /\ req'[q].gen \in 1..factory.gen /\ req'[q].floor <= req'[q].ca
                   /\ req'[q].gen = factory.gen => req'[q].ca = factory.ca
                   /\ req'[q].gen = rt.gen => req'[q].ca = rt.ca
    BY <1>1, <1>2, <1>5, <1>6 DEF GenerationInv
  <2>3. ASSUME NEW p \in Requests, NEW q \in Requests, req'[p].pc = "transport",
               req'[q].pc = "transport", req'[q].gen = req'[p].gen
        PROVE req'[q].ca = req'[p].ca
    BY <1>5, <1>6, <2>3 DEF GenerationInv
  <2>4. QED
    BY <1>3, <1>4, <2>1, <2>2, <2>3 DEF GenerationInv
<1>9. NoStaleTrust'
  BY <1>1, <1>5, <1>6 DEF NoStaleTrust
<1>10. CredentialInv'
  BY <1>2, <1>3, <1>4, <1>5, <1>6 DEF CredentialInv
<1>11. QED
  BY <1>7, <1>8, <1>9, <1>10

LEMMA SendKeeps ==
  ASSUME UpstreamInv, NEW r \in Requests,
         Do(r) \/ Proxy(r) \/ ProxyAnswer(r)
  PROVE UpstreamInv'
<1>0. UNCHANGED <<caVars, hostVars, sessionVars>>
  BY DEF Do, Proxy, ProxyAnswer
<1>1. CASE Do(r)
  <2>1. cred # 0 => req[r].cred \in 1..cred /\ cred \in Nat
    BY <1>1 DEF Do, UpstreamInv, CredentialInv, TypeOK
  <2>2. \/ Done(r) \/ Answered(r, "403")
        \/ Answered(r, "401") /\ req[r].cred \in rejected \cup {0}
    BY <1>1 DEF Do
  <2>3. QED
    BY <1>0, <2>1, <2>2, AnswerKeeps
<1>2. CASE ProxyAnswer(r)
  <2>1. cred # 0 => req[r].cred \in 1..cred
    BY <1>2 DEF ProxyAnswer, UpstreamInv, CredentialInv
  <2>2. Done(r) \/ Answered(r, "403") \/ (Answered(r, "401") /\ req[r].cred \in rejected)
    BY <1>2 DEF ProxyAnswer
  <2>3. QED
    BY <1>0, <2>1, <2>2, AnswerKeeps
<1>3. CASE Proxy(r)
  <2> DEFINE x == [Idle EXCEPT !.pc = "proxied", !.cred = cred]
  <2>1. cred \in 1..MaxCreds
    <3>1. cred # 0
      BY <1>3 DEF Proxy
    <3>2. cred \in 0..MaxCreds
      BY DEF UpstreamInv, TypeOK
    <3>3. QED
      BY <3>1, <3>2, UpstreamConstants
  <2>2. x \in RequestStates /\ x.pc = "proxied" /\ x.cred = cred
    <3>1. cred \in 0..MaxCreds /\ Idle \in RequestStates
      BY <2>1, IdleFacts, UpstreamConstants
    <3>2. QED
      BY <3>1 DEF RequestStates
  <2>3. req' = [req EXCEPT ![r] = x]
    BY <1>3 DEF Proxy
  <2> HIDE DEF x
  <2>4. x.cred \in 1..cred
    BY <2>1, <2>2, UpstreamConstants
  <2>5. QED
    BY <1>0, <2>2, <2>3, <2>4, RequestKeeps
<1>4. QED
  BY <1>1, <1>2, <1>3

LEMMA ReturnKeeps ==
  ASSUME UpstreamInv, NEW r \in Requests, Return(r)
  PROVE UpstreamInv'
<1> USE DEF UpstreamInv
<1>1. CASE req[r].pc # "401"
  <2>1. UNCHANGED <<caVars, hostVars, sessionVars>> /\ Done(r)
    BY <1>1 DEF Return, EndsSession, sessionVars
  <2>2. QED
    BY <2>1, AnswerKeeps
<1>2. CASE req[r].pc = "401"
  <2>1. /\ cred' = 0 /\ cached' = NoTransport
        /\ UNCHANGED <<bundle, loaded, notified, factory, failures, lost, host, fwd, rejected>>
    BY <1>2 DEF Return, EndsSession, caVars, hostVars
  <2>2. /\ req' \in [Requests -> RequestStates] /\ req'[r] = Idle
        /\ \A q \in Requests \ {r} : req'[q] = req[q]
    BY IdleFacts DEF Return, Done, TypeOK
  <2>3. TypeOK'
    BY <2>1, <2>2, IdleFacts, UpstreamConstants DEF TypeOK
  <2>4. GenerationInv'
    <3>1. factory.gen \in Nat /\ (\A q \in Requests : req'[q].pc = "transport" => req'[q].gen # 0)
      BY <2>2, IdleFacts DEF GenerationInv, TypeOK
    <3>2. QED
      BY <2>1, <2>2, <3>1, IdleFacts DEF GenerationInv
  <2>5. NoStaleTrust' /\ CredentialInv'
    BY <2>1, <2>2, IdleFacts DEF NoStaleTrust, CredentialInv
  <2>6. QED
    BY <2>3, <2>4, <2>5
<1>3. QED
  BY <1>1, <1>2

LEMMA SessionKeeps ==
  ASSUME UpstreamInv, Refresh \/ (\E k \in 1..MaxCreds : Reject(k))
  PROVE UpstreamInv'
<1> USE UpstreamConstants DEF UpstreamInv
<1>1. UNCHANGED <<bundle, loaded, notified, factory, failures, lost, host, fwd, req>>
  BY DEF Refresh, Reject, caVars, hostVars
<1>2. CASE Refresh
  <2>1. cred' = cred + 1 /\ cached' = NoTransport /\ rejected' = rejected /\ cred \in 1..(MaxCreds - 1)
    BY <1>2 DEF Refresh
  <2>2. TypeOK'
    BY <1>1, <2>1, IdleFacts DEF TypeOK
  <2>3. GenerationInv'
    <3>1. factory.gen \in Nat /\ (\A q \in Requests : req[q].pc = "transport" => req[q].gen # 0)
      BY DEF GenerationInv, TypeOK
    <3>2. QED
      BY <1>1, <2>1, <3>1, IdleFacts DEF GenerationInv
  <2>4. NoStaleTrust' /\ CredentialInv'
    BY <1>1, <2>1, IdleFacts DEF NoStaleTrust, CredentialInv
  <2>5. QED
    BY <2>2, <2>3, <2>4
<1>3. CASE \E k \in 1..MaxCreds : Reject(k)
  <2>1. /\ UNCHANGED <<cred, cached>> /\ rejected \subseteq rejected'
        /\ rejected' \subseteq 1..MaxCreds
    BY <1>3 DEF Reject, TypeOK
  <2>2. TypeOK'
    BY <1>1, <2>1 DEF TypeOK
  <2>3. GenerationInv' /\ NoStaleTrust' /\ CredentialInv'
    BY <1>1, <2>1 DEF GenerationInv, NoStaleTrust, CredentialInv
  <2>4. QED
    BY <2>2, <2>3
<1>4. QED
  BY <1>2, <1>3

LEMMA UpstreamKeeps == UpstreamInv /\ [Next]_vars => UpstreamInv'
<1> SUFFICES ASSUME UpstreamInv, [Next]_vars PROVE UpstreamInv'
  OBVIOUS
<1>1. CASE UNCHANGED vars
  BY <1>1 DEF vars, UpstreamInv, TypeOK, GenerationInv, NoStaleTrust, CredentialInv
<1>2. CASE Next
  BY <1>2, BundleKeeps, ForwardKeeps, GetHostKeeps, GetClientFactoryKeeps, TransportForKeeps,
     SendKeeps, ReturnKeeps, SessionKeeps DEF Next
<1>3. QED
  BY <1>1, <1>2

LEMMA UpstreamInvariant == Spec => []UpstreamInv
  BY UpstreamInitially, UpstreamKeeps, PTL DEF Spec

\* The state of the CA bundle, the port forward, the session and the requests always
\* has its type; the generation counts the factories (RequestsHandler, requests.go).
THEOREM UpstreamTypeCorrect == Spec => []TypeOK
<1>1. UpstreamInv => TypeOK
  BY DEF UpstreamInv
<1>2. QED
  BY <1>1, UpstreamInvariant, PTL

\* No request goes out with a CA bundle older than the one in use when it arrived
\* (transportKey and TransportFor), for any number of requests and rotations.
THEOREM NoStaleTransport == Spec => []NoStaleTrust
<1>1. UpstreamInv => NoStaleTrust
  BY DEF UpstreamInv
<1>2. QED
  BY <1>1, UpstreamInvariant, PTL

\* A session ends on an upstream answer only if the cluster has rejected a credential
\* the session has held (the 401 checks of requests.go, handler.go and k8serror.go).
THEOREM SessionEndsByRejection == Spec => OnlyRejectionEnds
<1>1. ASSUME UpstreamInv, [Next]_vars, cred # 0, cred' = 0
      PROVE \E k \in 1..cred : k \in rejected
  <2>1. CASE Refresh
    BY <1>1, <2>1 DEF Refresh
  <2>2. CASE \E r \in Requests : Return(r)
    <3>1. PICK r \in Requests : Return(r)
      BY <2>2
    <3>2. req[r].pc = "401"
      BY <1>1, <3>1 DEF Return, EndsSession
    <3>3. QED
      BY <1>1, <3>2 DEF UpstreamInv, CredentialInv
  <2>3. CASE ~Refresh /\ ~(\E r \in Requests : Return(r))
    <3>1. cred' = cred
      BY <1>1, <2>3 DEF Next, vars, Rotate, Load, UpdateClientFactory, UpdateFails, Dial, Ready, SetHost,
         Break, ClearHost, GetHost, GetClientFactory, TransportFor, Do, Proxy, ProxyAnswer, Reject,
         sessionVars
    <3>2. QED
      BY <1>1, <3>1
  <2>4. QED
    BY <2>1, <2>2, <2>3
<1>2. UpstreamInv /\ [Next]_vars => [cred # 0 /\ cred' = 0 => \E k \in 1..cred : k \in rejected]_vars
  BY <1>1
<1>3. QED
  BY <1>2, UpstreamInvariant, PTL DEF Spec, OnlyRejectionEnds
=============================================================================
