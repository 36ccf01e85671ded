------------------------------ MODULE Upstream -------------------------------
(***************************************************************************)
(* Requests that the backend makes for a user: to the Antrea Service          *)
(* (handlers/antreasvc), whose CA bundle rotates and which, outside a Pod, is  *)
(* reached over a port forward that comes and goes, and to the API server      *)
(* (handlers/k8sproxy, k8s.ClientFactory).  One session, whose credential is   *)
(* refreshed and may be rejected (SessionStore has the rest of it).            *)
(*                                                                         *)
(* An operator named Def_Slip is Def with one plausible slip in it; it is   *)
(* used only to confirm that a property would notice the slip.              *)
(***************************************************************************)
EXTENDS Integers, FiniteSets

CONSTANTS
  Requests,
  Ports,                      \* local ports of the port forward
  MaxBundles,                 \* bound: contents of the antrea-ca ConfigMap
  MaxCreds,                   \* bound: refreshes of the credential
  MaxFailures                 \* bound: updates of the client factory that fail

ASSUME UpstreamConstants ==
  /\ Ports # {} /\ Ports \subseteq Nat \ {0}
  /\ MaxBundles \in Nat /\ MaxCreds \in Nat \ {0} /\ MaxFailures \in Nat

VARIABLES
  bundle,    \* what the ConfigMap holds, and the Antrea Service's certificate chains to; 0: nothing
  loaded,    \* CurrentCABundleContent
  notified,  \* the content provider has called Enqueue
  factory,   \* the bundle of the client factory, 0 while it is nil, and its generation
  failures,  \* updates that failed so far
  lost,      \* the bundle of the last update that failed, 0 if none has
  host,      \* requestsHandler.host: a local port, the Service's own address, or 0
  fwd,       \* the port-forward loop
  cred,      \* the credential of the session: 1, 2, ... as it is refreshed, 0 once it has ended
  cached,    \* the session's transport to the Antrea Service
  rejected,  \* credentials the cluster rejects
  req        \* the requests under way

vars == <<bundle, loaded, notified, factory, failures, lost, host, fwd, cred, cached, rejected, req>>

caVars == <<bundle, loaded, notified, factory, failures, lost>>
hostVars == <<host, fwd>>
sessionVars == <<cred, cached, rejected>>

ServiceAddress == 1000
NoTransport == [gen |-> 0, ca |-> 0, cred |-> 0]
Idle == [pc |-> "idle", host |-> 0, gen |-> 0, ca |-> 0, cred |-> 0, floor |-> 0]

\* NewRequestsHandler: in a Pod the Service has an address, elsewhere it takes a
\* port forward.
Init ==
  /\ bundle = 0 /\ loaded = 0 /\ notified = FALSE
  /\ factory = [ca |-> 0, gen |-> 0] /\ failures = 0 /\ lost = 0
  /\ \/ host = ServiceAddress /\ fwd = [pc |-> "none", port |-> 0, open |-> FALSE]
     \/ host = 0 /\ fwd = [pc |-> "retry", port |-> 0, open |-> FALSE]
  /\ cred = 1 /\ cached = NoTransport /\ rejected = {}
  /\ req = [r \in Requests |-> Idle]

-----------------------------------------------------------------------------
(* The CA bundle *)

Rotate ==
  /\ bundle < MaxBundles
  /\ bundle' = bundle + 1
  /\ UNCHANGED <<loaded, notified, factory, failures, lost, hostVars, sessionVars, req>>

\* The one worker of the content provider takes the new content over and calls
\* its listener.
Load ==
  /\ ~notified
  /\ loaded # bundle
  /\ loaded' = bundle
  /\ notified' = TRUE
  /\ UNCHANGED <<bundle, factory, failures, lost, hostVars, sessionVars, req>>

UpdateClientFactory_Once ==
  /\ notified
  /\ notified' = FALSE
  /\ factory' = IF factory.ca = 0 THEN [ca |-> loaded, gen |-> 1] ELSE factory
  /\ UNCHANGED <<bundle, loaded, failures, lost, hostVars, sessionVars, req>>

\* updateClientFactory: the factory and its generation change together.
UpdateClientFactory ==
  /\ notified
  /\ notified' = FALSE
  /\ factory' = [ca |-> loaded, gen |-> factory.gen + 1]
  /\ UNCHANGED <<bundle, loaded, failures, lost, hostVars, sessionVars, req>>

\* It fails: the token cannot be read, the bundle cannot be parsed.  Enqueue logs the
\* error, and nothing tries again before the next rotation.
UpdateFails ==
  /\ notified
  /\ failures < MaxFailures
  /\ failures' = failures + 1
  /\ notified' = FALSE
  /\ lost' = loaded
  /\ UNCHANGED <<bundle, loaded, factory, hostVars, sessionVars, req>>

-----------------------------------------------------------------------------
(* The port forward: wait.Until in requestsHandler.Run, PortForwarder.Run *)

\* The Service and its Pod are found, and the forward is dialled.
Dial ==
  /\ fwd.pc = "retry"
  /\ fwd' = [fwd EXCEPT !.pc = "dial"]
  /\ UNCHANGED <<host, caVars, sessionVars, req>>

\* readyCh: the forward listens, and its port is on the way to the loop.
Ready(p) ==
  /\ fwd.pc = "dial"
  /\ fwd' = [pc |-> "ready", port |-> p, open |-> TRUE]
  /\ UNCHANGED <<host, caVars, sessionVars, req>>

SetHost ==
  /\ fwd.pc = "ready"
  /\ host' = fwd.port
  /\ fwd' = [fwd EXCEPT !.pc = "up"]
  /\ UNCHANGED <<caVars, sessionVars, req>>

\* ForwardPorts returns: the Pod is gone, the connection is broken.
Break ==
  /\ fwd.open
  /\ fwd' = [fwd EXCEPT !.open = FALSE]
  /\ UNCHANGED <<host, caVars, sessionVars, req>>

ForwardEnded == (fwd.pc = "up" /\ ~fwd.open) \/ fwd.pc = "dial"

ClearHost_NoRetry ==
  /\ ForwardEnded
  /\ host' = 0
  /\ fwd' = [pc |-> "none", port |-> 0, open |-> FALSE]
  /\ UNCHANGED <<caVars, sessionVars, req>>

\* portCh is closed, because the forward ended or could not be set up: back to the
\* start in 5 seconds.
ClearHost ==
  /\ ForwardEnded
  /\ host' = 0
  /\ fwd' = [pc |-> "retry", port |-> 0, open |-> FALSE]
  /\ UNCHANGED <<caVars, sessionVars, req>>

-----------------------------------------------------------------------------
(* Requests *)

Answered(r, status) == req' = [req EXCEPT ![r] = [Idle EXCEPT !.pc = status]]

Done(r) == req' = [req EXCEPT ![r] = Idle]

\* requestsHandler.Request, getHost ("floor": the bundle in use when it arrives)
GetHost(r) ==
  /\ req[r].pc = "idle"
  /\ cred # 0
  /\ host # 0
  /\ req' = [req EXCEPT ![r] = [Idle EXCEPT !.pc = "factory", !.host = host, !.floor = factory.ca]]
  /\ UNCHANGED <<caVars, hostVars, sessionVars>>

\* GetClientFactory: the factory and the generation of one moment, or "not ready".
GetClientFactory(r) ==
  /\ req[r].pc = "factory"
  /\ IF factory.ca = 0 THEN Done(r)
     ELSE req' = [req EXCEPT ![r].pc = "transport", ![r].ca = factory.ca, ![r].gen = factory.gen]
  /\ UNCHANGED <<caVars, hostVars, sessionVars>>

TransportKey_NoGeneration(gen) == 1

\* transportKey
TransportKey(gen) == gen

\* TransportFor: the transport cached under the key, or a new one, with the
\* bundle of the request's factory and the credential of the session (none once it has ended);
\* a new one replaces the transport of any other generation.
TransportFor(r) ==
  LET key == TransportKey(req[r].gen)
      rt == IF cached.gen = key THEN cached
            ELSE [gen |-> key, ca |-> req[r].ca, cred |-> cred]
  IN
  /\ req[r].pc = "transport"
  /\ cached' = rt
  /\ req' = [req EXCEPT ![r].pc = "send", ![r].gen = 0, ![r].ca = rt.ca, ![r].cred = rt.cred]
  /\ UNCHANGED <<cred, rejected, caVars, hostVars>>

Reachable(h) == h = ServiceAddress \/ (fwd.open /\ h = fwd.port)

\* HTTPClient(rt).Do: nobody may listen on the port any more, and the certificate
\* must chain to the bundle; otherwise the answer is 401, 403 or another.
Do(r) ==
  LET trusted == req[r].ca = bundle IN
  /\ req[r].pc = "send"
  /\ IF ~Reachable(req[r].host) \/ ~trusted THEN Done(r)
     ELSE IF req[r].cred \in rejected \cup {0} THEN Answered(r, "401")
     ELSE Answered(r, "403") \/ Done(r)
  /\ UNCHANGED <<caVars, hostVars, sessionVars>>

\* GetK8s: a request of the browser goes on to the API server, over a transport with
\* the session's current credential.  Rewrite takes the headers off it that would say
\* who it is from (Authorization, Cookie, Impersonate-*); headers are not modelled.
Proxy(r) ==
  /\ req[r].pc = "idle"
  /\ cred # 0
  /\ req' = [req EXCEPT ![r] = [Idle EXCEPT !.pc = "proxied", !.cred = cred]]
  /\ UNCHANGED <<caVars, hostVars, sessionVars>>

ProxyAnswer(r) ==
  /\ req[r].pc = "proxied"
  /\ IF req[r].cred \in rejected THEN Answered(r, "401") ELSE Answered(r, "403") \/ Done(r)
  /\ UNCHANGED <<caVars, hostVars, sessionVars>>

EndsSession_OnForbidden(r) == req[r].pc \in {"401", "403"}

\* Request, ModifyResponse and k8sError invalidate the session on a 401;
\* upstreamStatusError and k8sError pass a 403 on.
EndsSession(r) == req[r].pc = "401"

Return(r) ==
  /\ req[r].pc \in {"401", "403"}
  /\ cred' = IF EndsSession(r) THEN 0 ELSE cred
  /\ cached' = IF EndsSession(r) THEN NoTransport ELSE cached
  /\ Done(r)
  /\ UNCHANGED <<rejected, caVars, hostVars>>

-----------------------------------------------------------------------------
(* The session, as far as requests of other users of it change it *)

\* Get refreshes the credential and drops the transports built with the old one.
Refresh ==
  /\ cred \in 1 .. (MaxCreds - 1)
  /\ cred' = cred + 1
  /\ cached' = NoTransport
  /\ UNCHANGED <<rejected, caVars, hostVars, req>>

\* The cluster stops accepting a credential: it has expired, or was revoked.
Reject(k) ==
  /\ k \in 1..MaxCreds \ rejected
  /\ rejected' = rejected \cup {k}
  /\ UNCHANGED <<cred, cached, caVars, hostVars, req>>

Provide == Load \/ UpdateClientFactory

Next ==
  \/ Rotate \/ Load \/ UpdateClientFactory \/ UpdateFails
  \/ Dial \/ (\E p \in Ports : Ready(p)) \/ SetHost \/ Break \/ ClearHost
  \/ \E r \in Requests :
       \/ GetHost(r) \/ GetClientFactory(r) \/ TransportFor(r) \/ Do(r) \/ Return(r)
       \/ Proxy(r) \/ ProxyAnswer(r)
  \/ Refresh \/ (\E k \in 1..MaxCreds : Reject(k))

\* The content provider's worker and the port-forward loop are goroutines that
\* keep running; dialling again and again, the forward is ready some time, and it
\* does not break each time in the moment before its port is taken over.
Fairness ==
  /\ WF_vars(Provide)
  /\ WF_vars(Dial) /\ WF_vars(SetHost) /\ WF_vars(ClearHost)
  /\ SF_vars(\E p \in Ports : Ready(p)) /\ SF_vars(fwd.open /\ SetHost)

Spec == Init /\ [][Next]_vars /\ Fairness

-----------------------------------------------------------------------------
(* Properties *)

Transports == [gen : 0..MaxBundles, ca : 0..MaxBundles, cred : 0..MaxCreds]

RequestStates ==
  [pc : {"idle", "factory", "transport", "send", "proxied", "401", "403"},
   host : Ports \cup {0, ServiceAddress}, gen : 0..MaxBundles, ca : 0..MaxBundles,
   cred : 0..MaxCreds, floor : 0..MaxBundles]

\* Type invariant: the generation counts the factories, none of which was nil.
TypeOK ==
  /\ bundle \in 0..MaxBundles /\ loaded \in 0..bundle /\ notified \in BOOLEAN
  /\ factory \in [ca : 0..loaded, gen : 0..MaxBundles] /\ (factory.gen = 0 <=> factory.ca = 0)
  /\ failures \in 0..MaxFailures /\ lost \in 0..loaded
  /\ host \in Ports \cup {0, ServiceAddress}
  /\ fwd \in [pc : {"none", "retry", "dial", "ready", "up"}, port : Ports \cup {0}, open : BOOLEAN]
  /\ cred \in 0..MaxCreds /\ rejected \subseteq 1..MaxCreds
  /\ cached \in Transports /\ req \in [Requests -> RequestStates]

\* "a session that cached a transport against an older bundle rebuilds instead of
\* silently using a stale one": a request never goes out with a bundle older than
\* the one in use when it arrived, however requests of one session that read
\* different generations take turns with its one cached transport.
NoStaleTrust == \A r \in Requests : req[r].pc = "send" => req[r].ca >= req[r].floor

\* A session that ends here ends because the cluster rejected a credential it has
\* held: neither a 403, nor a Service that cannot be reached or trusted during a
\* rotation, nor a broken port forward, logs the user out.
OnlyRejectionEnds ==
  [][cred # 0 /\ cred' = 0 => \E k \in 1..cred : k \in rejected]_vars

\* Once the ConfigMap stops changing, the factory trusts what it holds, unless the
\* update to that very bundle failed: an update that failed earlier does not keep the
\* next bundle out.
BundleInstalled ==
  \A v \in 1..MaxBundles : bundle = v ~> factory.ca = v \/ bundle # v \/ lost = v

\* The Antrea Service comes back: a forward that broke, before or after its port was
\* taken over, or that could not be set up, is replaced, and requests find the port of
\* the new one.
ForwardRecovers == ~Reachable(host) ~> Reachable(host)
=============================================================================
