------------------------------ MODULE ServerRun ------------------------------
(***************************************************************************)
(* The backend process (cmd/server/main.go, pkg/config/server, server.go,      *)
(* api/server.go, pkg/signals): from its configuration to the parts it builds  *)
(* and the routes it registers, until signals end it; with the plugin registry *)
(* running inside it, and a page that loads plugins from it.                  *)
(*                                                                         *)
(* An operator named Def_Slip is Def with one plausible slip in it; it is   *)
(* used only to confirm that a property would notice the slip.              *)
(***************************************************************************)
EXTENDS PluginLoad

CONSTANTS
  Configs,                    \* the configurations to consider
  PluginConfigs               \* bound: those in which ConfigMaps of plugins are edited

LoginModes == {"basic", "oidc", "kubeconfig", "token"}

\* limits: the session settings are in their ranges.  ca: what the CA ConfigMap
\* holds, "unset" if none is named.
AllConfigs ==
  [modes : SUBSET LoginModes, bearer : BOOLEAN, url : BOOLEAN, limits : BOOLEAN,
   flow : BOOLEAN, insecure : BOOLEAN, ca : {"unset", "good", "bad", "missing"}]

ASSUME ConfigAssumption == Configs \subseteq AllConfigs

VARIABLES
  cfg,       \* the configuration
  pc,        \* how far run() has got
  parts,     \* what has been built; the other pointers are nil
  routes,    \* the routes registered
  tls,       \* how the Flow Aggregator's certificate is verified
  stream,    \* a flow stream is open
  missing,   \* parts that a request found to be nil
  code       \* exit code: 0, 1, or 2 when the signal itself killed the process

runVars == <<cfg, pc, parts, routes, tls, stream, missing, code>>
vars == <<runVars, pluginVars>>

Init ==
  /\ cfg \in Configs
  /\ pc = "load" /\ parts = {} /\ routes = {} /\ tls = "none"
  /\ stream = FALSE /\ missing = {} /\ code = 0
  /\ PluginInit /\ PageInit

Exit(c) == pc' = "exited" /\ code' = c /\ stream' = FALSE

-----------------------------------------------------------------------------
(* Start-up.  A step that fails ends the process. *)

\* validateConfig
ValidateConfig == ("oidc" \in cfg.modes => cfg.url) /\ cfg.modes # {} /\ cfg.limits

\* main and LoadConfig.
LoadConfig ==
  /\ pc = "load"
  /\ IF ValidateConfig THEN pc' = "password" /\ UNCHANGED <<code, stream>> ELSE Exit(1)
  /\ UNCHANGED <<cfg, parts, routes, tls, missing, pluginVars>>

\* The Kubernetes clients; the password store, if there is a password.
InitPassword ==
  /\ pc = "password"
  /\ \/ pc' = "oidc" /\ UNCHANGED <<code, stream>>
        /\ parts' = IF "basic" \in cfg.modes THEN {"password"} ELSE {}
     \/ Exit(1) /\ UNCHANGED parts
  /\ UNCHANGED <<cfg, routes, tls, missing, pluginVars>>

\* NewOIDCProvider and one round of Init's loop.
InitOIDC ==
  /\ pc = "oidc"
  /\ \/ pc' = "flow" /\ UNCHANGED <<code, stream>>
        /\ parts' = IF "oidc" \in cfg.modes THEN parts \cup {"oidc"} ELSE parts
     \/ "oidc" \in cfg.modes /\ Exit(1) /\ UNCHANGED parts
     \/ "oidc" \in cfg.modes /\ pc' = "backoff" /\ UNCHANGED <<parts, code, stream>>
  /\ UNCHANGED <<cfg, routes, tls, missing, pluginVars>>

\* Init: discovery failed and is tried again after a while.
DiscoveryRetry ==
  /\ pc = "backoff"
  /\ pc' = "oidc"
  /\ UNCHANGED <<cfg, parts, routes, tls, stream, missing, code, pluginVars>>

\* Init: the 60 seconds are over.
DiscoveryTimeout ==
  /\ pc = "backoff"
  /\ Exit(1)
  /\ UNCHANGED <<cfg, parts, routes, tls, missing, pluginVars>>

\* The CA is fetched, whether it will be used or not, and buildFlowAggregatorTLSConfig.
TLSConfig ==
  CASE cfg.ca = "missing" -> "error"
    [] cfg.ca # "missing" /\ cfg.insecure -> "skip"
    [] cfg.ca = "bad" /\ ~cfg.insecure -> "error"
    [] cfg.ca = "good" /\ ~cfg.insecure -> "ca"
    [] cfg.ca = "unset" /\ ~cfg.insecure -> "system"

\* NewGRPCFlowStreamSubscriber, if the Flow Aggregator is enabled.
InitFlow ==
  /\ pc = "flow"
  /\ IF ~cfg.flow
     THEN pc' = "server" /\ UNCHANGED <<parts, tls, code, stream>>
     ELSE IF TLSConfig = "error"
     THEN Exit(1) /\ UNCHANGED <<parts, tls>>
     ELSE \/ pc' = "server" /\ parts' = parts \cup {"flow"} /\ tls' = TLSConfig /\ UNCHANGED <<code, stream>>
          \/ cfg.ca # "unset" /\ Exit(1) /\ UNCHANGED <<parts, tls>>  \* the API did not answer
  /\ UNCHANGED <<cfg, routes, missing, pluginVars>>

Routes_Always(built) ==
  LoginModes \cup {"session", "logout", "k8s", "plugins", "traceflow", "stream", "account"}

\* AddRoutes, AddAuthRoutes and AddAccountRoutes: a login mode each, the others always,
\* but for the account's.
Routes(built) ==
  cfg.modes \cup {"session", "logout", "k8s", "plugins", "traceflow", "stream"}
            \cup (IF "password" \in built THEN {"account"} ELSE {})

\* authn.New: no validator unless bearer tokens are enabled.
Authenticator == IF cfg.bearer THEN {"bearer"} ELSE {}

\* NewServer and AddRoutes.
NewServer ==
  LET built == parts \cup Authenticator IN
  /\ pc = "server"
  /\ parts' = built
  /\ routes' = Routes(built)
  /\ pc' = "serving"
  /\ UNCHANGED <<cfg, tls, stream, missing, code, pluginVars>>

\* The address is taken.
ListenFails ==
  /\ pc = "serving"
  /\ Exit(1)
  /\ UNCHANGED <<cfg, parts, routes, tls, missing, pluginVars>>

-----------------------------------------------------------------------------
(* Requests *)

\* The part a handler calls without asking whether it is there, with a session of a
\* login mode or a bearer token.  Sessions live in memory: whoever has one logged in
\* over a route of this process.
Uses(route, who) ==
  CASE route = "basic" -> {"password"}
    [] route = "account" -> IF who = "basic" THEN {"password"} ELSE {}
    [] route = "oidc" -> {"oidc"}
    [] route \in {"logout", "k8s", "session"} /\ who = "oidc" -> {"oidc"}
    [] OTHER -> {}

\* buildFrontendSettingsFromConfig
AdvertisedModes == cfg.modes

Callers == (routes \cap LoginModes) \cup {"bearer"}

\* Resolve answers 401 to a bearer token when they are not enabled.
Request(route, who) ==
  /\ pc = "serving"
  /\ route \in routes /\ who \in Callers
  /\ missing' = missing \cup ((Uses(route, who)
                  \cup (IF who = "bearer" /\ cfg.bearer THEN {"bearer"} ELSE {})) \ parts)
  /\ UNCHANGED <<cfg, pc, parts, routes, tls, stream, code, pluginVars>>

\* GET /flows/stream; a 501 without the Flow Aggregator.
OpenStream ==
  /\ pc = "serving" /\ "flow" \in parts /\ ~stream
  /\ stream' = TRUE
  /\ UNCHANGED <<cfg, pc, parts, routes, tls, missing, code, pluginVars>>

CloseStream ==
  /\ stream
  /\ stream' = FALSE
  /\ UNCHANGED <<cfg, pc, parts, routes, tls, missing, code, pluginVars>>

-----------------------------------------------------------------------------
(* The end *)

\* RegisterSignalHandlers: before it has been called a signal kills the process; the
\* first one after that closes stopCh, the second one exits.
Signal ==
  /\ \/ pc \in {"load", "password", "oidc", "backoff", "flow", "server"} /\ Exit(2)
     \/ pc = "serving" /\ pc' = "stopping" /\ UNCHANGED <<code, stream>>
     \/ pc = "stopping" /\ Exit(1)
  /\ UNCHANGED <<cfg, parts, routes, tls, missing, pluginVars>>

\* srv.Shutdown: no new requests; it waits for the streams, which are not told.
Shutdown ==
  /\ pc = "stopping" /\ ~stream
  /\ Exit(0)
  /\ UNCHANGED <<cfg, parts, routes, tls, missing, pluginVars>>

ShutdownTimeout_Never ==
  /\ pc = "stopping" /\ ~stream
  /\ Exit(1)
  /\ UNCHANGED <<cfg, parts, routes, tls, missing, pluginVars>>

\* After 5 seconds it waits no longer.
ShutdownTimeout ==
  /\ pc = "stopping"
  /\ Exit(1)
  /\ UNCHANGED <<cfg, parts, routes, tls, missing, pluginVars>>

\* Kubernetes starts the container again.
Restart ==
  /\ pc = "exited"
  /\ pc' = "load" /\ parts' = {} /\ routes' = {} /\ tls' = "none" /\ code' = 0
  /\ ResetMeanwhile
  /\ UNCHANGED <<cfg, stream, missing>>

\* Registry.Run, until stopCh is closed.
Watch(cm) == pc = "serving" /\ SyncMeanwhile(cm) /\ UNCHANGED runVars

\* Bound: PluginConfigs.  The registry does not read the configuration.
EditPlugin(cm) == cfg \in PluginConfigs /\ EditMeanwhile(cm) /\ UNCHANGED runVars

\* A page gets answers, or errors, over the route of the plugins.
LoadPlugins ==
  /\ \/ pc = "serving" /\ "plugins" \in routes /\ (FetchIndex \/ Import)
     \/ FetchFails \/ ImportFails \/ Loaded
  /\ UNCHANGED runVars

Start == LoadConfig \/ InitPassword \/ InitOIDC \/ DiscoveryRetry \/ InitFlow \/ NewServer

Next ==
  \/ Start \/ DiscoveryTimeout \/ ListenFails \/ OpenStream \/ CloseStream
  \/ \E route \in routes, who \in Callers : Request(route, who)
  \/ Signal \/ Shutdown \/ ShutdownTimeout \/ Restart
  \/ \E cm \in ConfigMaps : Watch(cm) \/ EditPlugin(cm)
  \/ LoadPlugins

\* run() goes on, the two timeouts strike (once its context is done, discovery can only
\* fail, and the select in its loop sees that), and the informer keeps up.
Fairness ==
  /\ SF_vars(DiscoveryTimeout)
  /\ WF_vars(Start) /\ WF_vars(Shutdown \/ ShutdownTimeout)
  /\ \A cm \in ConfigMaps : WF_vars(Watch(cm))

Spec == Init /\ [][Next]_vars /\ Fairness

-----------------------------------------------------------------------------
(* Properties *)

\* Type invariant.
TypeOK ==
  /\ cfg \in Configs
  /\ pc \in {"load", "password", "oidc", "backoff", "flow", "server", "serving", "stopping", "exited"}
  /\ parts \cup missing \subseteq {"password", "oidc", "flow", "bearer"}
  /\ tls \in {"none", "skip", "ca", "system"} /\ code \in 0..2 /\ stream \in BOOLEAN
  /\ PluginTypeOK

\* In no configuration that validateConfig lets through does a request reach a
\* part that was not built: what a route needs was made before the route was.
DependenciesBuilt == missing = {}

\* Whoever opens the login page finds a way in, and every mode that /settings
\* advertises works: its route is there, what the handler needs was built, and an
\* OIDC provider knows where to send the browser back.
AdvertisedModesWork ==
  pc = "serving" =>
    /\ AdvertisedModes # {}
    /\ \A mode \in AdvertisedModes :
         mode \in routes /\ Uses(mode, mode) \subseteq parts /\ (mode = "oidc" => cfg.url)

\* The process does not hang: start-up ends with a server or with an exit, however
\* often discovery fails, and a signal ends the process, open streams or not.
NeverStuck == []<>(pc \in {"serving", "exited"})

\* While the server runs, the registry catches up with the ConfigMaps, restarts
\* of the backend and broken watches included.
RegistryCatchesUp == []<>(InStep \/ pc # "serving")
=============================================================================
