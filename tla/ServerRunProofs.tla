--------------------------- MODULE ServerRunProofs ---------------------------
(* Proofs about ServerRun and the plugin registry inside it.                 *)
EXTENDS ServerRun, TLAPS

\* What has been checked and built by the time run() has got to pc, and the routes
\* that are there by then.
StartInv ==
  /\ pc \notin {"load", "exited"} => ValidateConfig
  /\ pc \in {"oidc", "backoff", "flow", "server", "serving", "stopping"} /\ "basic" \in cfg.modes
       => "password" \in parts
  /\ pc \in {"flow", "server", "serving", "stopping"} /\ "oidc" \in cfg.modes => "oidc" \in parts
  /\ pc = "serving" => routes = Routes(parts) /\ (cfg.bearer => "bearer" \in parts)

RunInv == TypeOK /\ StartInv /\ DependenciesBuilt

LEMMA PluginInitially == PluginInit => PluginTypeOK
<1>1. Absent \in Contents /\ 0 \in 0..MaxEdits
  BY PluginConstants DEF Absent, Contents
<1> QED
  BY <1>1 DEF PluginInit, PluginTypeOK, Empty

\* Edits and the informer keep the registry well typed.
LEMMA PluginTypes ==
  ASSUME PluginTypeOK,
         UNCHANGED registryVars \/ PluginReset \/ (\E cm \in ConfigMaps : Edit(cm) \/ Sync(cm))
  PROVE  PluginTypeOK'
<1>1. /\ cms \in [ConfigMaps -> Contents] /\ seen \in [ConfigMaps -> Contents]
      /\ plugins \in [ConfigMaps -> Contents] /\ edits \in 0..MaxEdits
  BY DEF PluginTypeOK
<1>2. Absent \in Contents
  BY PluginConstants DEF Absent, Contents
<1>3. \A bundle \in Bundles, rev \in 0..MaxEdits : Written(bundle, rev) \in Contents
  BY PluginBundles DEF Written, Contents
<1>4. CASE UNCHANGED registryVars
  BY <1>4 DEF PluginTypeOK, registryVars
<1>5. CASE PluginReset
  BY <1>1, <1>2, <1>5 DEF PluginReset, PluginTypeOK, Empty
<1>6. ASSUME NEW cm \in ConfigMaps, Edit(cm) PROVE PluginTypeOK'
  <2>1. edits' = edits + 1 /\ edits < MaxEdits /\ UNCHANGED <<seen, plugins>>
    BY <1>6 DEF Edit
  <2>2. edits' \in 0..MaxEdits
    BY <1>1, <2>1, PluginConstants
  <2>3. PICK c \in Contents : cms' = [cms EXCEPT ![cm] = c]
    BY <1>2, <1>3, <1>6, <2>1, <2>2 DEF Edit
  <2> QED
    BY <1>1, <2>1, <2>2, <2>3 DEF PluginTypeOK
<1>7. ASSUME NEW cm \in ConfigMaps, Sync(cm) PROVE PluginTypeOK'
  <2>1. UNCHANGED <<cms, edits>> /\ seen' = [seen EXCEPT ![cm] = cms[cm]]
    BY <1>7 DEF Sync
  <2>2. PICK c \in Contents : plugins' = [plugins EXCEPT ![cm] = c]
    BY <1>1, <1>2, <1>7 DEF Sync, HandleDelete, HandleUpsert
  <2> QED
    BY <1>1, <2>1, <2>2 DEF PluginTypeOK
<1> QED
  BY <1>4, <1>5, <1>6, <1>7

LEMMA RunInitially == Init => RunInv
<1> SUFFICES ASSUME Init PROVE RunInv
  OBVIOUS
<1>1. stream \in BOOLEAN /\ PluginTypeOK
  BY PluginInitially DEF Init
<1>2. TypeOK
  BY <1>1 DEF Init, TypeOK
<1>3. StartInv /\ DependenciesBuilt
  BY DEF Init, StartInv, DependenciesBuilt
<1> QED
  BY <1>2, <1>3 DEF RunInv

\* A TLS configuration that is not an error is one of the three.
LEMMA TLSTypes ==
  ASSUME cfg \in Configs, TLSConfig # "error"
  PROVE  TLSConfig \in {"skip", "ca", "system"}
<1>1. cfg.ca \in {"unset", "good", "bad", "missing"} /\ cfg.insecure \in BOOLEAN
  BY ConfigAssumption DEF AllConfigs
<1> QED
  BY <1>1 DEF TLSConfig

\* The steps of the process, the plugin registry aside.
RunStep ==
  \/ Start \/ DiscoveryTimeout \/ ListenFails \/ OpenStream \/ CloseStream
  \/ \E route \in routes, who \in Callers : Request(route, who)
  \/ Signal \/ Shutdown \/ ShutdownTimeout \/ Restart

LEMMA RunTypes ==
  ASSUME TypeOK, RunStep
  PROVE  TypeOK'
<1> USE DEF TypeOK
<1>1. cfg' = cfg
  BY DEF RunStep, Start, LoadConfig, InitPassword, InitOIDC, DiscoveryRetry, InitFlow, NewServer,
         DiscoveryTimeout, ListenFails, OpenStream, CloseStream, Request, Signal, Shutdown,
         ShutdownTimeout, Restart
<1>2. UNCHANGED registryVars \/ PluginReset
  BY DEF pluginVars, ResetMeanwhile, RunStep, Start, LoadConfig, InitPassword, InitOIDC, DiscoveryRetry, InitFlow, NewServer,
         DiscoveryTimeout, ListenFails, OpenStream, CloseStream, Request, Signal, Shutdown,
         ShutdownTimeout, Restart
<1>3. stream' \in BOOLEAN
  BY DEF RunStep, Start, LoadConfig, InitPassword, InitOIDC, DiscoveryRetry, InitFlow, NewServer,
         DiscoveryTimeout, ListenFails, OpenStream, CloseStream, Request, Signal, Shutdown,
         ShutdownTimeout, Restart, Exit
<1>4. /\ pc' \in {"load", "password", "oidc", "backoff", "flow", "server", "serving", "stopping", "exited"}
      /\ code' \in 0..2
  BY DEF RunStep, Start, LoadConfig, InitPassword, InitOIDC, DiscoveryRetry, InitFlow, NewServer,
         DiscoveryTimeout, ListenFails, OpenStream, CloseStream, Request, Signal, Shutdown,
         ShutdownTimeout, Restart, Exit
<1>5. tls' \in {"none", "skip", "ca", "system"}
  BY TLSTypes
     DEF RunStep, Start, LoadConfig, InitPassword, InitOIDC, DiscoveryRetry, InitFlow, NewServer,
         DiscoveryTimeout, ListenFails, OpenStream, CloseStream, Request, Signal, Shutdown,
         ShutdownTimeout, Restart
<1>6. parts' \subseteq {"password", "oidc", "flow", "bearer"}
  BY DEF RunStep, Start, LoadConfig, InitPassword, InitOIDC, DiscoveryRetry, InitFlow, NewServer,
         DiscoveryTimeout, ListenFails, OpenStream, CloseStream, Request, Signal, Shutdown,
         ShutdownTimeout, Restart, Authenticator
<1>7. missing' \subseteq {"password", "oidc", "flow", "bearer"}
  <2>1. CASE \E route \in routes, who \in Callers : Request(route, who)
    <3>1. \A route, who : Uses(route, who) \subseteq {"password", "oidc"}
      BY DEF Uses
    <3> QED
      BY <2>1, <3>1 DEF Request
  <2>2. CASE ~(\E route \in routes, who \in Callers : Request(route, who))
    BY <2>2 DEF RunStep, Start, LoadConfig, InitPassword, InitOIDC, DiscoveryRetry, InitFlow,
         NewServer, DiscoveryTimeout, ListenFails, OpenStream, CloseStream, Signal, Shutdown,
         ShutdownTimeout, Restart
  <2> QED
    BY <2>1, <2>2
<1>8. PluginTypeOK'
  BY <1>2, PluginTypes
<1> QED
  BY <1>1, <1>3, <1>4, <1>5, <1>6, <1>7, <1>8

\* What run() passes on its way is what it later relies on.
LEMMA StartKeeps ==
  ASSUME RunInv, RunStep
  PROVE  StartInv'
<1> USE DEF RunInv, StartInv
<1>1. CASE LoadConfig
  BY <1>1 DEF LoadConfig, ValidateConfig, Exit
<1>2. CASE InitPassword
  BY <1>2 DEF InitPassword, ValidateConfig, Exit
<1>3. CASE InitOIDC
  BY <1>3 DEF InitOIDC, ValidateConfig, Exit
<1>4. CASE DiscoveryRetry \/ DiscoveryTimeout
  BY <1>4 DEF DiscoveryRetry, DiscoveryTimeout, ValidateConfig, Exit
<1>5. CASE InitFlow
  BY <1>5 DEF InitFlow, ValidateConfig, Exit
<1>6. CASE NewServer
  BY <1>6 DEF NewServer, Authenticator, ValidateConfig, Routes
<1>7. CASE ListenFails \/ Shutdown \/ ShutdownTimeout
  BY <1>7 DEF ListenFails, Shutdown, ShutdownTimeout, Exit
<1>8. CASE Signal
  BY <1>8 DEF Signal, Exit, ValidateConfig
<1>9. CASE OpenStream \/ CloseStream \/ \E route \in routes, who \in Callers : Request(route, who)
  BY <1>9 DEF OpenStream, CloseStream, Request, ValidateConfig, Routes
<1>10. CASE Restart
  BY <1>10 DEF Restart
<1> QED
  BY <1>1, <1>2, <1>3, <1>4, <1>5, <1>6, <1>7, <1>8, <1>9, <1>10 DEF RunStep, Start

\* A request finds what it needs: the route of a login mode, or a session that came in
\* over one, tells that its part was built.
LEMMA RequestServed ==
  ASSUME RunInv, NEW route \in routes, NEW who \in Callers, Request(route, who)
  PROVE  missing' = {}
<1>1. routes = Routes(parts) /\ (cfg.bearer => "bearer" \in parts) /\ missing = {}
  BY DEF RunInv, StartInv, DependenciesBuilt, Request
<1>2. "basic" \in cfg.modes => "password" \in parts
  BY DEF RunInv, StartInv, Request
<1>3. "oidc" \in cfg.modes => "oidc" \in parts
  BY DEF RunInv, StartInv, Request
<1>4. \A mode \in {"basic", "oidc"} : mode \in routes => mode \in cfg.modes
  BY <1>1 DEF Routes
<1>5. who \in {"basic", "oidc"} => who \in routes
  BY DEF Callers
<1>6. Uses(route, who) \subseteq parts
  <2>1. CASE route = "basic" \/ (route = "account" /\ who = "basic")
    BY <1>2, <1>4, <1>5, <2>1 DEF Uses
  <2>2. CASE route = "oidc" \/ (route \in {"logout", "k8s", "session"} /\ who = "oidc")
    BY <1>3, <1>4, <1>5, <2>2 DEF Uses
  <2>3. CASE /\ route \notin {"basic", "oidc"} /\ ~(route = "account" /\ who = "basic")
             /\ ~(route \in {"logout", "k8s", "session"} /\ who = "oidc")
    BY <2>3 DEF Uses
  <2> QED
    BY <2>1, <2>2, <2>3
<1> QED
  BY <1>1, <1>6 DEF Request

LEMMA RunKeeps == RunInv /\ [Next]_vars => RunInv'
<1> SUFFICES ASSUME RunInv, [Next]_vars PROVE RunInv'
  OBVIOUS
<1>1. CASE RunStep
  <2>1. TypeOK' /\ StartInv'
    BY <1>1, RunTypes, StartKeeps DEF RunInv
  <2>2. missing' = {}
    <3>1. CASE \E route \in routes, who \in Callers : Request(route, who)
      BY <3>1, RequestServed
    <3>2. CASE ~(\E route \in routes, who \in Callers : Request(route, who))
      BY <1>1, <3>2 DEF RunInv, DependenciesBuilt, RunStep, Start, LoadConfig, InitPassword,
         InitOIDC, DiscoveryRetry, InitFlow, NewServer, DiscoveryTimeout, ListenFails, OpenStream,
         CloseStream, Signal, Shutdown, ShutdownTimeout, Restart
    <3> QED
      BY <3>1, <3>2
  <2> QED
    BY <2>1, <2>2 DEF RunInv, DependenciesBuilt
<1>2. CASE UNCHANGED runVars /\ (UNCHANGED registryVars \/ \E cm \in ConfigMaps : Edit(cm) \/ Sync(cm))
  <2>1. PluginTypeOK'
    BY <1>2, PluginTypes DEF RunInv, TypeOK
  <2> QED
    BY <1>2, <2>1 DEF RunInv, TypeOK, StartInv, DependenciesBuilt, runVars, Routes, ValidateConfig
<1>3. CASE UNCHANGED vars
  BY <1>2, <1>3 DEF vars, pluginVars
<1>4. CASE LoadPlugins
  BY <1>2, <1>4 DEF LoadPlugins, FetchIndex, FetchFails, Import, ImportFails, Loaded
<1>5. CASE \E cm \in ConfigMaps : Watch(cm) \/ EditPlugin(cm)
  BY <1>2, <1>5 DEF Watch, SyncMeanwhile, EditPlugin, EditMeanwhile
<1>6. CASE Next
  BY <1>1, <1>4, <1>5, <1>6 DEF Next, RunStep
<1> QED
  BY <1>3, <1>6

LEMMA RunInvariant == Spec => []RunInv
  BY RunInitially, RunKeeps, PTL DEF Spec

\* The process and the registry are always in a well-typed state (run in main.go,
\* Registry).
THEOREM RunTypeCorrect == Spec => []TypeOK
<1>1. RunInv => TypeOK
  BY DEF RunInv
<1> QED
  BY <1>1, RunInvariant, PTL

\* No request, over any route and with any identity, finds a nil pointer where the
\* handler needs a part, in any configuration that validateConfig accepts (NewServer,
\* AddRoutes).
THEOREM DependenciesAreBuilt == Spec => []DependenciesBuilt
<1>1. RunInv => DependenciesBuilt
  BY DEF RunInv
<1> QED
  BY <1>1, RunInvariant, PTL

\* Every login mode that /settings advertises works (buildFrontendSettingsFromConfig).
THEOREM AdvertisedWork == Spec => []AdvertisedModesWork
<1>1. RunInv => AdvertisedModesWork
  <2> SUFFICES ASSUME RunInv, pc = "serving"
               PROVE /\ AdvertisedModes # {}
                     /\ \A mode \in AdvertisedModes :
                          mode \in routes /\ Uses(mode, mode) \subseteq parts /\ (mode = "oidc" => cfg.url)
    BY DEF AdvertisedModesWork
  <2>1. /\ ValidateConfig /\ routes = Routes(parts) /\ cfg.modes \subseteq LoginModes
        /\ ("basic" \in cfg.modes => "password" \in parts) /\ ("oidc" \in cfg.modes => "oidc" \in parts)
    BY ConfigAssumption DEF RunInv, StartInv, TypeOK, AllConfigs
  <2>2. ASSUME NEW mode \in cfg.modes PROVE Uses(mode, mode) \subseteq parts
    BY <2>1 DEF Uses, LoginModes
  <2> QED
    BY <2>1, <2>2 DEF AdvertisedModes, ValidateConfig, Routes
<1> QED
  BY <1>1, RunInvariant, PTL

=============================================================================
