----------------------------- MODULE MCServerRun -----------------------------
(* An instance of ServerRun for TLC. *)
EXTENDS ServerRun

TwoConfigMaps == {1, 2}
TwoPlugins == {"p", "q"}
TwoFiles == {"a.js", "b.js"}

Bundle(p, entry, files) == [plugin |-> p, entry |-> entry, files |-> files]

\* Two plugins, two versions of one with different entries, and a bundle without its
\* entry file, which parsePluginConfigMap refuses.
SomeBundles ==
  {Bundle("p", "a.js", {"a.js"}), Bundle("p", "b.js", {"a.js", "b.js"}),
   Bundle("q", "a.js", {"a.js"}), Bundle("q", "b.js", {"a.js"})}

\* Kubeconfig logins are built like token logins; the Flow Aggregator's settings matter
\* only when it is enabled, and one invalid setting at a time is enough.
SomeConfigs ==
  {c \in AllConfigs :
     /\ "kubeconfig" \in c.modes => "token" \in c.modes
     /\ ~c.flow => ~c.insecure /\ c.ca = "unset"
     /\ ~c.limits => c.url /\ ~c.flow /\ ~c.bearer
     /\ ~c.url => ~c.flow /\ ~c.bearer}

TokenLoginsOnly ==
  {c \in SomeConfigs : c.modes = {"token"} /\ c.url /\ c.limits /\ ~c.flow /\ ~c.bearer}
=============================================================================
