--------------------------- MODULE PluginRegistry ----------------------------
(***************************************************************************)
(* The frontend plugins the backend serves (pkg/plugins): ConfigMaps come, go *)
(* and change; an informer reports the difference between what it has seen     *)
(* and what is there, in the end; the registry keeps the last valid bundle of  *)
(* each.  A bundle is abstracted to the plugin and the entry file its manifest  *)
(* names, the names of its files, and the edit that wrote it.                 *)
(*                                                                         *)
(* An operator named Def_Slip is Def with one plausible slip in it; it is   *)
(* used only to confirm that a property would notice the slip.              *)
(***************************************************************************)
EXTENDS Integers

CONSTANTS
  ConfigMaps,                 \* numbers, for names in their order
  PluginNames, FileNames,
  Bundles,                    \* what a ConfigMap may hold; "" is a name left out
  MaxEdits                    \* bound: changes to ConfigMaps

ASSUME PluginConstants == ConfigMaps \subseteq Nat /\ MaxEdits \in Nat

ASSUME PluginBundles ==
  /\ "" \notin PluginNames \cup FileNames
  /\ Bundles \subseteq [plugin : PluginNames \cup {""}, entry : FileNames \cup {""},
                       files : SUBSET FileNames]

VARIABLES
  cms,       \* the labelled ConfigMaps of the cluster
  seen,      \* the informer's copy of them
  plugins,   \* Registry.plugins
  edits      \* changes so far

registryVars == <<cms, seen, plugins, edits>>

Written(bundle, rev) ==
  [plugin |-> bundle.plugin, entry |-> bundle.entry, files |-> bundle.files, rev |-> rev]

\* A ConfigMap that is not there.
Absent == [plugin |-> "", entry |-> "", files |-> {}, rev |-> 0]
Empty == [cm \in ConfigMaps |-> Absent]

PluginInit == cms = Empty /\ seen = Empty /\ plugins = Empty /\ edits = 0

\* A ConfigMap is created or updated, with a valid bundle or without, or deleted.
Edit(cm) ==
  /\ edits < MaxEdits
  /\ edits' = edits + 1
  /\ \/ \E bundle \in Bundles : cms' = [cms EXCEPT ![cm] = Written(bundle, edits + 1)]
     \/ cms[cm] # Absent /\ cms' = [cms EXCEPT ![cm] = Absent]
  /\ UNCHANGED <<seen, plugins>>

AsConfigMap_NoTombstone(tombstone) == ~tombstone

\* asConfigMap: the object, or the last known one inside a tombstone.
AsConfigMap(tombstone) == TRUE

\* parsePluginConfigMap: a manifest with a name, and the entry file it names.
Valid(contents) == contents.plugin # "" /\ contents.entry # "" /\ contents.entry \in contents.files

\* handleUpsert: a bundle that parsePluginConfigMap rejects changes nothing.
HandleUpsert(cm) ==
  plugins' = IF Valid(cms[cm]) THEN [plugins EXCEPT ![cm] = cms[cm]] ELSE plugins

\* handleDelete
HandleDelete(cm, tombstone) ==
  plugins' = IF AsConfigMap(tombstone) THEN [plugins EXCEPT ![cm] = Absent] ELSE plugins

\* The informer notices a change and calls the handler.  It hears of a deletion from
\* the watch, or finds out after a watch that broke, and reports a tombstone.
Sync(cm) ==
  /\ seen[cm] # cms[cm]
  /\ seen' = [seen EXCEPT ![cm] = cms[cm]]
  /\ IF cms[cm] = Absent
     THEN \E tombstone \in BOOLEAN : HandleDelete(cm, tombstone)
     ELSE HandleUpsert(cm)
  /\ UNCHANGED <<cms, edits>>

\* The backend starts over.
PluginReset == seen' = Empty /\ plugins' = Empty /\ UNCHANGED <<cms, edits>>

Contents ==
  [plugin : PluginNames \cup {""}, entry : FileNames \cup {""}, files : SUBSET FileNames,
   rev : 0..MaxEdits]

PluginTypeOK ==
  /\ cms \in [ConfigMaps -> Contents] /\ seen \in [ConfigMaps -> Contents]
  /\ plugins \in [ConfigMaps -> Contents] /\ edits \in 0..MaxEdits

\* The registry holds what the cluster does, but for ConfigMaps that are not valid.
InStep == \A cm \in ConfigMaps : cms[cm] = Absent \/ Valid(cms[cm]) => plugins[cm] = cms[cm]
=============================================================================
