----------------------------- MODULE PluginLoad ------------------------------
(***************************************************************************)
(* A page of the frontend loads the plugins (plugins.ts): it fetches the index *)
(* of the registry and then imports the entry file of one plugin after the     *)
(* other (api/plugins.go, Registry.Index and Registry.File), while ConfigMaps   *)
(* come, go and change, requests fail and the backend restarts (ServerRun).   *)
(*                                                                         *)
(* An operator named Def_Slip is Def with one plausible slip in it; it is   *)
(* used only to confirm that a property would notice the slip.              *)
(***************************************************************************)
EXTENDS PluginRegistry, SequencesExt

VARIABLES
  todo,      \* manifests of the fetched index whose entry is still to be imported
  loaded,    \* what has been imported: a manifest of the index, and the bundle it came from
  load,      \* loadPlugins: "none", "running", or "done"
  touched    \* history: plugins of which the registry changed a bundle since the index was
             \* fetched, or whose import failed

pageVars == <<todo, loaded, load>>
pluginVars == <<registryVars, pageVars, touched>>

PageInit == todo = <<>> /\ loaded = <<>> /\ load = "none" /\ touched = {}

-----------------------------------------------------------------------------
(* What the registry answers, under its lock *)

\* sortedConfigMapNames
SortedConfigMapNames == SetToSortSeq({cm \in ConfigMaps : plugins[cm] # Absent}, <)

Manifest(contents) == [plugin |-> contents.plugin, entry |-> contents.entry, rev |-> contents.rev]

\* One round of Index's loop: the plugins claimed so far, and their manifests.
IndexRound(acc, cm) ==
  LET m == Manifest(plugins[cm]) IN
  IF m.plugin \in acc.claimed THEN acc
  ELSE [claimed |-> acc.claimed \cup {m.plugin}, manifests |-> Append(acc.manifests, m)]

\* Index
Index == FoldLeft(IndexRound, [claimed |-> {}, manifests |-> <<>>], SortedConfigMapNames).manifests

File_Last(p, filename) ==
  LET i == SelectLastInSeq(SortedConfigMapNames, LAMBDA cm : plugins[cm].plugin = p)
      c == IF i = 0 THEN Absent ELSE plugins[SortedConfigMapNames[i]]
  IN IF filename \in c.files THEN c ELSE Absent

\* File: the first ConfigMap that declares the plugin has the file, or nothing is found.
File(p, filename) ==
  LET i == SelectInSeq(SortedConfigMapNames, LAMBDA cm : plugins[cm].plugin = p)
      c == IF i = 0 THEN Absent ELSE plugins[SortedConfigMapNames[i]]
  IN IF filename \in c.files THEN c ELSE Absent

-----------------------------------------------------------------------------
(* loadPlugins *)

\* The page is opened, or reloaded, and fetches the index.
FetchIndex ==
  /\ todo' = Index /\ loaded' = <<>> /\ load' = "running" /\ touched' = {}
  /\ UNCHANGED registryVars

\* The index cannot be fetched: no plugins.
FetchFails ==
  /\ todo' = <<>> /\ loaded' = <<>> /\ load' = "none" /\ touched' = {}
  /\ UNCHANGED registryVars

\* import() of the next plugin's entry; one that is not found is logged and skipped.
Import ==
  LET m == Head(todo)
      c == File(m.plugin, m.entry)
  IN
  /\ todo # <<>>
  /\ todo' = Tail(todo)
  /\ loaded' = IF c = Absent THEN loaded ELSE Append(loaded, [manifest |-> m, from |-> c])
  /\ UNCHANGED <<registryVars, load, touched>>

\* The request for the entry fails, or the module does: logged and skipped.
ImportFails ==
  /\ todo # <<>>
  /\ todo' = Tail(todo)
  /\ touched' = touched \cup {Head(todo).plugin}
  /\ UNCHANGED <<registryVars, loaded, load>>

Loaded ==
  /\ load = "running" /\ todo = <<>>
  /\ load' = "done"
  /\ UNCHANGED <<registryVars, todo, loaded, touched>>

-----------------------------------------------------------------------------
(* The registry meanwhile *)

EditMeanwhile(cm) == Edit(cm) /\ UNCHANGED <<pageVars, touched>>

\* The registry changes: the plugin the ConfigMap declared, and the one it declares now.
SyncMeanwhile(cm) ==
  /\ Sync(cm)
  /\ touched' = IF plugins' = plugins THEN touched
                ELSE touched \cup {plugins[cm].plugin, plugins'[cm].plugin}
  /\ UNCHANGED pageVars

ResetMeanwhile ==
  /\ PluginReset
  /\ touched' = touched \cup {plugins[cm].plugin : cm \in ConfigMaps}
  /\ UNCHANGED pageVars

-----------------------------------------------------------------------------
(* Properties *)

\* The ConfigMaps of the registry that declare p; the one whose name sorts first wins.
Claims(p) == {cm \in ConfigMaps : plugins[cm] # Absent /\ plugins[cm].plugin = p}

\* What a page that has finished loading runs: of no plugin more than one module, whatever
\* changed between the index and the file, or between two files.  Of a plugin whose bundles
\* have not changed in the registry since the page fetched the index, and whose import did
\* not fail on the way, it runs exactly the entry of the ConfigMap that sorts first of
\* those that declare the plugin, in the version listed, whatever happened to other
\* plugins; or nothing, if no ConfigMap declares it.
LoadsWhatWasListed ==
  load = "done" => \A p \in PluginNames :
    LET mine == SelectSeq(loaded, LAMBDA l : l.manifest.plugin = p)
        winner == plugins[Min(Claims(p))]
    IN
    /\ Len(mine) <= 1
    /\ p \notin touched =>
         mine = IF Claims(p) = {} THEN <<>> ELSE <<[manifest |-> Manifest(winner), from |-> winner]>>
=============================================================================
