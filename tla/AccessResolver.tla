--------------------------- MODULE AccessResolver ---------------------------
(***************************************************************************)
(* The access summary (pkg/handlers/access, pkg/server/api/access.go): the  *)
(* resolver that watches RoleBindings through an informer, the flag that    *)
(* says whether the cluster-scope probe namespace is free of them, and a    *)
(* request for GET /access-summary that combines four API calls with it.    *)
(*                                                                         *)
(* The informer first applies what it listed, in any order, then the watch  *)
(* events in theirs, and notifies the handler after it updated its index.   *)
(* Its periodic resync, which only repeats notifications, is left out.      *)
(*                                                                         *)
(* An operator named Def_Slip is Def with one plausible slip in it; it is   *)
(* used only to confirm that a property would notice the slip.              *)
(***************************************************************************)
EXTENDS Naturals, Sequences

CONSTANTS
  Bindings,     \* RoleBindings that may exist: [ns, subjects]
  ProbeNs,      \* ClusterScopeProbeNamespace
  Users,        \* callers: [username, groups, admin, lists]
  Star,         \* the answer ["*"]
  Nobody,
  MaxChanges    \* bound: RoleBindings created or deleted

ASSUME AccessNames == MaxChanges \in Nat /\ Nobody \notin {"run", "handler"}

VARIABLES
  cluster,      \* the RoleBindings in the API server
  stable,       \* history: those there from the start and never deleted
  changes,
  run,          \* Run: "start", "wait", "done"
  listing,      \* listed, not yet in the index
  watch,        \* watch events not yet applied
  index,        \* the informer's index, behind the lister
  events,       \* notifications about the probe namespace not yet handled
  mu,           \* who holds r.mu for writing
  synced, probeUsable,
  recheck,      \* recheckClusterScopeProbe, by Run or by the event handler
  req           \* a request for the summary

informer == <<run, listing, watch, index, events>>
resolver == <<mu, synced, probeUsable, recheck>>
vars == <<cluster, stable, changes, informer, resolver, req>>

Recheckers == {"run", "handler"}

Probe(S) == {b \in S : b.ns = ProbeNs}

NoRequest == [pc |-> "idle", user |-> Nobody, ns |-> Nobody,
              incomplete |-> FALSE, namespaces |-> {}]

Init ==
  /\ cluster \in SUBSET Bindings
  /\ stable = cluster
  /\ changes = 0
  /\ run = "start" /\ listing = {} /\ watch = <<>> /\ index = {} /\ events = 0
  /\ mu = Nobody
  /\ synced = FALSE /\ probeUsable = TRUE
  /\ recheck = [p \in Recheckers |-> [pc |-> "idle", found |-> {}]]
  /\ req = NoRequest

-----------------------------------------------------------------------------
(* The cluster *)

\* Bound: MaxChanges.
Change(b) ==
  /\ changes < MaxChanges
  /\ changes' = changes + 1
  /\ cluster' = IF b \in cluster THEN cluster \ {b} ELSE cluster \cup {b}
  /\ stable' = stable \ {b}
  /\ watch' = IF run = "start" THEN watch ELSE Append(watch, b)
  /\ UNCHANGED <<run, listing, index, events, resolver, req>>

-----------------------------------------------------------------------------
(* The informer *)

\* Run: the handlers are registered and the informer lists.
RunStart ==
  /\ run = "start"
  /\ run' = "wait"
  /\ listing' = cluster
  /\ UNCHANGED <<cluster, stable, changes, watch, index, events, resolver, req>>

Notify(b) == events' = IF b.ns = ProbeNs THEN events + 1 ELSE events

ApplyListed(b) ==
  /\ b \in listing
  /\ listing' = listing \ {b}
  /\ index' = index \cup {b}
  /\ Notify(b)
  /\ UNCHANGED <<cluster, stable, changes, run, watch, resolver, req>>

ApplyWatched ==
  /\ listing = {} /\ watch # <<>>
  /\ LET b == Head(watch) IN
       /\ index' = IF b \in index THEN index \ {b} ELSE index \cup {b}
       /\ Notify(b)
  /\ watch' = Tail(watch)
  /\ UNCHANGED <<cluster, stable, changes, run, listing, resolver, req>>

-----------------------------------------------------------------------------
(* The resolver *)

RunSynced_NoRecheck ==
  /\ run = "wait" /\ listing = {}
  /\ mu = Nobody
  /\ run' = "done"
  /\ synced' = TRUE
  /\ UNCHANGED <<cluster, stable, changes, listing, watch, index, events, mu, probeUsable,
                 recheck, req>>

\* Run, once HasSynced: the lister is published, and the probe checked.
RunSynced ==
  /\ run = "wait" /\ listing = {}
  /\ mu = Nobody
  /\ run' = "done"
  /\ synced' = TRUE
  /\ recheck' = [recheck EXCEPT !["run"].pc = "want"]
  /\ UNCHANGED <<cluster, stable, changes, listing, watch, index, events, mu, probeUsable, req>>

\* The informer calls the handler for one event after the other.
HandleRoleBindingEvent ==
  /\ events > 0
  /\ recheck["handler"].pc = "idle"
  /\ events' = events - 1
  /\ recheck' = [recheck EXCEPT !["handler"].pc = "want"]
  /\ UNCHANGED <<cluster, stable, changes, run, listing, watch, index, mu, synced,
                 probeUsable, req>>

\* Without a lister there is nothing to check.
RecheckSkip(p) ==
  /\ recheck[p].pc = "want"
  /\ mu = Nobody
  /\ ~synced
  /\ recheck' = [recheck EXCEPT ![p].pc = "idle"]
  /\ UNCHANGED <<cluster, stable, changes, informer, mu, synced, probeUsable, req>>

RecheckList_Unlocked(p) ==
  /\ recheck[p].pc = "want"
  /\ synced
  /\ recheck' = [recheck EXCEPT ![p] = [pc |-> "store", found |-> Probe(index)]]
  /\ UNCHANGED <<cluster, stable, changes, informer, mu, synced, probeUsable, req>>

\* The list and the store, under one write lock
RecheckList(p) ==
  /\ recheck[p].pc = "want"
  /\ mu = Nobody
  /\ synced
  /\ mu' = p
  /\ recheck' = [recheck EXCEPT ![p] = [pc |-> "store", found |-> Probe(index)]]
  /\ UNCHANGED <<cluster, stable, changes, informer, synced, probeUsable, req>>

RecheckStore(p) ==
  /\ recheck[p].pc = "store"
  /\ probeUsable' = (recheck[p].found = {})
  /\ mu' = Nobody
  /\ recheck' = [recheck EXCEPT ![p] = [pc |-> "idle", found |-> {}]]
  /\ UNCHANGED <<cluster, stable, changes, informer, synced, req>>

ClusterScopeProbeUsable == ~synced \/ probeUsable

\* matchesSubject.  The username of a ServiceAccount is <<namespace, name>>.
MatchesSubject(sub, rbNamespace, user) ==
  CASE sub.kind = "User"  -> sub.name = user.username
    [] sub.kind = "Group" -> sub.name \in user.groups
    [] sub.kind = "ServiceAccount" ->
         user.username = <<IF sub.ns = "" THEN rbNamespace ELSE sub.ns, sub.name>>
    [] OTHER -> FALSE

NamespacesOf(S, user) ==
  {b.ns : b \in {x \in S : \E sub \in x.subjects : MatchesSubject(sub, x.ns, user)}}

-----------------------------------------------------------------------------
(* GetAccessSummary *)

RequestOver == req.pc \in {"idle", "ok", "failed"}

\* No namespace asks for the cluster-scoped rules.
RequestStart(user, ns) ==
  /\ RequestOver
  /\ req' = [NoRequest EXCEPT !.pc = "identity", !.user = user, !.ns = ns]
  /\ UNCHANGED <<cluster, stable, changes, informer, resolver>>

\* A namespace that is not a DNS label is refused before any call.
RequestInvalid ==
  /\ RequestOver
  /\ req' = [NoRequest EXCEPT !.pc = "failed"]
  /\ UNCHANGED <<cluster, stable, changes, informer, resolver>>

RequestGoto(from, to) == req.pc = from /\ req' = [req EXCEPT !.pc = to]

\* Building the client or one of the calls to the API server fails: no part of
\* the answer is sent.  A 401 also ends the session (Invalidate of SessionStore).
RequestFails ==
  /\ req.pc \in {"identity", "rules", "admin", "namespaces"}
  /\ req' = [NoRequest EXCEPT !.pc = "failed"]
  /\ UNCHANGED <<cluster, stable, changes, informer, resolver>>

RequestIdentity ==
  /\ RequestGoto("identity", "rules")
  /\ UNCHANGED <<cluster, stable, changes, informer, resolver>>

\* SelfSubjectRulesReview, for the probe namespace if none is named: a
\* RoleBinding of the caller there then leaks into the cluster-scoped rules.
RequestRules(apiIncomplete) ==
  /\ req.pc = "rules"
  /\ req' = [req EXCEPT !.pc = "probe", !.incomplete = apiIncomplete]
  /\ UNCHANGED <<cluster, stable, changes, informer, resolver>>

RequestProbe ==
  /\ req.pc = "probe"
  /\ mu = Nobody
  /\ req' = [req EXCEPT !.pc = "admin",
                        !.incomplete = @ \/ (req.ns = "" /\ ~ClusterScopeProbeUsable)]
  /\ UNCHANGED <<cluster, stable, changes, informer, resolver>>

RequestClusterAdmin ==
  /\ RequestGoto("admin", "namespaces")
  /\ UNCHANGED <<cluster, stable, changes, informer, resolver>>

RequestAll ==
  /\ req.pc = "namespaces"
  /\ req.user.admin \/ req.user.lists
  /\ req' = [req EXCEPT !.pc = "ok", !.namespaces = {Star}]
  /\ UNCHANGED <<cluster, stable, changes, informer, resolver>>

RequestNamespaces_NeverUnavailable ==
  /\ req.pc = "namespaces"
  /\ ~req.user.admin /\ ~req.user.lists
  /\ mu = Nobody
  /\ req' = IF synced THEN [req EXCEPT !.pc = "list"] ELSE [req EXCEPT !.pc = "ok"]
  /\ UNCHANGED <<cluster, stable, changes, informer, resolver>>

\* namespacesFor: 503 as long as the cache has not synced
RequestNamespaces ==
  /\ req.pc = "namespaces"
  /\ ~req.user.admin /\ ~req.user.lists
  /\ mu = Nobody
  /\ req' = IF synced THEN [req EXCEPT !.pc = "list"] ELSE [NoRequest EXCEPT !.pc = "failed"]
  /\ UNCHANGED <<cluster, stable, changes, informer, resolver>>

\* NamespacesFor reads the index after it gave up r.mu.
RequestList ==
  /\ req.pc = "list"
  /\ req' = [req EXCEPT !.pc = "ok", !.namespaces = NamespacesOf(index, req.user)]
  /\ UNCHANGED <<cluster, stable, changes, informer, resolver>>

-----------------------------------------------------------------------------
Inform == RunStart \/ ApplyWatched \/ \E b \in Bindings : ApplyListed(b)

Recheck(p) == RecheckSkip(p) \/ RecheckList(p) \/ RecheckStore(p)

GetAccessSummary ==
  \/ \E user \in Users, ns \in {b.ns : b \in Bindings} \cup {""} : RequestStart(user, ns)
  \/ RequestInvalid \/ RequestFails
  \/ RequestIdentity
  \/ \E apiIncomplete \in BOOLEAN : RequestRules(apiIncomplete)
  \/ RequestProbe \/ RequestClusterAdmin
  \/ RequestAll \/ RequestNamespaces \/ RequestList

Next ==
  \/ \E b \in Bindings : Change(b)
  \/ Inform
  \/ RunSynced \/ HandleRoleBindingEvent
  \/ \E p \in Recheckers : Recheck(p)
  \/ GetAccessSummary

Spec == Init /\ [][Next]_vars

\* The informer makes progress, and its goroutine and Run's are scheduled.
Fairness ==
  /\ WF_vars(Inform) /\ WF_vars(HandleRoleBindingEvent) /\ SF_vars(RunSynced)
  /\ \A p \in Recheckers : WF_vars(RecheckStore(p)) /\ SF_vars(RecheckSkip(p) \/ RecheckList(p))

FairSpec == Spec /\ Fairness

-----------------------------------------------------------------------------
(* Properties *)

NsNames == {b.ns : b \in Bindings} \cup {"", Nobody}

\* Type invariant; r.mu is held exactly from the list to the store of a recheck.
TypeOK ==
  /\ cluster \subseteq Bindings /\ stable \subseteq cluster
  /\ changes \in 0..MaxChanges
  /\ run \in {"start", "wait", "done"}
  /\ listing \subseteq Bindings /\ watch \in Seq(Bindings) /\ index \subseteq Bindings
  /\ events \in Nat
  /\ mu \in Recheckers \cup {Nobody}
  /\ synced \in BOOLEAN /\ probeUsable \in BOOLEAN
  /\ recheck \in [Recheckers -> [pc : {"idle", "want", "store"}, found : SUBSET Bindings]]
  /\ \A p \in Recheckers : recheck[p].pc = "store" <=> mu = p
  /\ req \in [pc : {"idle", "identity", "rules", "probe", "admin", "namespaces", "list",
                    "ok", "failed"},
              user : Users \cup {Nobody}, ns : NsNames, incomplete : BOOLEAN,
              namespaces : SUBSET (NsNames \cup {Star})]

Settled == events = 0 /\ \A p \in Recheckers : recheck[p].pc = "idle"

\* Once every notification has been handled, the flag says what the index says:
\* no older recheck has stored its finding over a newer one
\* (recheckClusterScopeProbe lists and stores under one lock).
ProbeAccurate == synced /\ Settled => (probeUsable <=> Probe(index) = {})

\* What makes ProbeAccurate inductive.  Run's recheck may be out of date while
\* the handler has work, because the handler's comes after it.
ProbeInv ==
  /\ synced => run = "done"
  /\ \A p \in Recheckers : recheck[p].pc = "store" => synced
  /\ events = 0 /\ recheck["handler"].pc = "store" => recheck["handler"].found = Probe(index)
  /\ events = 0 /\ recheck["handler"].pc = "idle" /\ recheck["run"].pc = "store"
       => recheck["run"].found = Probe(index)
  /\ ProbeAccurate

\* "Substituting [an empty list] for 'I could not tell' would report something
\* false" (namespacesFor): an answer names the namespace of every RoleBinding
\* of the caller that was there from the start, never a half-filled cache.
NamespacesComplete ==
  req.pc = "ok" => Star \in req.namespaces \/ NamespacesOf(stable, req.user) \subseteq req.namespaces

\* "antrea-ui detects it if they do", and "recovers automatically"
\* (docs/authentication.md): a RoleBinding that stays in the probe namespace is
\* in the end reported, and so is its absence.
ProbeNoticed ==
  /\ (<>[](Probe(cluster) # {})) => <>[]~ClusterScopeProbeUsable
  /\ (<>[](Probe(cluster) = {})) => <>[]ClusterScopeProbeUsable
=============================================================================
