------------------------ MODULE AccessResolverProofs ------------------------
(***************************************************************************)
(* Proofs about AccessResolver, for any RoleBindings, callers and number of *)
(* changes.                                                                 *)
(***************************************************************************)
EXTENDS AccessResolver, TLAPS

LEMMA InitInv == Init => TypeOK /\ ProbeInv
<1> SUFFICES ASSUME Init PROVE TypeOK /\ ProbeInv
  OBVIOUS
<1>1. \A p \in Recheckers : recheck[p].pc = "idle"
  BY DEF Init
<1>2. \A p \in Recheckers : mu # p
  BY AccessNames DEF Init, Recheckers
<1>3. TypeOK
  <2>1. recheck \in [Recheckers -> [pc : {"idle", "want", "store"}, found : SUBSET Bindings]]
    BY DEF Init
  <2>2. mu \in Recheckers \cup {Nobody} /\ changes \in 0..MaxChanges
    BY AccessNames DEF Init
  <2>3. watch \in Seq(Bindings) /\ events \in Nat
    BY DEF Init
  <2>4. Nobody \in NsNames /\ {} \in SUBSET (NsNames \cup {Star})
    BY DEF NsNames
  <2>5. req = [pc |-> "idle", user |-> Nobody, ns |-> Nobody,
               incomplete |-> FALSE, namespaces |-> {}]
    BY DEF Init, NoRequest
  <2>6. req \in [pc : {"idle", "identity", "rules", "probe", "admin", "namespaces", "list",
                      "ok", "failed"},
                user : Users \cup {Nobody}, ns : NsNames, incomplete : BOOLEAN,
                namespaces : SUBSET (NsNames \cup {Star})]
    BY <2>4, <2>5
  <2> QED BY <1>1, <1>2, <2>1, <2>2, <2>3, <2>6 DEF Init, TypeOK
<1>4. ProbeInv
  BY <1>1 DEF Init, ProbeInv, ProbeAccurate, Recheckers
<1> QED BY <1>3, <1>4

\* A request changes nothing but itself.
LEMMA RequestType ==
  ASSUME TypeOK, GetAccessSummary
  PROVE  TypeOK' /\ UNCHANGED <<cluster, stable, changes, informer, resolver>>
<1> USE DEF TypeOK, NoRequest, NsNames, informer, resolver
<1>1. CASE \E user \in Users, ns \in {b.ns : b \in Bindings} \cup {""} : RequestStart(user, ns)
  <2> PICK user \in Users, ns \in {b.ns : b \in Bindings} \cup {""} : RequestStart(user, ns)
    BY <1>1
  <2>1. ns \in NsNames
    OBVIOUS
  <2>2. req' = [pc |-> "identity", user |-> user, ns |-> ns,
                incomplete |-> FALSE, namespaces |-> {}]
    BY DEF RequestStart
  <2> QED BY <2>1, <2>2 DEF RequestStart
<1>2. CASE RequestInvalid
  BY <1>2 DEF RequestInvalid
<1>3. CASE RequestFails
  BY <1>3 DEF RequestFails
<1>4. CASE RequestIdentity
  BY <1>4 DEF RequestIdentity, RequestGoto
<1>5. CASE \E apiIncomplete \in BOOLEAN : RequestRules(apiIncomplete)
  BY <1>5 DEF RequestRules
<1>6. CASE RequestProbe
  BY <1>6 DEF RequestProbe, ClusterScopeProbeUsable
<1>7. CASE RequestClusterAdmin
  BY <1>7 DEF RequestClusterAdmin, RequestGoto
<1>8. CASE RequestAll
  BY <1>8 DEF RequestAll
<1>9. CASE RequestNamespaces
  BY <1>9 DEF RequestNamespaces
<1>10. CASE RequestList
  <2>1. NamespacesOf(index, req.user) \in SUBSET (NsNames \cup {Star})
    BY DEF NamespacesOf
  <2> QED BY <1>10, <2>1 DEF RequestList
<1> QED BY <1>1, <1>2, <1>3, <1>4, <1>5, <1>6, <1>7, <1>8, <1>9, <1>10 DEF GetAccessSummary

LEMMA TypeStep == TypeOK /\ [Next]_vars => TypeOK'
<1> SUFFICES ASSUME TypeOK, [Next]_vars PROVE TypeOK'
  OBVIOUS
<1> USE AccessNames DEF TypeOK, Recheckers, informer, resolver
<1>1. CASE \E b \in Bindings : Change(b)
  BY <1>1 DEF Change
<1>2. CASE RunStart
  BY <1>2 DEF RunStart
<1>3. CASE ApplyWatched
  BY <1>3 DEF ApplyWatched, Notify
<1>4. CASE \E b \in Bindings : ApplyListed(b)
  BY <1>4 DEF ApplyListed, Notify
<1>5. CASE RunSynced
  BY <1>5 DEF RunSynced
<1>6. CASE HandleRoleBindingEvent
  BY <1>6 DEF HandleRoleBindingEvent
<1>7. ASSUME NEW p \in Recheckers, Recheck(p) PROVE TypeOK'
  <2>1. CASE RecheckSkip(p)
    BY <2>1 DEF RecheckSkip
  <2>2. CASE RecheckList(p)
    BY <2>2 DEF RecheckList, Probe
  <2>3. CASE RecheckStore(p)
    BY <2>3 DEF RecheckStore
  <2> QED BY <1>7, <2>1, <2>2, <2>3 DEF Recheck
<1>8. CASE GetAccessSummary
  BY <1>8, RequestType
<1>9. CASE UNCHANGED vars
  BY <1>9 DEF vars
<1> QED BY <1>1, <1>2, <1>3, <1>4, <1>5, <1>6, <1>7, <1>8, <1>9 DEF Next, Inform

\* An index that changes in the probe namespace leaves a notification behind.
LEMMA NotifyMarks ==
  ASSUME TypeOK, ApplyWatched \/ \E b \in Bindings : ApplyListed(b)
  PROVE  /\ events' = 0 => events = 0 /\ Probe(index') = Probe(index)
         /\ UNCHANGED <<run, resolver>>
<1>1. CASE ApplyWatched
  <2> DEFINE b == Head(watch)
  <2>1. b \in Bindings
    BY <1>1 DEF ApplyWatched, TypeOK
  <2> QED BY <1>1, <2>1 DEF ApplyWatched, Notify, TypeOK, Probe, resolver
<1>2. CASE \E b \in Bindings : ApplyListed(b)
  BY <1>2 DEF ApplyListed, Notify, TypeOK, Probe, resolver
<1> QED BY <1>1, <1>2

LEMMA ProbeStep == TypeOK /\ ProbeInv /\ [Next]_vars => ProbeInv'
<1> SUFFICES ASSUME TypeOK, ProbeInv, [Next]_vars PROVE ProbeInv'
  OBVIOUS
<1> USE DEF ProbeInv, ProbeAccurate, Settled, Recheckers, Probe
<1>1. CASE \E b \in Bindings : Change(b)
  BY <1>1 DEF Change, resolver
<1>2. CASE RunStart
  BY <1>2 DEF RunStart, resolver
<1>3. CASE ApplyWatched \/ \E b \in Bindings : ApplyListed(b)
  <2>1. /\ events' = 0 => events = 0 /\ Probe(index') = Probe(index)
        /\ UNCHANGED <<run, mu, synced, probeUsable, recheck>>
    BY <1>3, NotifyMarks DEF resolver
  <2> QED BY <2>1
\* Nobody is in the middle of a recheck, and Run's begins.
<1>4. CASE RunSynced
  <2>1. \A p \in Recheckers : recheck[p].pc # "store"
    BY <1>4, AccessNames DEF RunSynced, TypeOK
  <2>2. recheck'["run"].pc = "want" /\ recheck'["handler"] = recheck["handler"]
    BY <1>4 DEF RunSynced, TypeOK
  <2> QED BY <1>4, <2>1, <2>2 DEF RunSynced
<1>5. CASE HandleRoleBindingEvent
  BY <1>5 DEF HandleRoleBindingEvent, TypeOK
<1>6. ASSUME NEW p \in Recheckers, Recheck(p) PROVE ProbeInv'
  <2>1. CASE RecheckSkip(p)
    BY <2>1 DEF RecheckSkip, TypeOK, informer
  <2>2. CASE RecheckList(p)
    <3>1. \A q \in Recheckers : recheck[q].pc # "store"
      BY <2>2, AccessNames DEF RecheckList, TypeOK
    <3>2. \A q \in Recheckers : recheck'[q] = IF q = p THEN [pc |-> "store", found |-> Probe(index)]
                                              ELSE recheck[q]
      BY <2>2 DEF RecheckList, TypeOK
    <3> QED BY <2>2, <3>1, <3>2 DEF RecheckList, informer
  \* The lock keeps the other recheck from storing an older finding.
  <2>3. CASE RecheckStore(p)
    <3>1. \A q \in Recheckers : q # p => recheck[q].pc # "store"
      BY <2>3, AccessNames DEF RecheckStore, TypeOK
    <3>2. \A q \in Recheckers : recheck'[q] = IF q = p THEN [pc |-> "idle", found |-> {}]
                                              ELSE recheck[q]
      BY <2>3 DEF RecheckStore, TypeOK
    <3>3. recheck[p].pc = "store" /\ synced /\ probeUsable' = (recheck[p].found = {})
      BY <2>3 DEF RecheckStore
    <3>4. UNCHANGED <<run, index, events, synced>>
      BY <2>3 DEF RecheckStore, informer
    <3>5. ProbeAccurate'
      BY <3>1, <3>2, <3>3, <3>4
    <3> QED BY <3>1, <3>2, <3>3, <3>4, <3>5
  <2> QED BY <1>6, <2>1, <2>2, <2>3 DEF Recheck
<1>7. CASE GetAccessSummary
  BY <1>7, RequestType DEF informer, resolver
<1>8. CASE UNCHANGED vars
  BY <1>8 DEF vars, informer, resolver
<1> QED BY <1>1, <1>2, <1>3, <1>4, <1>5, <1>6, <1>7, <1>8 DEF Next, Inform

\* The type invariant: every variable keeps its type and r.mu is held exactly
\* from the list to the store of recheckClusterScopeProbe.
THEOREM AccessTypeCorrect == Spec => []TypeOK
<1>1. Init => TypeOK
  BY InitInv
<1> QED BY <1>1, TypeStep, PTL DEF Spec

\* However Run's recheck and the event handler's overlap, once all of them are
\* over the flag says what the informer's index says (recheckClusterScopeProbe).
THEOREM ProbeIsAccurate == Spec => []ProbeAccurate
<1>1. Init => TypeOK /\ ProbeInv
  BY InitInv
<1>2. TypeOK /\ ProbeInv /\ [Next]_vars => (TypeOK /\ ProbeInv)'
  BY TypeStep, ProbeStep
<1>3. ProbeInv => ProbeAccurate
  BY DEF ProbeInv
<1> QED BY <1>1, <1>2, <1>3, PTL DEF Spec
-----------------------------------------------------------------------------
(***************************************************************************)
(* The cache and the answer.  A RoleBinding that is never touched is listed  *)
(* once and named by no watch event, so that the index holds it from the    *)
(* moment the listing is applied, which is before the lister is published.  *)
(***************************************************************************)
CacheInv ==
  /\ run = "start" => watch = <<>> /\ listing = {}
  /\ run # "start" => stable \subseteq listing \cup index
  /\ \A i \in 1..Len(watch) : watch[i] \notin stable
  /\ run = "done" => listing = {}

\* A request reads the index only after it has seen the lister.
AnswerInv ==
  /\ req.pc = "list" => synced
  /\ NamespacesComplete

\* Of more RoleBindings, no fewer namespaces.
LEMMA NamespacesGrow ==
  ASSUME NEW S, NEW T, S \subseteq T, NEW user
  PROVE  NamespacesOf(S, user) \subseteq NamespacesOf(T, user)
  BY DEF NamespacesOf

LEMMA CacheStep == TypeOK /\ CacheInv /\ [Next]_vars => CacheInv'
<1> SUFFICES ASSUME TypeOK, CacheInv, [Next]_vars PROVE CacheInv'
  OBVIOUS
<1> USE DEF CacheInv
<1>1. ASSUME NEW b \in Bindings, Change(b) PROVE CacheInv'
  <2>1. stable' = stable \ {b} /\ UNCHANGED <<run, listing, index>>
    BY <1>1 DEF Change
  <2>2. CASE run = "start"
    BY <1>1, <2>1, <2>2 DEF Change
  <2>3. CASE run # "start"
    <3>1. watch' = Append(watch, b) /\ watch \in Seq(Bindings)
      BY <1>1, <2>3 DEF Change, TypeOK
    <3>2. \A i \in 1..Len(watch') : (i \in 1..Len(watch) /\ watch'[i] = watch[i]) \/ watch'[i] = b
      BY <3>1
    <3>3. \A i \in 1..Len(watch') : watch'[i] \notin stable'
      BY <2>1, <3>2
    <3> QED
      BY <2>1, <2>3, <3>3
  <2> QED
    BY <2>2, <2>3
<1>2. CASE RunStart
  BY <1>2 DEF RunStart, TypeOK
<1>3. CASE ApplyWatched
  <2>1. /\ watch \in Seq(Bindings) /\ watch # <<>> /\ watch' = Tail(watch) /\ listing = {}
        /\ UNCHANGED <<run, stable, listing>>
    BY <1>3 DEF ApplyWatched, TypeOK
  <2>2. Head(watch) = watch[1] /\ 1 \in 1..Len(watch)
    BY <2>1
  <2>3. stable \subseteq index => stable' \subseteq index'
    BY <1>3, <2>1, <2>2 DEF ApplyWatched
  <2>4. \A i \in 1..Len(watch') : i + 1 \in 1..Len(watch) /\ watch'[i] = watch[i + 1]
    BY <2>1
  <2> QED
    BY <2>1, <2>3, <2>4
<1>4. ASSUME NEW b \in Bindings, ApplyListed(b) PROVE CacheInv'
  BY <1>4 DEF ApplyListed
<1>5. CASE RunSynced
  BY <1>5 DEF RunSynced
<1>6. CASE HandleRoleBindingEvent
  BY <1>6 DEF HandleRoleBindingEvent
<1>7. ASSUME NEW p \in Recheckers, Recheck(p) PROVE CacheInv'
  BY <1>7 DEF Recheck, RecheckSkip, RecheckList, RecheckStore, informer
<1>8. CASE GetAccessSummary
  BY <1>8, RequestType DEF informer
<1>9. CASE UNCHANGED vars
  BY <1>9 DEF vars, informer
<1> QED
  BY <1>1, <1>2, <1>3, <1>4, <1>5, <1>6, <1>7, <1>8, <1>9 DEF Next, Inform

LEMMA AnswerStep == TypeOK /\ ProbeInv /\ CacheInv /\ AnswerInv /\ [Next]_vars => AnswerInv'
<1> SUFFICES ASSUME TypeOK, ProbeInv, CacheInv, AnswerInv, [Next]_vars PROVE AnswerInv'
  OBVIOUS
<1>1. ASSUME UNCHANGED req, stable' \subseteq stable, synced => synced' PROVE AnswerInv'
  <2>1. NamespacesOf(stable', req.user) \subseteq NamespacesOf(stable, req.user)
    BY <1>1, NamespacesGrow
  <2>2. NamespacesOf(stable, req.user)' = NamespacesOf(stable', req.user)
    BY <1>1 DEF NamespacesOf, MatchesSubject
  <2> QED
    BY <1>1, <2>1, <2>2 DEF AnswerInv, NamespacesComplete
<1>2. CASE (\E b \in Bindings : Change(b)) \/ Inform \/ RunSynced \/ HandleRoleBindingEvent
           \/ (\E p \in Recheckers : Recheck(p)) \/ UNCHANGED vars
  BY <1>1, <1>2 DEF Change, Inform, RunStart, ApplyWatched, ApplyListed, RunSynced,
     HandleRoleBindingEvent, Recheck, RecheckSkip, RecheckList, RecheckStore, resolver, vars
<1>3. CASE GetAccessSummary
  <2>1. UNCHANGED <<stable, synced, index>>
    BY <1>3, RequestType DEF informer, resolver
  <2>2. ASSUME NEW user \in Users, NEW ns \in {b.ns : b \in Bindings} \cup {""}, RequestStart(user, ns)
        PROVE  AnswerInv'
    BY <2>2 DEF RequestStart, NoRequest, AnswerInv, NamespacesComplete
  <2>3. CASE RequestInvalid \/ RequestFails
    BY <2>3 DEF RequestInvalid, RequestFails, NoRequest, AnswerInv, NamespacesComplete
  <2>4. CASE RequestIdentity \/ RequestClusterAdmin
    BY <2>4 DEF RequestIdentity, RequestClusterAdmin, RequestGoto, TypeOK, AnswerInv, NamespacesComplete
  <2>5. ASSUME NEW apiIncomplete \in BOOLEAN, RequestRules(apiIncomplete) PROVE AnswerInv'
    BY <2>5 DEF RequestRules, TypeOK, AnswerInv, NamespacesComplete
  <2>6. CASE RequestProbe
    BY <2>6 DEF RequestProbe, TypeOK, AnswerInv, NamespacesComplete
  <2>7. CASE RequestAll
    BY <2>7 DEF RequestAll, TypeOK, AnswerInv, NamespacesComplete
  <2>8. CASE RequestNamespaces
    BY <2>1, <2>8 DEF RequestNamespaces, NoRequest, TypeOK, AnswerInv, NamespacesComplete
  <2>9. CASE RequestList
    <3>1. /\ req'.pc = "ok" /\ req'.user = req.user
          /\ req'.namespaces = NamespacesOf(index, req.user) /\ req.pc = "list"
      BY <2>9 DEF RequestList, TypeOK
    <3>2. stable \subseteq index
      BY <3>1 DEF AnswerInv, ProbeInv, CacheInv
    <3>3. NamespacesOf(stable, req.user) \subseteq req'.namespaces
      BY <3>1, <3>2, NamespacesGrow
    <3>4. NamespacesOf(stable, req.user)' = NamespacesOf(stable, req.user)
      BY <2>1, <3>1 DEF NamespacesOf, MatchesSubject
    <3> QED
      BY <3>1, <3>3, <3>4 DEF AnswerInv, NamespacesComplete
  <2> QED
    BY <1>3, <2>2, <2>3, <2>4, <2>5, <2>6, <2>7, <2>8, <2>9 DEF GetAccessSummary
<1> QED
  BY <1>2, <1>3 DEF Next

LEMMA AnswerInvariant == Spec => [](TypeOK /\ ProbeInv /\ CacheInv /\ AnswerInv)
<1>1. Init => CacheInv /\ AnswerInv
  BY DEF Init, NoRequest, CacheInv, AnswerInv, NamespacesComplete
<1>2. Init => TypeOK /\ ProbeInv
  BY InitInv
<1> QED
  BY <1>1, <1>2, TypeStep, ProbeStep, CacheStep, AnswerStep, PTL DEF Spec

\* An answer that lists namespaces is never taken from a half-filled cache: it names the
\* namespace of every RoleBinding of the caller that was there from the start (namespacesFor).
THEOREM NamespacesAreComplete == Spec => []NamespacesComplete
<1>1. AnswerInv => NamespacesComplete
  BY DEF AnswerInv
<1> QED
  BY <1>1, AnswerInvariant, PTL
=============================================================================
