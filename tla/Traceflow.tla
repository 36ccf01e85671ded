------------------------------ MODULE Traceflow ------------------------------
(***************************************************************************)
(* Traceflow requests (handlers/traceflow, server/api/traceflow.go): created, *)
(* polled, read and deleted as the user, and collected by the backend an hour  *)
(* later when nobody deleted them.  Answers are lost, the backend restarts,    *)
(* API calls fail.                                                           *)
(*                                                                         *)
(* Names are UUIDs: a name here stands for another one when it is used again,  *)
(* which it is only once nobody knows the one before.                         *)
(*                                                                         *)
(* An operator named Def_Slip is Def with one plausible slip in it; it is   *)
(* used only to confirm that a property would notice the slip.              *)
(***************************************************************************)
EXTENDS RateLimiter

CONSTANTS
  Names,                      \* bound: Traceflow objects at one time
  ExpiryTimeout,              \* traceflowExpiryTimeout
  TraceflowBurst,             \* burstSize of the rate limiter, when there is one
  Limits                      \* settings of MaxTraceflowsPerHour to consider

ASSUME TraceflowConstants ==
  ExpiryTimeout \in Nat /\ TraceflowBurst \in Nat \ {0} /\ Limits \subseteq Int

VARIABLES
  limit,     \* MaxTraceflowsPerHour
  bucket,    \* tokens of the global rate limiter
  tf,        \* the Traceflow objects in the cluster
  known,     \* what the browser that created the object knows of it
  gc         \* the collector: its step, what List returned, what is left to delete

traceflowVars == <<limit, bucket, tf, known, gc>>

\* phase: status.phase, "none" while the controller has not set it.  age: since the
\* creationTimestamp; older than Expiry is as old as it gets.
None == [here |-> FALSE, ui |-> FALSE, age |-> 0, phase |-> "none"]
New(ui) == [here |-> TRUE, ui |-> ui, age |-> 0, phase |-> "none"]
Resting == [pc |-> "wait", set |-> {}]

BurstSize(l) == IF l > 0 THEN TraceflowBurst ELSE 0

TraceflowInit ==
  /\ limit \in Limits
  /\ bucket = BurstSize(limit)
  /\ tf = [n \in Names |-> None]
  /\ known = [n \in Names |-> "no"]
  /\ gc = Resting

-----------------------------------------------------------------------------
(* The routes *)

\* AddTraceflowRoutes: no limiter for a negative limit, one that admits nobody for 0.
Admitted == limit < 0 \/ bucket >= 1

Unknown(n) == ~tf[n].here /\ known[n] = "no" /\ n \notin gc.set

\* CreateTraceflowRequest.  The answer may be lost, and the object is there all the
\* same.
Create(n) ==
  /\ Admitted
  /\ Unknown(n)
  /\ bucket' = IF limit <= 0 THEN bucket ELSE bucket - 1
  /\ tf' = [tf EXCEPT ![n] = New(TRUE)]
  /\ known' \in {known, [known EXCEPT ![n] = "created"]}
  /\ UNCHANGED <<limit, gc>>

\* A request that the API server refuses has used up a token.
CreateFails ==
  /\ Admitted
  /\ limit >= 0
  /\ bucket' = bucket - 1
  /\ UNCHANGED <<limit, tf, known, gc>>

\* getTraceflow
Finished(n) == tf[n].phase \in {"Succeeded", "Failed"}

\* GetTraceflowRequestStatus: poll again, or a redirect to the result.
GetStatus(n) ==
  /\ known[n] # "no"
  /\ tf[n].here
  /\ known' = [known EXCEPT ![n] = IF Finished(n) THEN "done" ELSE @]
  /\ UNCHANGED <<limit, bucket, tf, gc>>

\* GetTraceflowRequestResult, once the status says so: the result, or a 404, and the
\* browser is through with it.
GetResult(n) ==
  /\ known[n] = "done"
  /\ known' = [known EXCEPT ![n] = IF tf[n].here /\ Finished(n) THEN "result" ELSE "no"]
  /\ UNCHANGED <<limit, bucket, tf, gc>>

\* DeleteTraceflowRequest: a 404 if it is gone already.
Delete(n) ==
  /\ known[n] # "no"
  /\ tf' = [tf EXCEPT ![n] = None]
  /\ known' = [known EXCEPT ![n] = "no"]
  /\ UNCHANGED <<limit, bucket, gc>>

\* The tab is closed, or an error ends the polling.
Forget(n) ==
  /\ known[n] # "no"
  /\ known' = [known EXCEPT ![n] = "no"]
  /\ UNCHANGED <<limit, bucket, tf, gc>>

-----------------------------------------------------------------------------
(* The collector *)

Labelled_All == {n \in Names : tf[n].here}

\* The label selector of doGC.
Labelled == {n \in Names : tf[n].here /\ tf[n].ui}

\* doGC.  A List that fails ends the round with nothing done.
List ==
  /\ gc.pc = "wait"
  /\ gc' = [pc |-> "listed", set |-> Labelled]
  /\ UNCHANGED <<limit, bucket, tf, known>>

Expired_AtTimeout(n) == tf[n].age >= ExpiryTimeout

Expired(n) == tf[n].age > ExpiryTimeout

\* The clock is read after the List.
Pick ==
  /\ gc.pc = "listed"
  /\ gc' = [pc |-> "delete", set |-> {n \in gc.set : Expired(n)}]
  /\ UNCHANGED <<limit, bucket, tf, known>>

\* One Delete.  It may find the object gone.
Collect(n) ==
  /\ gc.pc = "delete" /\ n \in gc.set
  /\ tf' = [tf EXCEPT ![n] = None]
  /\ gc' = [gc EXCEPT !.set = @ \ {n}]
  /\ UNCHANGED <<limit, bucket, known>>

\* One Delete fails: the next round will try again.
CollectFails(n) ==
  /\ gc.pc = "delete" /\ n \in gc.set
  /\ gc' = [gc EXCEPT !.set = @ \ {n}]
  /\ UNCHANGED <<limit, bucket, tf, known>>

EndRound_Stops ==
  /\ gc.pc = "delete" /\ gc.set = {}
  /\ gc' = [Resting EXCEPT !.pc = "stopped"]
  /\ UNCHANGED <<limit, bucket, tf, known>>

\* BackoffUntil: the next round follows in gcPeriod.
EndRound ==
  /\ gc.pc = "delete" /\ gc.set = {}
  /\ gc' = Resting
  /\ UNCHANGED <<limit, bucket, tf, known>>

\* The backend restarts, with a full bucket and a collector at its start.
Restart ==
  /\ gc' = Resting
  /\ bucket' = BurstSize(limit)
  /\ UNCHANGED <<limit, tf, known>>

-----------------------------------------------------------------------------
(* The cluster *)

\* The Antrea controller moves a Traceflow on.
Progress(n, phase) ==
  /\ tf[n].here /\ ~ (tf[n].phase \in {"Succeeded", "Failed"}) /\ phase # tf[n].phase
  /\ tf' = [tf EXCEPT ![n].phase = phase]
  /\ UNCHANGED <<limit, bucket, known, gc>>

\* A Traceflow that was not made here comes and goes.
Kubectl(n) ==
  /\ \/ Unknown(n) /\ tf' = [tf EXCEPT ![n] = New(FALSE)]
     \/ tf[n].here /\ ~tf[n].ui /\ tf' = [tf EXCEPT ![n] = None]
  /\ UNCHANGED <<limit, bucket, known, gc>>

Age ==
  /\ tf' = [n \in Names |->
       IF tf[n].here THEN [tf[n] EXCEPT !.age = Min({@ + 1, ExpiryTimeout + 1})] ELSE tf[n]]
  /\ bucket' = IF limit < 0 THEN bucket
               ELSE Tokens([tokens |-> bucket, last |-> 0], 1, limit, BurstSize(limit))
  /\ UNCHANGED <<limit, known, gc>>

TraceflowNext ==
  \/ \E n \in Names :
       \/ Create(n) \/ GetStatus(n) \/ GetResult(n) \/ Delete(n) \/ Forget(n)
       \/ Collect(n) \/ CollectFails(n) \/ Kubectl(n)
       \/ \E phase \in {"Running", "Succeeded", "Failed"} : Progress(n, phase)
  \/ CreateFails \/ List \/ Pick \/ EndRound \/ Restart \/ Age

\* Time passes, and the collector's goroutine keeps running its rounds; they
\* are cut short now and then, and the API server fails a delete now and then, but
\* not for ever.
Fairness ==
  /\ WF_traceflowVars(Age)
  /\ WF_traceflowVars(List) /\ SF_traceflowVars(Pick) /\ SF_traceflowVars(EndRound)
  /\ \A n \in Names : SF_traceflowVars(Collect(n))

TraceflowSpec == TraceflowInit /\ [][TraceflowNext]_traceflowVars /\ Fairness

-----------------------------------------------------------------------------
(* Properties *)

Objects ==
  [here : BOOLEAN, ui : BOOLEAN, age : 0..(ExpiryTimeout + 1),
   phase : {"none", "Running", "Succeeded", "Failed"}]

\* Type invariant; with a limit of 0 nothing is ever created here.
TraceflowTypeOK ==
  /\ limit \in Limits
  /\ bucket \in 0..BurstSize(limit)
  /\ tf \in [Names -> Objects]
  /\ known \in [Names -> {"no", "created", "done", "result"}]
  /\ gc \in [pc : {"wait", "listed", "delete"}, set : SUBSET Names]
  /\ limit = 0 => \A n \in Names : ~tf[n].ui

\* The collector never deletes a Traceflow that was made elsewhere, nor one less
\* than an hour old, although it decides on a list and deletes one by one later.
CollectsOnlyStale ==
  [][\A n \in Names : gc.pc = "delete" /\ n \in gc.set \ gc'.set /\ tf[n].here =>
       tf[n].ui /\ tf[n].age > ExpiryTimeout]_traceflowVars

\* Who was sent to the result gets a result: the object is finished, or it is gone,
\* but the answer is never "not available, call the /status endpoint".
ResultAfterDone ==
  \A n \in Names : known[n] = "done" /\ tf[n].here => tf[n].phase \in {"Succeeded", "Failed"}

\* Every Traceflow made here is deleted some time: also one whose Location never
\* arrived, whose browser is gone, whose deletion failed, through restarts.
AllCollected == \A n \in Names : tf[n].here /\ tf[n].ui ~> ~tf[n].here
=============================================================================
