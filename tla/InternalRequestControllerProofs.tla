------------------- MODULE InternalRequestControllerProofs -------------------
(***************************************************************************)
(* What holds of the controller for any requests, runs, specs, configs and *)
(* bounds.                                                                 *)
(***************************************************************************)
EXTENDS InternalRequestController, TLAPS

-----------------------------------------------------------------------------
(* The operators on a single InternalRequest.                              *)

(* The conditions the methods of the status set are told apart.            *)
LEMMA ConditionsDiffer ==
    /\ NoCondition # Running /\ NoCondition # Rejected /\ NoCondition # Failed
    /\ NoCondition # Succeeded /\ Running # Rejected /\ Running # Failed
    /\ Running # Succeeded /\ Rejected # Failed /\ Rejected # Succeeded
    /\ Failed # Succeeded
BY DEF NoCondition, Running, Rejected, Failed, Succeeded, Condition

(* A request has completed when its condition is one of the final three.   *)
LEMMA CompletedConditions ==
    ASSUME NEW req \in InternalRequest
    PROVE  /\ HasCompleted(req) <=> req.cond \in {Rejected, Failed, Succeeded}
           /\ IsRunning(req) <=> req.cond = Running
BY DEF InternalRequest, HasCompleted, IsRunning, Conditions, NoCondition, Running,
       Rejected, Failed, Succeeded, Condition

(* The API's three readers agree: a request that has completed has either  *)
(* succeeded or failed, and not both; one that runs has not completed.     *)
LEMMA OutcomeIsEither ==
    ASSUME NEW req \in InternalRequest
    PROVE  /\ HasCompleted(req) <=> HasSucceeded(req) \/ HasFailed(req)
           /\ ~(HasSucceeded(req) /\ HasFailed(req))
           /\ IsRunning(req) => ~HasCompleted(req)
BY DEF InternalRequest, HasCompleted, HasSucceeded, HasFailed, IsRunning, Conditions,
       NoCondition, Running, Rejected, Failed, Succeeded, Condition

(* A request as it is created, and what is left of it, are requests.       *)
LEMMA NewRequestType ==
    ASSUME NEW uid \in Nat, NEW spec \in Specs, NEW finalizers \in SUBSET Finalizers
    PROVE  /\ NewRequest(uid, spec, finalizers) \in InternalRequest
           /\ Absent(uid) \in InternalRequest
<1>1. (CHOOSE s \in Specs : TRUE) \in Specs
  BY SpecsAssumption
<1>2. NewRequest(uid, spec, finalizers) \in InternalRequest
  BY DEF NewRequest, InternalRequest, Conditions, NoCondition
<1>3. NewRequest(uid, CHOOSE s \in Specs : TRUE, {}) \in InternalRequest
  BY <1>1 DEF NewRequest, InternalRequest, Conditions, NoCondition, Finalizers
<1> QED BY <1>2, <1>3 DEF Absent, InternalRequest

LEMMA AbsentType == Absent(0) \in InternalRequest
<1>1. PICK s \in Specs : TRUE
  BY SpecsAssumption
<1> QED BY <1>1, NewRequestType

(* The methods that mark a request give a request back.                    *)
LEMMA MarkType ==
    ASSUME NEW req \in InternalRequest
    PROVE  /\ MarkRunning(req) \in InternalRequest
           /\ MarkRejected(req) \in InternalRequest
           /\ MarkFailed(req) \in InternalRequest
           /\ MarkSucceeded(req) \in InternalRequest
<1>1. {Running, Rejected, Failed, Succeeded} \subseteq Conditions
  BY DEF Conditions
<1>2. IsRunning(req) \in BOOLEAN
  BY DEF IsRunning
<1>3. MarkRunning(req) \in InternalRequest
  BY <1>1, <1>2 DEF MarkRunning, InternalRequest
<1> QED BY <1>1, <1>3 DEF MarkRejected, MarkFailed, MarkSucceeded, InternalRequest

(* So does a merge patch; it leaves alone what no method writes, and takes *)
(* every other field from one of its three arguments.                      *)
LEMMA MergePatchFields ==
    ASSUME NEW stored \in InternalRequest, NEW base \in InternalRequest,
           NEW new \in InternalRequest
    PROVE  LET req == MergePatch(stored, base, new) IN
           /\ req \in InternalRequest
           /\ req.live = stored.live /\ req.uid = stored.uid
           /\ req.generation = stored.generation /\ req.spec = stored.spec
           /\ req.deleting = stored.deleting
           /\ req.finalizers = Merged(stored.finalizers, base.finalizers, new.finalizers)
           /\ req.cond = Merged(stored.cond, base.cond, new.cond)
           /\ req.startTime = Merged(stored.startTime, base.startTime, new.startTime)
           /\ req.completionTime =
                Merged(stored.completionTime, base.completionTime, new.completionTime)
           /\ req.pipelineRun = Merged(stored.pipelineRun, base.pipelineRun, new.pipelineRun)
           /\ req.results = Merged(stored.results, base.results, new.results)
<1>1. /\ Merged(stored.finalizers, base.finalizers, new.finalizers) \in SUBSET Finalizers
      /\ Merged(stored.cond, base.cond, new.cond) \in Conditions
      /\ Merged(stored.startTime, base.startTime, new.startTime) \in BOOLEAN
      /\ Merged(stored.completionTime, base.completionTime, new.completionTime) \in BOOLEAN
      /\ Merged(stored.pipelineRun, base.pipelineRun, new.pipelineRun) \in Runs \cup {NoRun}
      /\ Merged(stored.results, base.results, new.results) \in Runs \cup {NoRun}
  BY DEF Merged, InternalRequest
<1> QED BY <1>1 DEF MergePatch, InternalRequest

(* The API server stores requests only.                                    *)
LEMMA CollectedType ==
    ASSUME NEW req \in InternalRequest
    PROVE  Collected(req) \in InternalRequest
<1>1. req.uid \in Nat /\ req.spec \in Specs
  BY DEF InternalRequest
<1>2. Absent(req.uid) \in InternalRequest
  BY <1>1, NewRequestType
<1> QED BY <1>2 DEF Collected

-----------------------------------------------------------------------------
(* Type correctness.                                                       *)

(* The part of the type invariant that an operation's last steps maintain. *)
WorkerType ==
    /\ queue \subseteq Requests
    /\ pc \in Operations
    /\ cur \in Requests \cup {NoRequest}
    /\ pc = "Idle" <=> cur = NoRequest
    /\ mem \in InternalRequest
    /\ cfg \in Configs \cup {DefaultConfig}

StoreType ==
    /\ ir \in [Requests -> InternalRequest]
    /\ faults \in 0..MaxFaults

(* Ending a reconcile leaves the worker idle.                              *)
LEMMA FinishType ==
    ASSUME TypeOK, pc # "Idle", StopProcessing \/ Requeue
    PROVE  WorkerType'
<1>1. Absent(0) \in InternalRequest
  BY AbsentType
<1>2. queue' \subseteq Requests
  BY DEF TypeOK, StopProcessing, Requeue
<1> QED BY <1>1, <1>2 DEF TypeOK, WorkerType, StopProcessing, Requeue, Finish, Operations

(* Going on keeps it on its request.                                       *)
LEMMA ContinueType ==
    ASSUME TypeOK, pc # "Idle",
           NEW op \in Operations \ {"Idle"}, Continue(op),
           mem' \in InternalRequest, cfg' \in Configs \cup {DefaultConfig}
    PROVE  WorkerType'
BY DEF TypeOK, WorkerType, Continue, Operations

LEMMA FaultType ==
    ASSUME TypeOK, Fault \/ UNCHANGED faults
    PROVE  (faults \in 0..MaxFaults)'
BY BoundsAssumption DEF TypeOK, Fault

(* A patch of the worker's copy, whatever becomes of it, stores a request  *)
(* and leaves the worker in order.                                         *)
LEMMA PatchedType ==
    ASSUME TypeOK, pc # "Idle", NEW new \in InternalRequest
    PROVE  /\ Patched(new) \in InternalRequest
           /\ Store(Patched(new)) => ir' \in [Requests -> InternalRequest]
<1>1. cur \in Requests /\ ir[cur] \in InternalRequest /\ mem \in InternalRequest
  BY DEF TypeOK
<1>2. Patched(new) \in InternalRequest
  BY <1>1, MergePatchFields DEF Patched
<1>3. Collected(Patched(new)) \in InternalRequest
  BY <1>2, CollectedType
<1> QED BY <1>1, <1>2, <1>3 DEF Store, TypeOK

LEMMA PatchType ==
    ASSUME TypeOK, pc # "Idle", NEW new \in InternalRequest,
           NEW op \in Operations \ {"Idle"},
           \/ PatchAndContinue(new, op)
           \/ PatchAndStop(new)
           \/ PatchAndRequeue(new)
    PROVE  StoreType' /\ WorkerType'
<1>1. CASE PatchFails(new)
  <2>1. ir' \in [Requests -> InternalRequest] /\ (Fault \/ UNCHANGED faults)
    BY <1>1, PatchedType DEF PatchFails, TypeOK
  <2>2. WorkerType'
    BY <1>1, FinishType DEF PatchFails
  <2> QED BY <2>1, <2>2, FaultType DEF StoreType
<1>2. CASE PatchSucceeds(new) /\ (StopProcessing \/ Requeue)
  <2>1. StoreType'
    BY <1>2, PatchedType DEF PatchSucceeds, StoreType, TypeOK
  <2> QED BY <1>2, <2>1, FinishType
<1>3. CASE PatchSucceeds(new) /\ mem' = Patched(new) /\ Continue(op) /\ UNCHANGED cfg
  <2>1. StoreType'
    BY <1>3, PatchedType DEF PatchSucceeds, StoreType, TypeOK
  <2>2. mem' \in InternalRequest /\ cfg' \in Configs \cup {DefaultConfig}
    BY <1>3, PatchedType DEF TypeOK
  <2> QED BY <1>3, <2>1, <2>2, ContinueType
<1> QED BY <1>1, <1>2, <1>3 DEF PatchAndContinue, PatchAndStop, PatchAndRequeue

(* A run that exists was created for a request, and stays so when it is    *)
(* written.                                                                *)
LEMMA RunType ==
    ASSUME TypeOK, NEW p \in Runs, Exists(pr[p])
    PROVE  /\ pr[p] \in CreatedRun
           /\ Cancel(p) => pr' \in [Runs -> PipelineRun]
           /\ Delete(p) => pr' \in [Runs -> PipelineRun]
<1>1. pr[p] \in CreatedRun
  BY DEF TypeOK, PipelineRun, Exists, Unused
<1>2. /\ [pr[p] EXCEPT !.cancelled = TRUE] \in PipelineRun
      /\ [pr[p] EXCEPT !.gone = TRUE] \in PipelineRun
  BY <1>1 DEF PipelineRun, CreatedRun
<1> QED BY <1>1, <1>2 DEF TypeOK, Cancel, Delete

LEMMA CreateRunType ==
    ASSUME TypeOK, pc # "Idle", CreateRun
    PROVE  pr' \in [Runs -> PipelineRun]
<1>1. NewRun(cur, mem) \in CreatedRun
  BY DEF NewRun, Unused, CreatedRun, TypeOK, InternalRequest
<1> QED BY <1>1 DEF CreateRun, TypeOK, PipelineRun

(* What the loader and the finalizer find is a run or none.                *)
LEMMA LoadedRuns ==
    ASSUME TypeOK
    PROVE  /\ GetInternalRequestPipelineRun(cur) \subseteq Runs \cup {NoRun}
           /\ RunToCancel \subseteq Runs \cup {NoRun}
BY DEF GetInternalRequestPipelineRun, CachedRuns, RunToCancel, TypeOK, InternalRequest

(* The status of a tracked request is one of a request.                    *)
LEMMA TrackedType ==
    ASSUME NEW req \in InternalRequest, NEW p \in Runs, NEW run
    PROVE  Tracked(req, p, run) \in InternalRequest
<1>1. /\ [req EXCEPT !.pipelineRun = p] \in InternalRequest
      /\ [[req EXCEPT !.pipelineRun = p] EXCEPT !.results = p] \in InternalRequest
  BY DEF InternalRequest
<1> QED BY <1>1, MarkType DEF Tracked

(* Every step of the controller, of the watches and of their environment   *)
(* keeps the type invariant.                                               *)
LEMMA TypeStep ==
    ASSUME TypeOK, [Next]_vars
    PROVE  TypeOK'
<1> USE DEF Operations
<1>1. ASSUME NEW k \in Requests, Reconcile(k) PROVE TypeOK'
  <2>1. irCache[k] \in InternalRequest
    BY DEF TypeOK
  <2>2. WorkerType'
    BY <1>1, <2>1, RequestsAssumption DEF Reconcile, At, WorkerType, TypeOK, worker
  <2> QED BY <1>1, <2>2 DEF Reconcile, TypeOK, WorkerType, clusters, caches, budget
<1>2. CASE EnsureFinalizersAreCalled
  <2> SUFFICES pr' \in [Runs -> PipelineRun] /\ (Fault \/ UNCHANGED faults) /\ WorkerType'
    BY <1>2, FaultType DEF EnsureFinalizersAreCalled, TypeOK, WorkerType, caches
  <2>1. pc # "Idle"
    BY <1>2 DEF EnsureFinalizersAreCalled, At
  <2>2. CASE ~mem.deleting
    <3>1. Continue("EnsureFinalizerIsAdded") /\ UNCHANGED <<pr, mem, cfg, faults>>
      BY <1>2, <2>2 DEF EnsureFinalizersAreCalled
    <3> QED BY <2>1, <3>1, ContinueType DEF TypeOK
  <2>3. CASE mem.deleting /\ Ours \notin mem.finalizers
    <3>1. Requeue /\ UNCHANGED <<pr, faults>>
      BY <1>2, <2>3 DEF EnsureFinalizersAreCalled
    <3> QED BY <2>1, <3>1, FinishType DEF TypeOK
  <2>4. CASE mem.deleting /\ Ours \in mem.finalizers
    <3>1. PICK p \in RunToCancel : cancelPipelineRun(p)
      BY <1>2, <2>4 DEF EnsureFinalizersAreCalled
    <3>2. p \in Runs \cup {NoRun}
      BY LoadedRuns
    <3>3. CASE Requeue
      <4>1. pr' \in [Runs -> PipelineRun] /\ (Fault \/ UNCHANGED faults)
        BY <3>1, <3>2, RunType DEF cancelPipelineRun, TypeOK
      <4> QED BY <2>1, <3>3, <4>1, FinishType
    <3>4. CASE Continue("RemoveFinalizer") /\ UNCHANGED <<mem, cfg, faults>>
      <4>1. pr' \in [Runs -> PipelineRun]
        BY <3>1, <3>2, RunType DEF cancelPipelineRun, TypeOK
      <4>2. WorkerType'
        BY <2>1, <3>4, ContinueType DEF TypeOK
      <4> QED BY <3>4, <4>1, <4>2
    <3> QED BY <3>1, <3>3, <3>4 DEF cancelPipelineRun
  <2> QED BY <2>2, <2>3, <2>4
<1>3. CASE RemoveFinalizer
  <2> DEFINE new == [mem EXCEPT !.finalizers = @ \ {Ours}]
  <2>1. pc # "Idle" /\ new \in InternalRequest
    BY <1>3 DEF RemoveFinalizer, At, TypeOK, InternalRequest
  <2>2. PatchAndRequeue(new)
    BY <1>3 DEF RemoveFinalizer
  <2>3. StoreType' /\ WorkerType'
    BY <2>1, <2>2, PatchType
  <2> QED BY <1>3, <2>3 DEF RemoveFinalizer, TypeOK, StoreType, WorkerType, caches
<1>4. CASE EnsureFinalizerIsAdded
  <2> DEFINE new == [mem EXCEPT !.finalizers = @ \cup {Ours}]
  <2>1. pc # "Idle" /\ new \in InternalRequest
    BY <1>4 DEF EnsureFinalizerIsAdded, At, TypeOK, InternalRequest, Finalizers
  <2>2. CASE Ours \in mem.finalizers
    <3>1. Continue("EnsureRequestINotCompleted") /\ UNCHANGED <<ir, mem, cfg, faults>>
      BY <1>4, <2>2 DEF EnsureFinalizerIsAdded
    <3>2. WorkerType'
      BY <2>1, <3>1, ContinueType DEF TypeOK
    <3> QED BY <1>4, <3>1, <3>2 DEF EnsureFinalizerIsAdded, TypeOK, WorkerType, caches
  <2>3. CASE Ours \notin mem.finalizers
    <3>1. PatchAndContinue(new, "EnsureRequestINotCompleted")
      BY <1>4, <2>3 DEF EnsureFinalizerIsAdded
    <3>2. StoreType' /\ WorkerType'
      BY <2>1, <3>1, PatchType
    <3> QED BY <1>4, <3>2 DEF EnsureFinalizerIsAdded, TypeOK, StoreType, WorkerType, caches
  <2> QED BY <2>2, <2>3
<1>5. CASE EnsureRequestINotCompleted
  <2>1. pc # "Idle"
    BY <1>5 DEF EnsureRequestINotCompleted, At
  <2>2. \/ StopProcessing
        \/ Continue("EnsureConfigIsLoaded") /\ UNCHANGED <<mem, cfg>>
    BY <1>5 DEF EnsureRequestINotCompleted
  <2>3. WorkerType'
    BY <2>1, <2>2, FinishType, ContinueType DEF TypeOK
  <2> QED BY <1>5, <2>3
       DEF EnsureRequestINotCompleted, TypeOK, WorkerType, clusters, caches, budget
<1>6. CASE EnsureConfigIsLoaded
  <2>1. pc # "Idle" /\ Continue("EnsureRequestIsAllowed") /\ UNCHANGED mem
        /\ cfg' \in Configs \cup {DefaultConfig}
    BY <1>6 DEF EnsureConfigIsLoaded, At, TypeOK
  <2>2. WorkerType'
    BY <2>1, ContinueType DEF TypeOK
  <2> QED BY <1>6, <2>2
       DEF EnsureConfigIsLoaded, TypeOK, WorkerType, clusters, caches, budget
<1>7. CASE EnsureRequestIsAllowed
  <2>1. pc # "Idle" /\ MarkRejected(mem) \in InternalRequest
    BY <1>7, MarkType DEF EnsureRequestIsAllowed, At, TypeOK
  <2>2. CASE PatchAndStop(MarkRejected(mem))
    <3>1. StoreType' /\ WorkerType'
      BY <2>1, <2>2, PatchType
    <3> QED BY <1>7, <3>1 DEF EnsureRequestIsAllowed, TypeOK, StoreType, WorkerType, caches
  <2>3. CASE Continue("EnsurePipelineRunIsCreated") /\ UNCHANGED <<ir, mem, cfg, faults>>
    <3>1. WorkerType'
      BY <2>1, <2>3, ContinueType DEF TypeOK
    <3> QED BY <1>7, <2>3, <3>1 DEF EnsureRequestIsAllowed, TypeOK, WorkerType, caches
  <2> QED BY <1>7, <2>2, <2>3 DEF EnsureRequestIsAllowed
<1>8. CASE EnsurePipelineRunIsCreated
  <2> SUFFICES pr' \in [Runs -> PipelineRun] /\ (Fault \/ UNCHANGED faults) /\ WorkerType'
    BY <1>8, FaultType DEF EnsurePipelineRunIsCreated, TypeOK, WorkerType, caches
  <2>1. pc # "Idle"
    BY <1>8 DEF EnsurePipelineRunIsCreated, At
  <2>2. \/ /\ CreateRun \/ UNCHANGED pr
           /\ Fault \/ UNCHANGED faults
           /\ Requeue
        \/ /\ CreateRun \/ UNCHANGED pr
           /\ \/ Continue("registerInternalRequestStatus")
              \/ Continue("EnsureStatusIsTracked")
           /\ UNCHANGED <<mem, cfg, faults>>
    BY <1>8 DEF EnsurePipelineRunIsCreated
  <2>3. pr' \in [Runs -> PipelineRun]
    BY <2>1, <2>2, CreateRunType DEF TypeOK
  <2>4. WorkerType'
    BY <2>1, <2>2, FinishType, ContinueType DEF TypeOK
  <2> QED BY <2>2, <2>3, <2>4
<1>9. CASE registerInternalRequestStatus
  <2>1. pc # "Idle" /\ MarkRunning(mem) \in InternalRequest
    BY <1>9, MarkType DEF registerInternalRequestStatus, At, TypeOK
  <2>2. StoreType' /\ WorkerType'
    BY <1>9, <2>1, PatchType DEF registerInternalRequestStatus
  <2> QED BY <1>9, <2>2
       DEF registerInternalRequestStatus, TypeOK, StoreType, WorkerType, caches
<1>10. CASE EnsureStatusIsTracked
  <2>1. pc # "Idle"
    BY <1>10 DEF EnsureStatusIsTracked, At
  <2>2. PICK p \in GetInternalRequestPipelineRun(cur) :
          IF p = NoRun
          THEN /\ Continue("EnsurePipelineRunIsDeleted")
               /\ UNCHANGED <<ir, mem, cfg, faults>>
          ELSE PatchAndContinue(Tracked(mem, p, prCache[p]), "EnsurePipelineRunIsDeleted")
    BY <1>10 DEF EnsureStatusIsTracked
  <2>3. CASE p = NoRun
    <3>1. WorkerType'
      BY <2>1, <2>2, <2>3, ContinueType DEF TypeOK
    <3> QED BY <1>10, <2>2, <2>3, <3>1 DEF EnsureStatusIsTracked, TypeOK, WorkerType, caches
  <2>4. CASE p # NoRun
    <3>1. Tracked(mem, p, prCache[p]) \in InternalRequest
      BY <2>4, LoadedRuns, TrackedType DEF TypeOK
    <3>2. StoreType' /\ WorkerType'
      BY <2>1, <2>2, <2>4, <3>1, PatchType
    <3> QED BY <1>10, <3>2 DEF EnsureStatusIsTracked, TypeOK, StoreType, WorkerType, caches
  <2> QED BY <2>3, <2>4
<1>11. CASE EnsurePipelineRunIsDeleted
  <2> SUFFICES pr' \in [Runs -> PipelineRun] /\ (Fault \/ UNCHANGED faults) /\ WorkerType'
    BY <1>11, FaultType DEF EnsurePipelineRunIsDeleted, TypeOK, WorkerType, caches
  <2>1. pc # "Idle" /\ (StopProcessing \/ Requeue) /\ (Fault \/ UNCHANGED faults)
    BY <1>11 DEF EnsurePipelineRunIsDeleted, At
  <2>2. UNCHANGED pr \/ \E p \in Runs : Exists(pr[p]) /\ Delete(p)
    BY <1>11, LoadedRuns DEF EnsurePipelineRunIsDeleted
  <2>3. pr' \in [Runs -> PipelineRun]
    BY <2>2, RunType DEF TypeOK
  <2> QED BY <2>1, <2>3, FinishType
<1>12. CASE ReadFails
  <2>1. (faults \in 0..MaxFaults)'
    BY <1>12, FaultType DEF ReadFails
  <2>2. CASE Reads /\ Requeue
    <3>1. pc # "Idle"
      BY <2>2 DEF Reads
    <3>2. WorkerType'
      BY <2>2, <3>1, FinishType
    <3> QED BY <1>12, <2>1, <3>2 DEF ReadFails, TypeOK, WorkerType, clusters, caches
  <2>3. CASE UNCHANGED <<worker, queue>>
    BY <1>12, <2>1, <2>3 DEF ReadFails, TypeOK, worker, clusters, caches
  <2> QED BY <1>12, <2>2, <2>3 DEF ReadFails
<1>13. ASSUME NEW k \in Requests, DeliverInternalRequest(k) PROVE TypeOK'
  BY <1>13 DEF DeliverInternalRequest, TypeOK, clusters, worker, budget
<1>14. ASSUME NEW p \in Runs, DeliverPipelineRun(p) PROVE TypeOK'
  <2>1. hasPipelineSucceeded(prCache[p], pr[p]) => pr[p].owner \in Requests
    BY DEF hasPipelineSucceeded, IsDone, TypeOK, PipelineRun, CreatedRun, Unused
  <2> QED BY <2>1, <1>14 DEF DeliverPipelineRun, TypeOK, clusters, worker, budget
<1>15. CASE Restart
  <2>1. Absent(0) \in InternalRequest
    BY AbsentType
  <2>2. restarts' \in 0..MaxRestarts
    BY <1>15, BoundsAssumption DEF Restart, TypeOK
  <2> QED BY <1>15, <2>1, <2>2 DEF Restart, Finish, TypeOK, clusters
<1>16. ASSUME NEW k \in Requests, CreateRequest(k) PROVE TypeOK'
  <2>1. PICK spec \in Specs, finalizers \in {{}, {Other}} :
          ir' = [ir EXCEPT ![k] = NewRequest(ir[k].uid + 1, spec, finalizers)]
    BY <1>16 DEF CreateRequest
  <2>2. ir[k].uid + 1 \in Nat /\ finalizers \in SUBSET Finalizers
    BY DEF TypeOK, InternalRequest, Finalizers
  <2>3. NewRequest(ir[k].uid + 1, spec, finalizers) \in InternalRequest
    BY <2>2, NewRequestType
  <2> QED BY <1>16, <2>1, <2>3
       DEF CreateRequest, TypeOK, environment, caches, worker, budget
<1>17. ASSUME NEW k \in Requests, EditSpec(k) PROVE TypeOK'
  <2>1. PICK spec \in Specs :
          ir' = [ir EXCEPT ![k].spec = spec, ![k].generation = ir[k].generation + 1]
    BY <1>17 DEF EditSpec
  <2>2. ir[k] \in InternalRequest /\ ir[k].generation + 1 \in Nat
    BY DEF TypeOK, InternalRequest
  <2>3. [ir[k] EXCEPT !.spec = spec, !.generation = ir[k].generation + 1] \in InternalRequest
    BY <2>2 DEF InternalRequest
  <2>4. ir' \in [Requests -> InternalRequest]
    BY <2>1, <2>3 DEF TypeOK
  <2> QED BY <1>17, <2>4 DEF EditSpec, TypeOK, environment, caches, worker, budget
<1>18. ASSUME NEW k \in Requests, DeleteRequest(k) PROVE TypeOK'
  <2>1. [ir[k] EXCEPT !.deleting = TRUE] \in InternalRequest
    BY DEF TypeOK, InternalRequest
  <2>2. ir' \in [Requests -> InternalRequest]
    BY <1>18, <2>1, CollectedType DEF DeleteRequest, TypeOK
  <2> QED BY <1>18, <2>2 DEF DeleteRequest, TypeOK, environment, caches, worker, budget
<1>19. ASSUME NEW k \in Requests, RemoveOther(k) PROVE TypeOK'
  <2>1. [ir[k] EXCEPT !.finalizers = ir[k].finalizers \ {Other}] \in InternalRequest
    BY DEF TypeOK, InternalRequest
  <2>2. ir' \in [Requests -> InternalRequest]
    BY <1>19, <2>1, CollectedType DEF RemoveOther, TypeOK
  <2> QED BY <1>19, <2>2 DEF RemoveOther, TypeOK, environment, caches, worker, budget
<1>20. CASE ChangeConfig
  BY <1>20 DEF ChangeConfig, environment, caches, worker, budget, TypeOK
<1>21. ASSUME NEW p \in Runs, FinishRun(p) PROVE TypeOK'
  <2>1. PICK phase \in {"succeeded", "failed"} : pr' = [pr EXCEPT ![p].phase = phase]
    BY <1>21 DEF FinishRun
  <2>2. pr[p] \in CreatedRun
    BY <1>21, RunType DEF FinishRun
  <2>3. [pr[p] EXCEPT !.phase = phase] \in PipelineRun
    BY <2>2 DEF PipelineRun, CreatedRun
  <2>4. pr' \in [Runs -> PipelineRun]
    BY <2>1, <2>3 DEF TypeOK
  <2> QED BY <1>21, <2>4 DEF FinishRun, TypeOK, environment, caches, worker, budget
<1>22. ASSUME NEW p \in Runs, DeleteRun(p) PROVE TypeOK'
  <2>1. pr' \in [Runs -> PipelineRun]
    BY <1>22, RunType DEF DeleteRun
  <2> QED BY <1>22, <2>1 DEF DeleteRun, TypeOK, environment, caches, worker, budget
<1>23. CASE RelistInternalRequests
  BY <1>23 DEF RelistInternalRequests, TypeOK, clusters, worker, budget
<1>24. CASE RelistPipelineRuns
  <2>1. \A p \in Runs : Exists(pr[p]) => pr[p].owner \in Requests
    BY RunType DEF CreatedRun
  <2>2. queue' \subseteq Requests
    BY <1>24, <2>1 DEF RelistPipelineRuns, TypeOK
  <2> QED BY <1>24, <2>2 DEF RelistPipelineRuns, TypeOK, clusters, worker, budget
<1>25. ASSUME NEW k \in Requests, AddOther(k) PROVE TypeOK'
  <2>1. [ir[k] EXCEPT !.finalizers = ir[k].finalizers \cup {Other}] \in InternalRequest
    BY DEF TypeOK, InternalRequest, Finalizers
  <2>2. ir' \in [Requests -> InternalRequest]
    BY <1>25, <2>1 DEF AddOther, TypeOK
  <2> QED BY <1>25, <2>2 DEF AddOther, TypeOK, environment, caches, worker, budget
<1>26. CASE UNCHANGED vars
  BY <1>26 DEF vars, clusters, caches, worker, budget, TypeOK
<1> QED
  BY <1>1, <1>2, <1>3, <1>4, <1>5, <1>6, <1>7, <1>8, <1>9, <1>10, <1>11, <1>12, <1>13,
     <1>14, <1>15, <1>16, <1>17, <1>18, <1>19, <1>20, <1>21, <1>22, <1>23, <1>24,
     <1>25, <1>26
  DEF Next, Operation, Watch, Users, Tekton

LEMMA TypeInit ==
    ASSUME Init
    PROVE  TypeOK
<1>1. Unused \in PipelineRun
  BY DEF PipelineRun
<1> QED BY <1>1, AbsentType, BoundsAssumption DEF Init, TypeOK, Operations

(* The clusters, the caches and the worker always hold what they are meant *)
(* to hold, whatever fails and however far the caches lag behind.          *)
THEOREM TypeCorrect == Spec => []TypeOK
<1>1. Init => TypeOK
  BY TypeInit
<1>2. TypeOK /\ [Next]_vars => TypeOK'
  BY TypeStep
<1> QED BY <1>1, <1>2, PTL DEF Spec

-----------------------------------------------------------------------------
(* Who writes to the requests, and where.                                  *)

(* Whatever writes to the requests is one of these.                        *)
LEMMA RequestWriters ==
    ASSUME Next, ir' # ir
    PROVE  \/ RemoveFinalizer \/ EnsureFinalizerIsAdded
           \/ EnsureRequestIsAllowed \/ registerInternalRequestStatus
           \/ EnsureStatusIsTracked
           \/ \E k \in Requests : \/ CreateRequest(k) \/ EditSpec(k) \/ DeleteRequest(k)
                                  \/ AddOther(k) \/ RemoveOther(k)
<1>1. ~\E k \in Requests : Reconcile(k)
  BY DEF Reconcile, clusters
<1>2. Operation =>
        \/ RemoveFinalizer \/ EnsureFinalizerIsAdded \/ EnsureRequestIsAllowed
        \/ registerInternalRequestStatus \/ EnsureStatusIsTracked
  BY DEF Operation, EnsureFinalizersAreCalled, EnsureRequestINotCompleted,
         EnsureConfigIsLoaded, EnsurePipelineRunIsCreated, EnsurePipelineRunIsDeleted,
         clusters
<1>3. ~ReadFails /\ ~Watch /\ ~Restart /\ ~ChangeConfig /\ ~Tekton
  BY DEF ReadFails, Watch, DeliverInternalRequest, DeliverPipelineRun,
         RelistInternalRequests, RelistPipelineRuns, Restart, ChangeConfig, Tekton,
         FinishRun, DeleteRun, clusters
<1> QED BY <1>1, <1>2, <1>3 DEF Next, Users

(* A patch of the worker's copy changes nothing but the worker's request.  *)
LEMMA PatchWritesCur ==
    ASSUME TypeOK, pc # "Idle", NEW new, NEW op,
           \/ PatchAndContinue(new, op)
           \/ PatchAndStop(new)
           \/ PatchAndRequeue(new)
    PROVE  /\ cur \in Requests
           /\ ir'[cur] = ir[cur] \/ ir'[cur] = Collected(Patched(new))
           /\ \A k \in Requests \ {cur} : ir'[k] = ir[k]
<1>1. ir' = ir \/ Store(Patched(new))
  BY DEF PatchAndContinue, PatchAndStop, PatchAndRequeue, PatchSucceeds, PatchFails
<1> QED BY <1>1 DEF Store, TypeOK
=============================================================================
