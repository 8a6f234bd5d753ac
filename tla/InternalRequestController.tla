---------------------- MODULE InternalRequestController ----------------------
(***************************************************************************)
(* The InternalRequest controller between its two clusters: the remote one *)
(* that holds the InternalRequests and the internal one that holds the     *)
(* PipelineRuns and the InternalServicesConfig.                            *)
(*                                                                         *)
(* The controller has one worker.  It takes a key off the work queue, gets *)
(* the InternalRequest from the informer cache and runs the operations of  *)
(* the reconcile handler on that copy, one after another.  Every operation *)
(* is one action, or two when it makes two writes, so that users, Tekton,  *)
(* the watches, a failed call or a restart may come between any two        *)
(* writes.  An operation's read of a cache and the write that follows are  *)
(* one action: nothing else reads what the operation read.                 *)
(***************************************************************************)
EXTENDS InternalRequestStatus, Admission

CONSTANTS
    Requests,         \* namespaced names of InternalRequests
    NoRequest,        \* the worker is on no request / the run has no owner
    NamespaceOf,      \* the namespace of every request
    Configs,          \* InternalServicesConfigs the administrators may set
    NoConfig,         \* there is no InternalServicesConfig
    Refused,          \* requests and specs whose run the API server refuses
    LaggingCaches,    \* may the informer caches lag behind the clusters?
    Relists,          \* may a watch lose its place and list everything again?
    ExternalDeletes,  \* may others than the controller delete PipelineRuns?
    MaxUid,           \* how many times a name may be used
    MaxGeneration,    \* how many specs one request may have in its life
    MaxFaults,        \* how many calls to an API server may fail
    MaxRestarts       \* how many times the manager may restart

ASSUME RequestsAssumption == NoRequest \notin Requests
ASSUME ConfigsAssumption == NoConfig \notin Configs
\* The CRD gives the size of the volume claim a default and a pattern.
ASSUME VolumeAssumption == \A c \in Configs : c.volumeSize # ""
ASSUME ModeAssumption == {LaggingCaches, Relists, ExternalDeletes} \subseteq BOOLEAN
ASSUME BoundsAssumption ==
    {MaxUid, MaxGeneration, MaxFaults, MaxRestarts} \subseteq Nat

VARIABLES
    ir,         \* remote cluster: the InternalRequest of each name
    pr,         \* internal cluster: the PipelineRuns
    config,     \* internal cluster: the InternalServicesConfig or NoConfig
    irCache,    \* informer cache of the InternalRequests
    prCache,    \* informer cache of the PipelineRuns
    queue,      \* work queue: keys waiting for the worker
    pc,         \* the operation the worker is about to run
    cur,        \* the key the worker is on
    mem,        \* Adapter.internalRequest, the worker's copy of the object
    cfg,        \* Adapter.internalServicesConfig
    faults,     \* calls that failed so far
    restarts    \* restarts so far

clusters == <<ir, pr, config>>
caches == <<irCache, prCache>>
worker == <<pc, cur, mem, cfg>>
budget == <<faults, restarts>>
vars == <<clusters, caches, queue, worker, budget>>

-----------------------------------------------------------------------------
(* PipelineRuns.  owner stands for both the owner annotations and the name *)
(* and namespace labels; forUid is the uid of the InternalRequest that the *)
(* run was created for, which the code records nowhere.  The record of a   *)
(* deleted run stays, marked gone: names are generated and never reused.   *)

CreatedRun ==
    [ phase     : {"active", "succeeded", "failed"},
      gone      : BOOLEAN,
      cancelled : BOOLEAN,                             \* spec.status
      owner     : Requests,
      forUid    : Nat ]

Unused == [ phase |-> "unused", gone |-> FALSE, cancelled |-> FALSE,
            owner |-> NoRequest, forUid |-> 0 ]

PipelineRun == CreatedRun \cup {Unused}

(* createInternalRequestPipelineRun's PipelineRun for the worker's copy.   *)
NewRun(key, req) ==
    [Unused EXCEPT !.phase = "active", !.owner = key, !.forUid = req.uid]

IsDone(run) == run.phase \in {"succeeded", "failed"}
Exists(run) == run.phase # "unused" /\ ~run.gone
Executing(run) == Exists(run) /\ run.phase = "active" /\ ~run.cancelled

(* The loader's GetInternalRequestPipelineRun: a list by labels, limited   *)
(* to one item, served by the cache in no particular order.                *)
CachedRuns(key) == {p \in Runs : Exists(prCache[p]) /\ prCache[p].owner = key}
GetInternalRequestPipelineRun(key) ==
    IF CachedRuns(key) = {} THEN {NoRun} ELSE CachedRuns(key)

-----------------------------------------------------------------------------
(* Writing an InternalRequest.  client.MergeFrom builds a JSON merge patch *)
(* of the fields that differ between base and new, without the resource    *)
(* version: the fields it does not name keep their stored value, and it    *)
(* meets no conflict.                                                      *)

Merged(stored, base, new) == IF new # base THEN new ELSE stored

MergePatch(stored, base, new) ==
    [stored EXCEPT
        !.finalizers     = Merged(@, base.finalizers, new.finalizers),
        !.cond           = Merged(@, base.cond, new.cond),
        !.startTime      = Merged(@, base.startTime, new.startTime),
        !.completionTime = Merged(@, base.completionTime, new.completionTime),
        !.pipelineRun    = Merged(@, base.pipelineRun, new.pipelineRun),
        !.results        = Merged(@, base.results, new.results)]

(* The API server refuses to patch an object that does not exist or to add *)
(* a finalizer to one that is being deleted, and drops an object that is   *)
(* being deleted once its last finalizer is removed.                       *)
Accepts(stored, patched) ==
    /\ stored.live
    /\ stored.deleting => patched.finalizers \subseteq stored.finalizers

Collected(req) ==
    IF req.deleting /\ req.finalizers = {} THEN Absent(req.uid) ELSE req

Patched(new) == MergePatch(ir[cur], mem, new)
Store(req) == ir' = [ir EXCEPT ![cur] = Collected(req)]

(* A call that fails although nothing is wrong with it.                    *)
Fault ==
    /\ faults < MaxFaults
    /\ faults' = faults + 1

-----------------------------------------------------------------------------
(* How an operation ends.  ReconcileHandler goes on to the next operation  *)
(* (ContinueProcessing), ends the reconcile (StopProcessing, or no         *)
(* operation left) or ends it and puts the key back (Requeue, an error).   *)

Continue(op) ==
    /\ pc' = op
    /\ UNCHANGED <<cur, queue>>

Finish ==
    /\ pc' = "Idle"
    /\ cur' = NoRequest
    /\ mem' = Absent(0)
    /\ cfg' = DefaultConfig

StopProcessing == Finish /\ UNCHANGED queue
Requeue == Finish /\ queue' = queue \cup {cur}

(* The worker's Patch of its copy succeeds, and the copy becomes what the  *)
(* server answers.                                                         *)
PatchSucceeds(new) ==
    /\ Accepts(ir[cur], Patched(new))
    /\ Store(Patched(new))
    /\ UNCHANGED faults

(* It returns an error: the server refuses it, the call never gets there,  *)
(* or the answer is lost after the server stored the object.               *)
PatchFails(new) ==
    /\ \/ ~Accepts(ir[cur], Patched(new)) /\ UNCHANGED <<ir, faults>>
       \/ Fault /\ UNCHANGED ir
       \/ Fault /\ Accepts(ir[cur], Patched(new)) /\ Store(Patched(new))
    /\ Requeue

PatchAndContinue(new, op) ==
    \/ /\ PatchSucceeds(new)
       /\ mem' = Patched(new)
       /\ Continue(op)
       /\ UNCHANGED cfg
    \/ PatchFails(new)

PatchAndStop(new) ==
    \/ PatchSucceeds(new) /\ StopProcessing
    \/ PatchFails(new)

PatchAndRequeue(new) ==
    \/ PatchSucceeds(new) /\ Requeue
    \/ PatchFails(new)

-----------------------------------------------------------------------------
(* Without lag a cache follows its cluster before anybody takes a step.    *)
Settled == LaggingCaches \/ (irCache = ir /\ prCache = pr)

At(op) == pc = op /\ Settled

(* Reconcile: a key whose request the cache does not hold is dropped.      *)
Reconcile(k) ==
    /\ At("Idle")
    /\ k \in queue
    /\ queue' = queue \ {k}
    /\ IF irCache[k].live
       THEN /\ pc' = "EnsureFinalizersAreCalled"
            /\ cur' = k
            /\ mem' = irCache[k]
            /\ cfg' = DefaultConfig
       ELSE UNCHANGED worker
    /\ UNCHANGED <<clusters, caches, budget>>

(* Defect: no search by labels when the status names no run.               *)
RunToCancel_StatusOnly ==
    {IF mem.pipelineRun # NoRun /\ Exists(prCache[mem.pipelineRun])
     THEN mem.pipelineRun ELSE NoRun}

(* finalizeInternalRequest's PipelineRun: the one the status names, if the *)
(* cache holds it, and the one with the request's labels only when the     *)
(* status names none.                                                      *)
RunToCancel ==
    IF mem.pipelineRun # NoRun
    THEN {IF Exists(prCache[mem.pipelineRun]) THEN mem.pipelineRun ELSE NoRun}
    ELSE GetInternalRequestPipelineRun(cur)

(* cancelPipelineRun: patch the run, unless there is none or it is done.   *)
(* The patch fails when the run is gone, never arrives, or its answer is   *)
(* lost; each is an error that puts the request back on the queue.         *)
Cancel(p) == pr' = [pr EXCEPT ![p].cancelled = TRUE]

cancelPipelineRun(p) ==
    IF p = NoRun \/ (p # NoRun /\ IsDone(prCache[p]))
    THEN Continue("RemoveFinalizer") /\ UNCHANGED <<pr, mem, cfg, faults>>
    ELSE \/ /\ Exists(pr[p])
            /\ Cancel(p)
            /\ Continue("RemoveFinalizer")
            /\ UNCHANGED <<mem, cfg, faults>>
         \/ /\ \/ ~Exists(pr[p]) /\ UNCHANGED <<pr, faults>>
               \/ Fault /\ UNCHANGED pr
               \/ Fault /\ Exists(pr[p]) /\ Cancel(p)
            /\ Requeue

(* Defect: the finalizer is removed without being called.                  *)
EnsureFinalizersAreCalled_NotCalled ==
    /\ At("EnsureFinalizersAreCalled")
    /\ \/ ~mem.deleting /\ Continue("EnsureFinalizerIsAdded")
       \/ mem.deleting /\ Continue("RemoveFinalizer")
    /\ UNCHANGED <<clusters, caches, mem, cfg, budget>>

(* EnsureFinalizersAreCalled up to the removal of the finalizer.           *)
EnsureFinalizersAreCalled ==
    /\ At("EnsureFinalizersAreCalled")
    /\ \/ /\ ~mem.deleting
          /\ Continue("EnsureFinalizerIsAdded")
          /\ UNCHANGED <<pr, mem, cfg, faults>>
       \/ /\ mem.deleting /\ Ours \notin mem.finalizers
          /\ Requeue
          /\ UNCHANGED <<pr, faults>>
       \/ /\ mem.deleting /\ Ours \in mem.finalizers
          /\ \E p \in RunToCancel : cancelPipelineRun(p)
    /\ UNCHANGED <<ir, config, caches, restarts>>

(* Defect: the finalizers of others go with the controller's own.          *)
RemoveFinalizer_All ==
    /\ At("RemoveFinalizer")
    /\ PatchAndRequeue([mem EXCEPT !.finalizers = {}])
    /\ UNCHANGED <<pr, config, caches, restarts>>

(* The rest of EnsureFinalizersAreCalled.                                  *)
RemoveFinalizer ==
    /\ At("RemoveFinalizer")
    /\ PatchAndRequeue([mem EXCEPT !.finalizers = @ \ {Ours}])
    /\ UNCHANGED <<pr, config, caches, restarts>>

(* Defect: the request goes on without the finalizer.                      *)
EnsureFinalizerIsAdded_NotAdded ==
    /\ At("EnsureFinalizerIsAdded")
    /\ Continue("EnsureRequestINotCompleted")
    /\ UNCHANGED <<clusters, caches, mem, cfg, budget>>

EnsureFinalizerIsAdded ==
    /\ At("EnsureFinalizerIsAdded")
    /\ IF Ours \in mem.finalizers
       THEN /\ Continue("EnsureRequestINotCompleted")
            /\ UNCHANGED <<ir, mem, cfg, faults>>
       ELSE PatchAndContinue([mem EXCEPT !.finalizers = @ \cup {Ours}],
                             "EnsureRequestINotCompleted")
    /\ UNCHANGED <<pr, config, caches, restarts>>

EnsureRequestINotCompleted ==
    /\ At("EnsureRequestINotCompleted")
    /\ IF HasCompleted(mem)
       THEN StopProcessing
       ELSE Continue("EnsureConfigIsLoaded") /\ UNCHANGED <<mem, cfg>>
    /\ UNCHANGED <<clusters, caches, budget>>

(* The config may change at any time, so one that a lagging cache shows    *)
(* late is one that is changed late: the cache is left out.                *)
EnsureConfigIsLoaded ==
    /\ At("EnsureConfigIsLoaded")
    /\ cfg' = IF config = NoConfig THEN DefaultConfig ELSE config
    /\ Continue("EnsureRequestIsAllowed")
    /\ UNCHANGED <<clusters, caches, mem, budget>>

(* Defect: a rejected request goes on to the next operation.               *)
EnsureRequestIsAllowed_GoesOn ==
    /\ At("EnsureRequestIsAllowed")
    /\ IF RequestIsAllowed(cfg, NamespaceOf[cur], mem.spec)
       THEN /\ Continue("EnsurePipelineRunIsCreated")
            /\ UNCHANGED <<ir, mem, cfg, faults>>
       ELSE PatchAndContinue(MarkRejected(mem), "EnsurePipelineRunIsCreated")
    /\ UNCHANGED <<pr, config, caches, restarts>>

EnsureRequestIsAllowed ==
    /\ At("EnsureRequestIsAllowed")
    /\ IF RequestIsAllowed(cfg, NamespaceOf[cur], mem.spec)
       THEN /\ Continue("EnsurePipelineRunIsCreated")
            /\ UNCHANGED <<ir, mem, cfg, faults>>
       ELSE PatchAndStop(MarkRejected(mem))
    /\ UNCHANGED <<pr, config, caches, restarts>>

(* createInternalRequestPipelineRun.  The API server may refuse the run    *)
(* however often it is asked: the request's name is too long for a label,  *)
(* or Tekton finds the spec invalid.                                       *)
CreateRun ==
    /\ <<cur, mem.spec>> \notin Refused
    /\ \E p \in Runs : /\ pr[p] = Unused
                       /\ pr' = [pr EXCEPT ![p] = NewRun(cur, mem)]

(* Defect: a request that is not Running yet gets a run even if it has one. *)
EnsurePipelineRunIsCreated_Again ==
    /\ At("EnsurePipelineRunIsCreated")
    /\ \E p \in GetInternalRequestPipelineRun(cur) :
        IF p # NoRun /\ IsRunning(mem)
        THEN Continue("EnsureStatusIsTracked") /\ UNCHANGED pr
        ELSE CreateRun /\ Continue("registerInternalRequestStatus")
    /\ UNCHANGED <<ir, config, caches, mem, cfg, budget>>

(* EnsurePipelineRunIsCreated up to the patch of the status.  The Create   *)
(* may be refused, or fail before or after the run exists.                 *)
EnsurePipelineRunIsCreated ==
    /\ At("EnsurePipelineRunIsCreated")
    /\ \E p \in GetInternalRequestPipelineRun(cur) :
        \/ /\ p # NoRun
           /\ Continue(IF IsRunning(mem) THEN "EnsureStatusIsTracked"
                       ELSE "registerInternalRequestStatus")
           /\ UNCHANGED <<pr, mem, cfg, faults>>
        \/ /\ p = NoRun
           /\ CreateRun
           /\ Continue("registerInternalRequestStatus")
           /\ UNCHANGED <<mem, cfg, faults>>
        \/ /\ p = NoRun
           /\ \/ <<cur, mem.spec>> \in Refused /\ UNCHANGED <<pr, faults>>
              \/ Fault /\ UNCHANGED pr
              \/ Fault /\ CreateRun
           /\ Requeue
    /\ UNCHANGED <<ir, config, caches, restarts>>

registerInternalRequestStatus ==
    /\ At("registerInternalRequestStatus")
    /\ PatchAndContinue(MarkRunning(mem), "EnsureStatusIsTracked")
    /\ UNCHANGED <<pr, config, caches, restarts>>

(* Defect: a run that is done counts as succeeded.                         *)
Tracked_AlwaysSucceeded(req, p, run) ==
    LET tracked == [req EXCEPT !.pipelineRun = p]
    IN  IF IsDone(run) THEN MarkSucceeded([tracked EXCEPT !.results = p]) ELSE tracked

(* The status registerInternalRequestPipelineRunStatus gives the request   *)
(* from what the cache says of its run.                                    *)
Tracked(req, p, run) ==
    LET tracked == [req EXCEPT !.pipelineRun = p]
    IN  IF ~IsDone(run) THEN tracked
        ELSE IF run.phase = "succeeded"
             THEN MarkSucceeded([tracked EXCEPT !.results = p])
             ELSE MarkFailed(tracked)

EnsureStatusIsTracked ==
    /\ At("EnsureStatusIsTracked")
    /\ \E p \in GetInternalRequestPipelineRun(cur) :
        IF p = NoRun
        THEN /\ Continue("EnsurePipelineRunIsDeleted")
             /\ UNCHANGED <<ir, mem, cfg, faults>>
        ELSE PatchAndContinue(Tracked(mem, p, prCache[p]),
                              "EnsurePipelineRunIsDeleted")
    /\ UNCHANGED <<pr, config, caches, restarts>>

(* Deleting the nil PipelineRun fails, as it does for a run that is        *)
(* already gone, and the key goes back to the queue.                       *)
Delete(p) == pr' = [pr EXCEPT ![p].gone = TRUE]

EnsurePipelineRunIsDeleted ==
    /\ At("EnsurePipelineRunIsDeleted")
    /\ IF ~HasCompleted(mem) \/ cfg.debug
       THEN StopProcessing /\ UNCHANGED <<pr, faults>>
       ELSE \E p \in GetInternalRequestPipelineRun(cur) :
              \/ /\ p # NoRun /\ Exists(pr[p])
                 /\ Delete(p)
                 /\ StopProcessing
                 /\ UNCHANGED faults
              \/ /\ \/ p = NoRun /\ UNCHANGED <<pr, faults>>
                    \/ p # NoRun /\ ~Exists(pr[p]) /\ UNCHANGED <<pr, faults>>
                    \/ p # NoRun /\ Fault /\ UNCHANGED pr
                    \/ p # NoRun /\ Fault /\ Exists(pr[p]) /\ Delete(p)
                 /\ Requeue
    /\ UNCHANGED <<ir, config, caches, restarts>>

(* The read an operation starts with returns an error other than NotFound, *)
(* or so does Reconcile's, and the key that was taken is put back.         *)
Reads ==
    \/ pc = "EnsureFinalizersAreCalled" /\ mem.deleting /\ Ours \in mem.finalizers
    \/ pc \in {"EnsureConfigIsLoaded", "EnsurePipelineRunIsCreated",
                "EnsureStatusIsTracked"}
    \/ pc = "EnsurePipelineRunIsDeleted" /\ HasCompleted(mem) /\ ~cfg.debug

ReadFails ==
    /\ Settled
    /\ \/ Reads /\ Requeue
       \/ pc = "Idle" /\ queue # {} /\ UNCHANGED <<worker, queue>>
    /\ Fault
    /\ UNCHANGED <<clusters, caches, restarts>>

-----------------------------------------------------------------------------
(* The watches bring a cache up to date and queue the keys that pass the   *)
(* predicates.  Events come in order and none is left out; a delivery is   *)
(* all the events of an object that are due, of which the last one stays   *)
(* in the cache.  A watch that lost its place lists every object again:    *)
(* what happened since it last saw one is a single update, a create if it  *)
(* had never seen it, and a delete if it is not there any more.            *)

(* Defect: the request for deletion is not among the updates that pass.    *)
IsQueuedBy_NotDeletion(old, new) ==
    new.live /\ (~old.live \/ new.generation # old.generation)

(* The predicates of the InternalRequest watch: Create passes, Delete does *)
(* not, Update when the generation changed or the deletion was requested.  *)
IsQueuedBy(old, new) ==
    /\ new.live
    /\ \/ ~old.live
       \/ new.generation # old.generation
       \/ new.deleting /\ ~old.deleting

(* The events of another object of the same name begin with its Create.    *)
DeliverInternalRequest(k) ==
    LET old == IF irCache[k].uid = ir[k].uid THEN irCache[k] ELSE Absent(0) IN
    /\ irCache[k] # ir[k]
    /\ irCache' = [irCache EXCEPT ![k] = ir[k]]
    /\ queue' = IF IsQueuedBy(old, ir[k]) THEN queue \cup {k} ELSE queue
    /\ UNCHANGED <<clusters, prCache, worker, budget>>

RelistInternalRequests ==
    /\ Relists
    /\ irCache # ir
    /\ irCache' = ir
    /\ queue' = queue \cup {k \in Requests : IsQueuedBy(irCache[k], ir[k])}
    /\ UNCHANGED <<clusters, prCache, worker, budget>>

(* Defect: only success passes, as the predicate's name suggests.          *)
hasPipelineSucceeded_SuccessOnly(old, new) == ~IsDone(old) /\ new.phase = "succeeded"

(* InternalRequestPipelineRunSucceededPredicate: only the update in which  *)
(* the run becomes done; it queues the owner.                              *)
hasPipelineSucceeded(old, new) == ~IsDone(old) /\ IsDone(new)

DeliverPipelineRun(p) ==
    /\ prCache[p] # pr[p]
    /\ prCache' = [prCache EXCEPT ![p] = pr[p]]
    /\ queue' = IF hasPipelineSucceeded(prCache[p], pr[p])
                THEN queue \cup {pr[p].owner} ELSE queue
    /\ UNCHANGED <<clusters, irCache, worker, budget>>

RelistPipelineRuns ==
    LET updated == {p \in Runs : /\ Exists(prCache[p]) /\ Exists(pr[p])
                                 /\ hasPipelineSucceeded(prCache[p], pr[p])}
    IN  /\ Relists
        /\ prCache # pr
        /\ prCache' = pr
        /\ queue' = queue \cup {pr[p].owner : p \in updated}
        /\ UNCHANGED <<clusters, irCache, worker, budget>>

(* The manager stops anywhere and starts again: the work queue and what    *)
(* the worker was doing are lost, and the first list of the watch queues   *)
(* every request there is.                                                 *)
Restart ==
    /\ restarts < MaxRestarts
    /\ restarts' = restarts + 1
    /\ irCache' = ir
    /\ prCache' = pr
    /\ queue' = {k \in Requests : ir[k].live}
    /\ Finish
    /\ UNCHANGED <<clusters, faults>>

-----------------------------------------------------------------------------
(* The environment: users and other controllers of the remote cluster, the *)
(* administrators of the internal one, and Tekton.                         *)

environment == <<caches, queue, worker, budget>>

CreateRequest(k) ==
    /\ Settled
    /\ ~ir[k].live
    /\ ir[k].uid < MaxUid
    /\ \E spec \in Specs, finalizers \in {{}, {Other}} :
          ir' = [ir EXCEPT ![k] = NewRequest(ir[k].uid + 1, spec, finalizers)]
    /\ UNCHANGED <<pr, config, environment>>

EditSpec(k) ==
    /\ Settled
    /\ ir[k].live
    /\ ir[k].generation < MaxGeneration
    /\ \E spec \in Specs \ {ir[k].spec} :
          ir' = [ir EXCEPT ![k].spec = spec,
                           ![k].generation = ir[k].generation + 1]
    /\ UNCHANGED <<pr, config, environment>>

DeleteRequest(k) ==
    /\ Settled
    /\ ir[k].live /\ ~ir[k].deleting
    /\ ir' = [ir EXCEPT ![k] = Collected([ir[k] EXCEPT !.deleting = TRUE])]
    /\ UNCHANGED <<pr, config, environment>>

AddOther(k) ==
    /\ Settled
    /\ ir[k].live /\ ~ir[k].deleting /\ Other \notin ir[k].finalizers
    /\ ir' = [ir EXCEPT ![k].finalizers = ir[k].finalizers \cup {Other}]
    /\ UNCHANGED <<pr, config, environment>>

RemoveOther(k) ==
    /\ Settled
    /\ ir[k].live /\ ir[k].deleting /\ Other \in ir[k].finalizers
    /\ ir' = [ir EXCEPT ![k] =
                 Collected([ir[k] EXCEPT !.finalizers = ir[k].finalizers \ {Other}])]
    /\ UNCHANGED <<pr, config, environment>>

ChangeConfig ==
    /\ Settled
    /\ config' \in (Configs \cup {NoConfig}) \ {config}
    /\ UNCHANGED <<ir, pr, environment>>

(* Tekton ends a run either way; one that is being cancelled may still win *)
(* the race and succeed.                                                   *)
FinishRun(p) ==
    /\ Settled
    /\ Exists(pr[p]) /\ pr[p].phase = "active"
    /\ \E phase \in {"succeeded", "failed"} : pr' = [pr EXCEPT ![p].phase = phase]
    /\ UNCHANGED <<ir, config, environment>>

(* Somebody else, or Tekton's pruner, deletes a run.                       *)
DeleteRun(p) ==
    /\ ExternalDeletes
    /\ Settled
    /\ Exists(pr[p])
    /\ Delete(p)
    /\ UNCHANGED <<ir, config, environment>>

-----------------------------------------------------------------------------
Init ==
    /\ ir = [k \in Requests |-> Absent(0)]
    /\ pr = [p \in Runs |-> Unused]
    /\ config \in Configs \cup {NoConfig}
    /\ irCache = ir
    /\ prCache = pr
    /\ queue = {}
    /\ pc = "Idle"
    /\ cur = NoRequest
    /\ mem = Absent(0)
    /\ cfg = DefaultConfig
    /\ faults = 0
    /\ restarts = 0

(* The operations in the order Reconcile lists them.                       *)
Operation ==
    \/ EnsureFinalizersAreCalled
    \/ RemoveFinalizer
    \/ EnsureFinalizerIsAdded
    \/ EnsureRequestINotCompleted
    \/ EnsureConfigIsLoaded
    \/ EnsureRequestIsAllowed
    \/ EnsurePipelineRunIsCreated
    \/ registerInternalRequestStatus
    \/ EnsureStatusIsTracked
    \/ EnsurePipelineRunIsDeleted

Watch ==
    \/ \E k \in Requests : DeliverInternalRequest(k)
    \/ \E p \in Runs : DeliverPipelineRun(p)
    \/ RelistInternalRequests
    \/ RelistPipelineRuns

Users ==
    \/ \E k \in Requests :
          \/ CreateRequest(k) \/ EditSpec(k) \/ DeleteRequest(k)
          \/ AddOther(k) \/ RemoveOther(k)
    \/ ChangeConfig

Tekton == \E p \in Runs : FinishRun(p) \/ DeleteRun(p)

Next ==
    \/ \E k \in Requests : Reconcile(k)
    \/ Operation
    \/ ReadFails
    \/ Watch
    \/ Restart
    \/ Users
    \/ Tekton

Spec == Init /\ [][Next]_vars

(* The worker and the watches keep running; the work queue is a FIFO, so a *)
(* key that keeps coming back is taken in the end; Tekton ends what it     *)
(* runs (a PipelineRun has a timeout) and the owners of other finalizers   *)
(* remove them.                                                            *)
Fairness ==
    /\ WF_vars(Operation)
    /\ \A k \in Requests : /\ WF_vars(DeliverInternalRequest(k))
                           /\ SF_vars(Reconcile(k))
                           /\ WF_vars(RemoveOther(k))
    /\ \A p \in Runs : WF_vars(DeliverPipelineRun(p)) /\ WF_vars(FinishRun(p))

FairSpec == Spec /\ Fairness

-----------------------------------------------------------------------------
(* What the controller is to guarantee.                                    *)

Operations ==
    {"Idle", "EnsureFinalizersAreCalled", "RemoveFinalizer",
     "EnsureFinalizerIsAdded", "EnsureRequestINotCompleted",
     "EnsureConfigIsLoaded", "EnsureRequestIsAllowed",
     "EnsurePipelineRunIsCreated", "registerInternalRequestStatus",
     "EnsureStatusIsTracked", "EnsurePipelineRunIsDeleted"}

(* Type invariant; the worker is on a request unless it is idle.           *)
TypeOK ==
    /\ ir \in [Requests -> InternalRequest]
    /\ irCache \in [Requests -> InternalRequest]
    /\ pr \in [Runs -> PipelineRun]
    /\ prCache \in [Runs -> PipelineRun]
    /\ config \in Configs \cup {NoConfig}
    /\ queue \subseteq Requests
    /\ pc \in Operations
    /\ cur \in Requests \cup {NoRequest}
    /\ pc = "Idle" <=> cur = NoRequest
    /\ mem \in InternalRequest
    /\ cfg \in Configs \cup {DefaultConfig}
    /\ faults \in 0..MaxFaults
    /\ restarts \in 0..MaxRestarts

(* A request that is running, or has succeeded or failed, has a start time *)
(* and so has the worker's copy once it is about to be completed: the      *)
(* metrics of a completed request dereference the start time in a          *)
(* goroutine of their own, where nothing would recover the panic.          *)
CompletionHasStart ==
    /\ \A k \in Requests :
         ir[k].cond \in {Running, Succeeded, Failed} => ir[k].startTime
    /\ pc = "EnsureStatusIsTracked" => mem.startTime

(* However often its reconcile fails, is repeated or is cut off, a request *)
(* is executed by one PipelineRun at most, over its whole life.            *)
AtMostOneExecution ==
    \A p, q \in Runs :
        /\ pr[p].phase # "unused" /\ pr[q].phase # "unused"
        /\ pr[p].owner = pr[q].owner /\ pr[p].forUid = pr[q].forUid
        => p = q

(* A PipelineRun that executes and that nobody cancelled belongs to a      *)
(* request that exists, that is the very one it was created for, and that  *)
(* cannot go away yet because it carries the controller's finalizer.       *)
NoOrphanRun ==
    \A p \in Runs :
        Executing(pr[p])
        => /\ pr[p].owner \in Requests
           /\ ir[pr[p].owner].live
           /\ ir[pr[p].owner].uid = pr[p].forUid
           /\ Ours \in ir[pr[p].owner].finalizers

(* A request that reports success or failure names a PipelineRun of its    *)
(* name that ended that way, and its results are that run's.               *)
OutcomeMatchesRun ==
    \A k \in Requests :
        LET p == ir[k].pipelineRun IN
        /\ ir[k].cond = Succeeded =>
             /\ p \in Runs /\ pr[p].owner = k /\ pr[p].phase = "succeeded"
             /\ ir[k].results = p
        /\ ir[k].cond = Failed =>
             /\ p \in Runs /\ pr[p].owner = k /\ pr[p].phase = "failed"
             /\ ir[k].results = NoRun

(* Once a request has completed, nothing changes its status any more.      *)
Status(req) ==
    <<req.cond, req.startTime, req.completionTime, req.pipelineRun, req.results>>

CompletedIsFinal ==
    [][\A k \in Requests :
         ir[k].cond \in {Rejected, Failed, Succeeded} /\ ir'[k].live
         => Status(ir'[k]) = Status(ir[k])]_vars

(* The status that the worker stores is about the request it read.  A      *)
(* patch carries neither uid nor resource version, so one meant for a      *)
(* request that is gone would reach the next one of its name; that there   *)
(* is none yet is the finalizer's doing, however old the worker's copy is. *)
StatusIsOfItsRequest ==
    [][\A k \in Requests :
         ir'[k].live /\ Status(ir'[k]) # Status(ir[k]) /\ ~UNCHANGED worker
         => k = cur /\ ir[k].uid = mem.uid]_vars

(* A PipelineRun comes into being only for a spec that the config loaded   *)
(* in the same reconcile allows in the request's namespace.                *)
RunsAreAdmitted ==
    [][\A p \in Runs :
         pr[p].phase = "unused" /\ pr'[p].phase # "unused"
         => RequestIsAllowed(cfg, NamespaceOf[pr'[p].owner], mem.spec)]_vars

(* Building the run parses the size of its volume, and panics on the empty *)
(* one that the default config has: the default config gets that far with  *)
(* no request, because its empty allow list lets none through.             *)
VolumeSizeIsKnown ==
    pc = "EnsurePipelineRunIsCreated" => cfg.volumeSize # ""

(* A finalizer of another controller is taken away by its owner, or lost   *)
(* to one race only: EnsureFinalizerIsAdded replaces the list, and with it *)
(* what was added since the copy was read.  The removal of the controller's *)
(* finalizer, which replaces the list as well, loses none.                 *)
OthersFinalizerIsKept ==
    [][\A k \in Requests :
         Other \in ir[k].finalizers /\ Other \notin ir'[k].finalizers
         => pc = "EnsureFinalizerIsAdded" \/ UNCHANGED worker]_vars

(* A running request that nobody asked to delete is never left alone: its  *)
(* key is queued, the worker is on it, or a PipelineRun of its name has an *)
(* end that the watch has yet to show, and that will queue the key.        *)
WakeupIsPending ==
    \A k \in Requests :
        ir[k].live /\ ~ir[k].deleting /\ ir[k].cond = Running
        => \/ k \in queue
           \/ cur = k
           \/ \E p \in Runs :
                 Exists(pr[p]) /\ pr[p].owner = k /\ ~IsDone(prCache[p])

(* A request that is not deleted completes: it is rejected, or it succeeds *)
(* or fails with its PipelineRun; unless the API server refuses the run,   *)
(* when it is tried again for ever.                                        *)
EveryRequestCompletes ==
    \A k \in Requests :
        ir[k].live ~> \/ HasCompleted(ir[k]) \/ ir[k].deleting \/ ~ir[k].live
                      \/ <<k, ir[k].spec>> \in Refused

(* A request whose deletion was asked for does go away.                    *)
EveryDeletionEnds ==
    \A k \in Requests : ir[k].live /\ ir[k].deleting ~> ~ir[k].live

-----------------------------------------------------------------------------
(* The controller implements RequestLifecycle: the phase of a request is   *)
(* read off its condition, its execution off the PipelineRuns that were    *)
(* created for its uid, and the use of its name off those for other uids.  *)

PhaseOf(req) ==
    IF ~req.live THEN "absent"
    ELSE CASE req.cond = NoCondition -> "pending"
           [] req.cond = Running -> "running"
           [] req.cond = Succeeded -> "succeeded"
           [] req.cond = Failed -> "failed"
           [] req.cond = Rejected -> "rejected"

OwnRuns(k) ==
    {p \in Runs : /\ pr[p].phase # "unused"
                  /\ pr[p].owner = k /\ pr[p].forUid = ir[k].uid}

ExecutionOf(k) ==
    IF OwnRuns(k) = {} THEN "none"
    ELSE IF \E p \in OwnRuns(k) : Executing(pr[p]) THEN "active" ELSE "over"

UsedNames ==
    {k \in Requests :
        \E p \in Runs : /\ pr[p].phase # "unused"
                        /\ pr[p].owner = k /\ pr[p].forUid # ir[k].uid}

Lifecycle == INSTANCE RequestLifecycle WITH
                phase <- [k \in Requests |-> PhaseOf(ir[k])],
                execution <- [k \in Requests |-> ExecutionOf(k)],
                used <- UsedNames

(* Every step of the controller and of what surrounds it is a step of      *)
(* RequestLifecycle or leaves phases, executions and used names alone.     *)
ImplementsLifecycle == Lifecycle!Spec

-----------------------------------------------------------------------------
(* What the code's comments say in addition, and what does not hold.       *)

(* The PipelineRun that a request's status names was executed for it, and  *)
(* not for an earlier request of the same name.                            *)
RunIsOwn ==
    \A k \in Requests :
        ir[k].pipelineRun # NoRun => pr[ir[k].pipelineRun].forUid = ir[k].uid

(* The PipelineRun created to handle a request is deleted once it has      *)
(* finished, unless the request itself is deleted or was rejected since.   *)
FinishedRunIsDeleted ==
    \A p \in Runs :
        Exists(pr[p]) /\ IsDone(pr[p])
        ~> \/ ~Exists(pr[p])
           \/ ir[pr[p].owner].deleting \/ ir[pr[p].owner].cond = Rejected
           \/ ~ir[pr[p].owner].live
=============================================================================
