--------------------------- MODULE StaleCopyProofs ---------------------------
(***************************************************************************)
(* What the controller guarantees however far its caches lag behind the    *)
(* clusters, whoever deletes PipelineRuns and however often a name is used *)
(* again: a status is never stored over that of another request, and the   *)
(* metrics of a completed request find its start time.                     *)
(*                                                                         *)
(* The argument is about the controller's finalizer.  A copy that carries  *)
(* it and is not being deleted is of the request that is stored now: only  *)
(* the worker takes the finalizer away, and only after it has seen the     *)
(* request being deleted, from when on the cache shows it no other way.    *)
(***************************************************************************)
EXTENDS InternalRequestControllerProofs

(* The start time is set with the first condition, if that is Running.     *)
Stamped(req) ==
    /\ req.cond \in {Running, Succeeded, Failed} => req.startTime
    /\ req.cond = NoCondition => ~req.startTime

StampInv ==
    /\ \A k \in Requests : Stamped(ir[k]) /\ Stamped(irCache[k])
    /\ Stamped(mem)

AbsentInv == \A k \in Requests : ~ir[k].live => Ours \notin ir[k].finalizers

(* The copy is of the request that is stored, which cannot go away.        *)
Secured(copy, k) ==
    /\ ir[k].live
    /\ ir[k].uid = copy.uid
    /\ Ours \in ir[k].finalizers
    /\ copy.startTime => ir[k].startTime

CacheInv ==
    \A k \in Requests : Ours \in irCache[k].finalizers =>
        IF irCache[k].deleting THEN Ours \in ir[k].finalizers => ir[k].deleting
        ELSE Secured(irCache[k], k)

(* The worker is about to take the finalizer away.                         *)
Finalizing ==
    /\ pc \in {"EnsureFinalizersAreCalled", "RemoveFinalizer"}
    /\ mem.deleting
    /\ Ours \in mem.finalizers

WorkerInv ==
    /\ pc # "Idle" /\ Ours \in mem.finalizers /\ ~Finalizing => Secured(mem, cur)
    /\ Finalizing => /\ Ours \in ir[cur].finalizers => ir[cur].deleting
                     /\ Ours \in irCache[cur].finalizers => irCache[cur].deleting
    /\ /\ pc \in {"EnsureFinalizersAreCalled", "EnsureFinalizerIsAdded"}
       /\ ~mem.deleting /\ Ours \notin mem.finalizers
       /\ Ours \in irCache[cur].finalizers
       => Ours \in ir[cur].finalizers

(* What the operations before have established.                            *)
OrderInv ==
    /\ pc = "RemoveFinalizer" => mem.deleting
    /\ pc = "EnsureFinalizerIsAdded" => ~mem.deleting
    /\ pc \in Operations \ {"Idle", "EnsureFinalizersAreCalled", "EnsureFinalizerIsAdded"}
       => Ours \in mem.finalizers
    /\ pc \in {"EnsureConfigIsLoaded", "EnsureRequestIsAllowed",
               "EnsurePipelineRunIsCreated", "registerInternalRequestStatus"}
       => mem.cond \in {NoCondition, Running}
    /\ pc = "EnsureStatusIsTracked" => mem.startTime

StoredInv == StampInv /\ AbsentInv /\ CacheInv
CopyInv == WorkerInv /\ OrderInv
StaleInv == TypeOK /\ StoredInv /\ CopyInv

-----------------------------------------------------------------------------
(* Writes that leave the finalizer where it is or is not, and take nothing *)
(* back of a request that carries it.                                      *)

Calm(k) ==
    /\ Stamped(ir'[k])
    /\ Ours \in ir'[k].finalizers <=> Ours \in ir[k].finalizers
    /\ ~ir'[k].live => Ours \notin ir'[k].finalizers
    /\ Ours \in ir[k].finalizers => /\ ir'[k].uid = ir[k].uid
                                    /\ ir[k].startTime => ir'[k].startTime
                                    /\ ir[k].deleting => ir'[k].deleting

LEMMA UnwrittenIsCalm ==
    ASSUME StoredInv, NEW k \in Requests, ir'[k] = ir[k]
    PROVE  Calm(k)
BY DEF StoredInv, StampInv, AbsentInv, Calm, Stamped

LEMMA CalmStored ==
    ASSUME StoredInv, irCache' = irCache, \A k \in Requests : Calm(k), Stamped(mem')
    PROVE  StoredInv'
<1>1. StampInv'
  BY DEF StoredInv, StampInv, Calm, Stamped
<1>2. AbsentInv'
  BY DEF Calm, AbsentInv
<1>3. CacheInv'
  BY DEF StoredInv, CacheInv, Secured, Calm
<1> QED BY <1>1, <1>2, <1>3 DEF StoredInv

LEMMA CalmSecured ==
    ASSUME NEW copy, NEW k \in Requests, Secured(copy, k), Calm(k)
    PROVE  Secured(copy, k)'
BY DEF Secured, Calm

(* They take nothing from the worker.                                      *)
LEMMA OthersCalm ==
    ASSUME TypeOK, StoredInv, CopyInv, UNCHANGED worker, irCache' = irCache,
           \A k \in Requests : Calm(k)
    PROVE  StoredInv' /\ CopyInv'
<1>1. pc' = pc /\ cur' = cur /\ mem' = mem /\ (pc # "Idle" => cur \in Requests)
  BY DEF worker, TypeOK
<1>2. StoredInv'
  BY <1>1, CalmStored DEF StoredInv, StampInv, Stamped
<1>3. WorkerInv'
  BY <1>1 DEF CopyInv, WorkerInv, Secured, Finalizing, Calm
<1>4. OrderInv'
  BY <1>1 DEF CopyInv, OrderInv
<1> QED BY <1>2, <1>3, <1>4 DEF CopyInv

(* An idle worker claims nothing.                                          *)
LEMMA AbsentStamped == Stamped(Absent(0))
BY ConditionsDiffer DEF Stamped, Absent, NewRequest

LEMMA FinishCopy ==
    ASSUME Finish
    PROVE  CopyInv' /\ Stamped(mem')
<1>1. CopyInv'
  BY DEF Finish, CopyInv, WorkerInv, OrderInv, Finalizing
<1> QED BY <1>1, AbsentStamped DEF Finish

LEMMA FinishCalm ==
    ASSUME StoredInv, Finish, irCache' = irCache, \A k \in Requests : Calm(k)
    PROVE  StoredInv' /\ CopyInv'
BY FinishCopy, CalmStored

(* Going on with the same copy.                                            *)
LEMMA ContinueStored ==
    ASSUME StoredInv, irCache' = irCache, ir' = ir, mem' = mem
    PROVE  StoredInv'
BY DEF StoredInv, StampInv, AbsentInv, CacheInv, Secured, Stamped

LEMMA ContinueSecured ==
    ASSUME CopyInv, pc # "Idle", pc # "RemoveFinalizer", ~Finalizing,
           NEW op \in Operations \ {"Idle", "EnsureFinalizersAreCalled",
                                    "EnsureFinalizerIsAdded", "RemoveFinalizer"},
           Continue(op), ir' = ir, mem' = mem
    PROVE  WorkerInv'
BY DEF Continue, CopyInv, WorkerInv, Secured, Finalizing, Operations

-----------------------------------------------------------------------------
(* The worker's patch of its copy.                                         *)

LEMMA PatchedFields ==
    ASSUME TypeOK, pc # "Idle", NEW new \in InternalRequest
    PROVE  /\ cur \in Requests /\ ir[cur] \in InternalRequest /\ mem \in InternalRequest
           /\ Patched(new) \in InternalRequest
           /\ Patched(new).live = ir[cur].live /\ Patched(new).uid = ir[cur].uid
           /\ Patched(new).deleting = ir[cur].deleting
           /\ Patched(new).finalizers =
                Merged(ir[cur].finalizers, mem.finalizers, new.finalizers)
           /\ Patched(new).cond = Merged(ir[cur].cond, mem.cond, new.cond)
           /\ Patched(new).startTime = Merged(ir[cur].startTime, mem.startTime, new.startTime)
<1>1. cur \in Requests /\ ir[cur] \in InternalRequest /\ mem \in InternalRequest
  BY DEF TypeOK
<1> QED BY <1>1, MergePatchFields DEF Patched

(* What is stored of a request is stamped if the request is.               *)
LEMMA CollectedStamped ==
    ASSUME NEW req, Stamped(req)
    PROVE  Stamped(Collected(req)) /\ (Collected(req).live => Collected(req) = req)
<1>1. Absent(req.uid).cond = NoCondition /\ ~Absent(req.uid).live
      /\ ~Absent(req.uid).startTime
  BY DEF Absent, NewRequest
<1> QED BY <1>1, ConditionsDiffer DEF Collected, Stamped

(* A patch that changes the condition sets a start time, or the condition  *)
(* is Rejected; it sets none on its own, and takes none back.              *)
StampsAsItMarks(new) ==
    /\ new.finalizers = mem.finalizers
    /\ mem.startTime => new.startTime
    /\ new.cond = mem.cond => new.startTime = mem.startTime
    /\ new.cond # mem.cond => /\ new.cond # NoCondition
                              /\ new.cond # Rejected => new.startTime

(* On a secured copy, such a patch is calm and leaves the copy secured.    *)
LEMMA SecuredPatch ==
    ASSUME TypeOK, StoredInv, pc # "Idle", Secured(mem, cur), Ours \in mem.finalizers,
           NEW new \in InternalRequest, StampsAsItMarks(new)
    PROVE  /\ Patched(new).live /\ Ours \in Patched(new).finalizers
           /\ Stamped(Patched(new)) /\ Collected(Patched(new)) = Patched(new)
           /\ new.startTime => Patched(new).startTime
           /\ Store(Patched(new)) => /\ \A k \in Requests : Calm(k)
                                     /\ ir'[cur] = Patched(new)
<1> DEFINE req == Patched(new)
<1>1. /\ cur \in Requests /\ ir[cur] \in InternalRequest /\ mem \in InternalRequest
      /\ new.startTime \in BOOLEAN /\ mem.startTime \in BOOLEAN
  BY PatchedFields DEF InternalRequest
<1>2. /\ req.live /\ req.uid = ir[cur].uid /\ req.deleting = ir[cur].deleting
      /\ req.finalizers = ir[cur].finalizers
      /\ req.cond = Merged(ir[cur].cond, mem.cond, new.cond)
      /\ req.startTime = Merged(ir[cur].startTime, mem.startTime, new.startTime)
  BY PatchedFields DEF Secured, StampsAsItMarks, Merged
<1> HIDE DEF req
<1>3. /\ new.startTime => req.startTime
      /\ ir[cur].startTime => req.startTime
      /\ new.cond = mem.cond => req.startTime = ir[cur].startTime /\ req.cond = ir[cur].cond
      /\ new.cond # mem.cond => req.cond = new.cond
  BY <1>1, <1>2 DEF Merged, Secured, StampsAsItMarks
<1>4. Stamped(req)
  BY <1>1, <1>3, ConditionsDiffer DEF StoredInv, StampInv, Stamped, StampsAsItMarks
<1>5. Ours \in req.finalizers /\ Collected(req) = req
  BY <1>2 DEF Secured, Collected
<1>6. ASSUME Store(req) PROVE ir'[cur] = req /\ \A k \in Requests : Calm(k)
  <2>1. ir'[cur] = req /\ \A k \in Requests \ {cur} : ir'[k] = ir[k]
    BY <1>1, <1>5, <1>6 DEF Store, TypeOK
  <2>2. Calm(cur)
    BY <1>2, <1>3, <1>4, <2>1 DEF Calm, Secured
  <2> QED BY <2>1, <2>2, UnwrittenIsCalm
<1> QED BY <1>2, <1>3, <1>4, <1>5, <1>6 DEF req

(* Whatever becomes of it, it leaves the worker idle or with a copy that   *)
(* is secured.                                                             *)
LEMMA PatchOfSecured ==
    ASSUME TypeOK, StoredInv, pc # "Idle", Secured(mem, cur), Ours \in mem.finalizers,
           NEW new \in InternalRequest, StampsAsItMarks(new), irCache' = irCache,
           NEW op \in Operations \ {"Idle", "EnsureFinalizersAreCalled",
                                    "EnsureFinalizerIsAdded", "RemoveFinalizer"},
           PatchAndContinue(new, op) \/ PatchAndStop(new)
    PROVE  /\ StoredInv'
           /\ \/ CopyInv'
              \/ /\ pc' = op /\ mem' = Patched(new)
                 /\ WorkerInv'
<1>1. ir' = ir => \A k \in Requests : Calm(k)
  BY UnwrittenIsCalm
<1>2. Store(Patched(new)) => \A k \in Requests : Calm(k)
  BY SecuredPatch
<1>3. CASE Finish
  <2>1. ir' = ir \/ Store(Patched(new))
    BY DEF PatchAndContinue, PatchAndStop, PatchSucceeds, PatchFails
  <2> QED BY <1>1, <1>2, <1>3, <2>1, FinishCalm
<1>4. CASE PatchSucceeds(new) /\ mem' = Patched(new) /\ Continue(op)
  <2> DEFINE req == Patched(new)
  <2>1. /\ Stamped(req) /\ req.live /\ Ours \in req.finalizers /\ ir'[cur] = req
        /\ \A k \in Requests : Calm(k)
    BY <1>4, SecuredPatch DEF PatchSucceeds
  <2> HIDE DEF req
  <2>2. mem' = req /\ pc' = op /\ cur' = cur
    BY <1>4 DEF Continue, req
  <2>3. StoredInv'
    BY <2>1, <2>2, CalmStored
  <2>4. WorkerInv'
    BY <2>1, <2>2 DEF WorkerInv, Finalizing, Secured, Operations
  <2> QED BY <2>2, <2>3, <2>4 DEF req
<1> QED BY <1>3, <1>4 DEF PatchAndContinue, PatchAndStop, PatchFails, StopProcessing, Requeue

-----------------------------------------------------------------------------
(* The operations, one by one.                                             *)

LEMMA ReconcileStep ==
    ASSUME StaleInv, NEW k \in Requests, Reconcile(k)
    PROVE  StoredInv' /\ CopyInv'
<1>1. ir' = ir /\ irCache' = irCache /\ \A j \in Requests : Calm(j)
  BY UnwrittenIsCalm DEF Reconcile, clusters, caches, StaleInv
<1>2. CASE irCache[k].live
  <2>1. pc' = "EnsureFinalizersAreCalled" /\ cur' = k /\ mem' = irCache[k]
    BY <1>2 DEF Reconcile
  <2>2. StoredInv'
    BY <1>1, <2>1, CalmStored DEF StaleInv, StoredInv, StampInv
  <2>3. WorkerInv'
    BY <1>1, <2>1 DEF StaleInv, StoredInv, CacheInv, WorkerInv, Finalizing, Secured
  <2> QED BY <2>1, <2>2, <2>3 DEF CopyInv, OrderInv
<1>3. CASE ~irCache[k].live
  <2>1. UNCHANGED worker
    BY <1>3 DEF Reconcile
  <2> QED BY <1>1, <2>1, OthersCalm DEF StaleInv
<1> QED BY <1>2, <1>3

LEMMA EnsureFinalizersAreCalledStep ==
    ASSUME StaleInv, EnsureFinalizersAreCalled
    PROVE  StoredInv' /\ CopyInv'
<1>1. /\ pc = "EnsureFinalizersAreCalled" /\ ir' = ir /\ irCache' = irCache
      /\ \A k \in Requests : Calm(k)
  BY UnwrittenIsCalm DEF EnsureFinalizersAreCalled, At, caches, StaleInv
<1>2. CASE Finish
  BY <1>1, <1>2, FinishCalm DEF StaleInv
<1>3. CASE ~mem.deleting /\ Continue("EnsureFinalizerIsAdded") /\ mem' = mem
  <2>1. StoredInv'
    BY <1>1, <1>3, ContinueStored DEF StaleInv
  <2>2. WorkerInv'
    BY <1>1, <1>3 DEF StaleInv, CopyInv, WorkerInv, Finalizing, Secured, Continue
  <2> QED BY <1>3, <2>1, <2>2 DEF CopyInv, OrderInv, Continue
<1>4. CASE /\ mem.deleting /\ Ours \in mem.finalizers
           /\ Continue("RemoveFinalizer") /\ mem' = mem
  <2>1. StoredInv'
    BY <1>1, <1>4, ContinueStored DEF StaleInv
  <2>2. WorkerInv'
    BY <1>1, <1>4 DEF StaleInv, CopyInv, WorkerInv, Finalizing, Continue
  <2> QED BY <1>4, <2>1, <2>2 DEF CopyInv, OrderInv, Continue
<1> QED BY <1>2, <1>3, <1>4 DEF EnsureFinalizersAreCalled, cancelPipelineRun, Requeue

(* The finalizer is taken away: no copy that carries it passes for one of  *)
(* a request that is there to stay.                                        *)
LEMMA RemoveFinalizerStep ==
    ASSUME StaleInv, RemoveFinalizer
    PROVE  StoredInv' /\ CopyInv'
<1> DEFINE new == [mem EXCEPT !.finalizers = @ \ {Ours}]
           req == Patched(new)
<1>1. /\ pc = "RemoveFinalizer" /\ irCache' = irCache /\ PatchAndRequeue(new)
      /\ TypeOK /\ Finalizing /\ mem \in InternalRequest
  BY DEF RemoveFinalizer, At, caches, StaleInv, CopyInv, OrderInv, Finalizing, TypeOK, Operations
<1>2. /\ new \in InternalRequest /\ new.cond = mem.cond /\ new.startTime = mem.startTime
      /\ new.finalizers = mem.finalizers \ {Ours} /\ Ours \in mem.finalizers
  BY <1>1 DEF InternalRequest, Finalizing
<1>3. Finish /\ (ir' = ir \/ Store(req))
  BY <1>1 DEF PatchAndRequeue, PatchSucceeds, PatchFails, Requeue
<1> HIDE DEF new
<1>4. /\ cur \in Requests /\ Ours \notin req.finalizers
      /\ req.cond = ir[cur].cond /\ req.startTime = ir[cur].startTime
  BY <1>1, <1>2, PatchedFields DEF Merged
<1> HIDE DEF req
<1>5. Stamped(req)
  BY <1>4 DEF StaleInv, StoredInv, StampInv, Stamped
<1>6. CASE ir' = ir
  <2>1. \A k \in Requests : Calm(k)
    BY <1>6, UnwrittenIsCalm DEF StaleInv
  <2> QED BY <1>1, <1>3, <2>1, FinishCalm DEF StaleInv
<1>7. CASE Store(req)
  <2>1. ir'[cur] = Collected(req) /\ \A k \in Requests \ {cur} : ir'[k] = ir[k]
    BY <1>1, <1>4, <1>7 DEF Store, TypeOK
  <2>2. Stamped(ir'[cur]) /\ Ours \notin ir'[cur].finalizers
    BY <1>4, <1>5, <2>1, CollectedStamped DEF Collected, Absent, NewRequest
  <2>3. StampInv'
    BY <1>1, <1>3, <2>1, <2>2, FinishCopy DEF StaleInv, StoredInv, StampInv, Stamped
  <2>4. AbsentInv'
    BY <2>1, <2>2 DEF StaleInv, StoredInv, AbsentInv
  <2>5. CacheInv'
    BY <1>1, <2>1, <2>2 DEF StaleInv, StoredInv, CopyInv, WorkerInv, CacheInv, Secured
  <2> QED BY <1>3, <2>3, <2>4, <2>5, FinishCopy DEF StoredInv
<1> QED BY <1>3, <1>6, <1>7

LEMMA EnsureFinalizerIsAddedStep ==
    ASSUME StaleInv, EnsureFinalizerIsAdded
    PROVE  StoredInv' /\ CopyInv'
<1> DEFINE new == [mem EXCEPT !.finalizers = @ \cup {Ours}]
           req == Patched(new)
           next == "EnsureRequestINotCompleted"
<1>1. /\ pc = "EnsureFinalizerIsAdded" /\ irCache' = irCache
      /\ TypeOK /\ StoredInv /\ CopyInv /\ mem \in InternalRequest /\ ~mem.deleting
  BY DEF EnsureFinalizerIsAdded, At, caches, StaleInv, CopyInv, OrderInv, TypeOK
<1>2. CASE Ours \in mem.finalizers
  <2>1. Continue(next) /\ ir' = ir /\ mem' = mem
    BY <1>2 DEF EnsureFinalizerIsAdded
  <2>2. StoredInv'
    BY <1>1, <2>1, ContinueStored
  <2>3. WorkerInv'
    BY <1>1, <2>1, ContinueSecured DEF Finalizing, Operations
  <2> QED BY <1>2, <2>1, <2>2, <2>3 DEF CopyInv, OrderInv, Continue
<1>3. CASE Ours \notin mem.finalizers
  <2>1. PatchAndContinue(new, next)
    BY <1>3 DEF EnsureFinalizerIsAdded
  <2>2. /\ new \in InternalRequest /\ new.cond = mem.cond /\ new.startTime = mem.startTime
        /\ new.finalizers = mem.finalizers \cup {Ours}
    BY <1>1 DEF InternalRequest, Finalizers
  <2> HIDE DEF new
  <2>3. /\ cur \in Requests /\ Ours \in req.finalizers
        /\ req.cond = ir[cur].cond /\ req.startTime = ir[cur].startTime
        /\ req.live = ir[cur].live /\ req.uid = ir[cur].uid
        /\ req.deleting = ir[cur].deleting
    BY <1>1, <1>3, <2>2, PatchedFields DEF Merged
  <2> HIDE DEF req
  <2>4. Stamped(req) /\ Collected(req) = req
    BY <1>1, <2>3 DEF StoredInv, StampInv, Stamped, Collected
  <2>5. ASSUME Store(req), ir[cur].live, Stamped(mem')
        PROVE  StoredInv' /\ ir'[cur] = req
    <3>1. ir'[cur] = req /\ \A k \in Requests \ {cur} : ir'[k] = ir[k]
      BY <1>1, <2>3, <2>4, <2>5 DEF Store, TypeOK
    <3>2. StampInv'
      BY <1>1, <2>4, <2>5, <3>1 DEF StoredInv, StampInv, Stamped
    <3>3. AbsentInv'
      BY <1>1, <2>3, <2>5, <3>1 DEF StoredInv, AbsentInv
    <3>4. CacheInv'
      BY <1>1, <1>3, <2>3, <3>1 DEF StoredInv, CopyInv, WorkerInv, CacheInv, Secured
    <3> QED BY <3>1, <3>2, <3>3, <3>4 DEF StoredInv
  <2>6. CASE Finish
    <3>1. ir' = ir \/ (Store(req) /\ ir[cur].live)
      BY <2>1 DEF PatchAndContinue, PatchSucceeds, PatchFails, Accepts, req
    <3>2. ir' = ir => \A k \in Requests : Calm(k)
      BY <1>1, UnwrittenIsCalm
    <3> QED BY <1>1, <2>5, <2>6, <3>1, <3>2, FinishCalm, FinishCopy
  <2>7. CASE PatchSucceeds(new) /\ mem' = Patched(new) /\ Continue(next)
    <3>1. mem' = req /\ Store(req) /\ ir[cur].live /\ pc' = next /\ cur' = cur
      BY <2>7 DEF PatchSucceeds, Accepts, Continue, req
    <3>2. StoredInv' /\ ir'[cur] = req
      BY <2>4, <2>5, <3>1
    <3>3. WorkerInv'
      BY <2>3, <3>1, <3>2 DEF WorkerInv, Finalizing, Secured
    <3> QED BY <2>3, <3>1, <3>2, <3>3 DEF CopyInv, OrderInv
  <2> QED BY <2>1, <2>6, <2>7 DEF PatchAndContinue, PatchFails, Requeue
<1> QED BY <1>2, <1>3

(* The operations after the finalizer is there work on a secured copy.     *)
LEMMA SecuredStage ==
    ASSUME StaleInv,
           pc \in Operations \ {"Idle", "EnsureFinalizersAreCalled",
                                "EnsureFinalizerIsAdded", "RemoveFinalizer"}
    PROVE  /\ TypeOK /\ StoredInv /\ Stamped(mem) /\ ~Finalizing
           /\ mem \in InternalRequest /\ Ours \in mem.finalizers /\ Secured(mem, cur)
BY DEF StaleInv, StoredInv, StampInv, CopyInv, OrderInv, WorkerInv, Finalizing, TypeOK

LEMMA EnsureRequestINotCompletedStep ==
    ASSUME StaleInv, EnsureRequestINotCompleted
    PROVE  StoredInv' /\ CopyInv'
<1>1. /\ pc = "EnsureRequestINotCompleted" /\ ir' = ir /\ irCache' = irCache
      /\ \A k \in Requests : Calm(k)
  BY UnwrittenIsCalm DEF EnsureRequestINotCompleted, At, clusters, caches, StaleInv
<1>2. StoredInv /\ mem \in InternalRequest /\ Ours \in mem.finalizers /\ ~Finalizing
  BY <1>1, SecuredStage DEF Operations
<1>3. CASE HasCompleted(mem)
  BY <1>1, <1>2, <1>3, FinishCalm DEF EnsureRequestINotCompleted, StopProcessing
<1>4. CASE ~HasCompleted(mem)
  <2>1. Continue("EnsureConfigIsLoaded") /\ mem' = mem
    BY <1>4 DEF EnsureRequestINotCompleted
  <2>2. mem.cond \in {NoCondition, Running}
    BY <1>2, <1>4, CompletedConditions DEF InternalRequest, Conditions
  <2>3. StoredInv' /\ WorkerInv'
    BY <1>1, <1>2, <2>1, ContinueStored, ContinueSecured DEF StaleInv, Operations
  <2> QED BY <1>2, <2>1, <2>2, <2>3 DEF CopyInv, OrderInv, Continue
<1> QED BY <1>3, <1>4

LEMMA EnsureConfigIsLoadedStep ==
    ASSUME StaleInv, EnsureConfigIsLoaded
    PROVE  StoredInv' /\ CopyInv'
<1>1. /\ pc = "EnsureConfigIsLoaded" /\ ir' = ir /\ irCache' = irCache
      /\ mem' = mem /\ Continue("EnsureRequestIsAllowed")
  BY DEF EnsureConfigIsLoaded, At, clusters, caches
<1>2. Ours \in mem.finalizers /\ ~Finalizing /\ mem.cond \in {NoCondition, Running}
  BY <1>1, SecuredStage DEF Operations, StaleInv, CopyInv, OrderInv
<1>3. StoredInv' /\ WorkerInv'
  BY <1>1, <1>2, ContinueStored, ContinueSecured DEF StaleInv, Operations
<1> QED BY <1>1, <1>2, <1>3 DEF CopyInv, OrderInv, Continue

LEMMA EnsureRequestIsAllowedStep ==
    ASSUME StaleInv, EnsureRequestIsAllowed
    PROVE  StoredInv' /\ CopyInv'
<1> DEFINE new == MarkRejected(mem)
<1>1. pc = "EnsureRequestIsAllowed" /\ irCache' = irCache
  BY DEF EnsureRequestIsAllowed, At, caches
<1>2. /\ TypeOK /\ StoredInv /\ mem \in InternalRequest /\ Ours \in mem.finalizers
      /\ Secured(mem, cur) /\ ~Finalizing /\ mem.cond \in {NoCondition, Running}
  BY <1>1, SecuredStage DEF Operations, StaleInv, CopyInv, OrderInv
<1>3. CASE /\ Continue("EnsurePipelineRunIsCreated") /\ UNCHANGED <<ir, mem>>
  <2>1. StoredInv' /\ WorkerInv'
    BY <1>1, <1>2, <1>3, ContinueStored, ContinueSecured DEF StaleInv, Operations
  <2> QED BY <1>2, <1>3, <2>1 DEF CopyInv, OrderInv, Continue
<1>4. CASE PatchAndStop(new)
  <2>1. ~HasCompleted(mem)
    BY <1>2, CompletedConditions, ConditionsDiffer
  <2>2. /\ new \in InternalRequest /\ new.finalizers = mem.finalizers
        /\ new.cond = Rejected /\ new.startTime = mem.startTime
    BY <1>2, <2>1, MarkType DEF MarkRejected, InternalRequest
  <2> HIDE DEF new
  <2>3. StampsAsItMarks(new)
    BY <1>2, <2>2, ConditionsDiffer DEF StampsAsItMarks
  <2>4. Finish
    BY <1>4 DEF PatchAndStop, PatchFails, Requeue, StopProcessing
  <2> QED BY <1>1, <1>2, <1>4, <2>2, <2>3, <2>4, PatchOfSecured, FinishCopy DEF Operations
<1> QED BY <1>3, <1>4 DEF EnsureRequestIsAllowed

LEMMA EnsurePipelineRunIsCreatedStep ==
    ASSUME StaleInv, EnsurePipelineRunIsCreated
    PROVE  StoredInv' /\ CopyInv'
<1>1. /\ pc = "EnsurePipelineRunIsCreated" /\ ir' = ir /\ irCache' = irCache
      /\ \A k \in Requests : Calm(k)
  BY UnwrittenIsCalm DEF EnsurePipelineRunIsCreated, At, caches, StaleInv
<1>2. /\ StoredInv /\ mem \in InternalRequest /\ Ours \in mem.finalizers /\ Stamped(mem)
      /\ ~Finalizing /\ mem.cond \in {NoCondition, Running}
  BY <1>1, SecuredStage DEF Operations, StaleInv, CopyInv, OrderInv
<1>3. \/ Finish
      \/ \E op \in {"EnsureStatusIsTracked", "registerInternalRequestStatus"} :
           /\ op = "EnsureStatusIsTracked" => IsRunning(mem)
           /\ Continue(op) /\ mem' = mem
  BY DEF EnsurePipelineRunIsCreated, Requeue
<1>4. ASSUME NEW op \in {"EnsureStatusIsTracked", "registerInternalRequestStatus"},
             op = "EnsureStatusIsTracked" => IsRunning(mem), Continue(op), mem' = mem
      PROVE  StoredInv' /\ CopyInv'
  <2>1. StoredInv' /\ WorkerInv'
    BY <1>1, <1>2, <1>4, ContinueStored, ContinueSecured DEF StaleInv, Operations
  <2>2. op = "EnsureStatusIsTracked" => mem.startTime
    BY <1>2, <1>4, CompletedConditions DEF Stamped
  <2> QED BY <1>2, <1>4, <2>1, <2>2 DEF CopyInv, OrderInv, Continue
<1> QED BY <1>1, <1>2, <1>3, <1>4, FinishCalm

LEMMA registerInternalRequestStatusStep ==
    ASSUME StaleInv, registerInternalRequestStatus
    PROVE  StoredInv' /\ CopyInv'
<1> DEFINE new == MarkRunning(mem)
           next == "EnsureStatusIsTracked"
<1>1. /\ pc = "registerInternalRequestStatus" /\ irCache' = irCache
      /\ PatchAndContinue(new, next)
  BY DEF registerInternalRequestStatus, At, caches
<1>2. /\ TypeOK /\ StoredInv /\ mem \in InternalRequest /\ Ours \in mem.finalizers
      /\ Secured(mem, cur) /\ Stamped(mem) /\ mem.cond \in {NoCondition, Running}
  BY <1>1, SecuredStage DEF Operations, StaleInv, CopyInv, OrderInv
<1>3. ~HasCompleted(mem) /\ (IsRunning(mem) <=> mem.cond = Running)
  BY <1>2, CompletedConditions, ConditionsDiffer
<1>4. /\ new \in InternalRequest /\ new.finalizers = mem.finalizers
      /\ new.cond = Running /\ new.startTime
  <2>1. new = [mem EXCEPT !.cond = Running, !.startTime = mem.startTime \/ ~IsRunning(mem)]
    BY <1>3 DEF MarkRunning
  <2>2. mem.startTime \/ ~IsRunning(mem)
    BY <1>2, <1>3 DEF Stamped
  <2> QED BY <1>2, <2>1, <2>2, MarkType DEF InternalRequest
<1> HIDE DEF new
<1>5. StampsAsItMarks(new)
  <2>1. mem.startTime \in BOOLEAN /\ new.startTime \in BOOLEAN
    BY <1>2, <1>4 DEF InternalRequest
  <2> QED BY <1>2, <1>4, <2>1, ConditionsDiffer DEF StampsAsItMarks, Stamped
<1>6. Patched(new).startTime /\ Ours \in Patched(new).finalizers
  BY <1>1, <1>2, <1>4, <1>5, SecuredPatch
<1>7. \/ StoredInv' /\ CopyInv'
      \/ StoredInv' /\ WorkerInv' /\ pc' = next /\ mem' = Patched(new)
  BY <1>1, <1>2, <1>4, <1>5, PatchOfSecured DEF Operations
<1> QED BY <1>6, <1>7 DEF CopyInv, OrderInv

(* What tracking makes of a copy that has a start time.                    *)
LEMMA TrackedStamps ==
    ASSUME NEW p \in Runs, NEW run, mem \in InternalRequest, mem.startTime,
           mem.cond # NoCondition
    PROVE  /\ Tracked(mem, p, run) \in InternalRequest
           /\ StampsAsItMarks(Tracked(mem, p, run))
<1> DEFINE tracked == [mem EXCEPT !.pipelineRun = p]
           done == [tracked EXCEPT !.results = p]
<1>1. /\ tracked \in InternalRequest /\ tracked.cond = mem.cond
      /\ tracked.finalizers = mem.finalizers /\ tracked.startTime = mem.startTime
  BY DEF InternalRequest
<1>2. /\ done \in InternalRequest /\ done.cond = mem.cond
      /\ done.finalizers = mem.finalizers /\ done.startTime = mem.startTime
  BY DEF InternalRequest
<1> HIDE DEF tracked, done
<1>3. /\ MarkSucceeded(done).finalizers = mem.finalizers
      /\ MarkSucceeded(done).startTime = mem.startTime
      /\ MarkSucceeded(done).cond \in {mem.cond, Succeeded}
  BY <1>2 DEF MarkSucceeded, InternalRequest
<1>4. /\ MarkFailed(tracked).finalizers = mem.finalizers
      /\ MarkFailed(tracked).startTime = mem.startTime
      /\ MarkFailed(tracked).cond \in {mem.cond, Failed}
  BY <1>1 DEF MarkFailed, InternalRequest
<1>5. Tracked(mem, p, run) \in {tracked, MarkSucceeded(done), MarkFailed(tracked)}
  BY DEF Tracked, tracked, done
<1> QED BY <1>1, <1>3, <1>4, <1>5, ConditionsDiffer, TrackedType DEF StampsAsItMarks

LEMMA EnsureStatusIsTrackedStep ==
    ASSUME StaleInv, EnsureStatusIsTracked
    PROVE  StoredInv' /\ CopyInv'
<1> DEFINE next == "EnsurePipelineRunIsDeleted"
<1>1. pc = "EnsureStatusIsTracked" /\ irCache' = irCache
  BY DEF EnsureStatusIsTracked, At, caches
<1>2. /\ TypeOK /\ StoredInv /\ mem \in InternalRequest /\ Ours \in mem.finalizers
      /\ Secured(mem, cur) /\ Stamped(mem) /\ ~Finalizing /\ mem.startTime
  BY <1>1, SecuredStage DEF Operations, StaleInv, CopyInv, OrderInv
<1>3. PICK p \in GetInternalRequestPipelineRun(cur) :
        IF p = NoRun
        THEN Continue(next) /\ UNCHANGED <<ir, mem>>
        ELSE PatchAndContinue(Tracked(mem, p, prCache[p]), next)
  BY DEF EnsureStatusIsTracked
<1>4. CASE p = NoRun
  <2>1. StoredInv' /\ WorkerInv'
    BY <1>1, <1>2, <1>3, <1>4, ContinueStored, ContinueSecured DEF StaleInv, Operations
  <2> QED BY <1>2, <1>3, <1>4, <2>1 DEF CopyInv, OrderInv, Continue
<1>5. CASE p # NoRun
  <2> DEFINE new == Tracked(mem, p, prCache[p])
  <2>1. p \in Runs
    BY <1>2, <1>5, LoadedRuns
  <2>2. new \in InternalRequest /\ StampsAsItMarks(new) /\ PatchAndContinue(new, next)
    BY <1>2, <1>3, <1>5, <2>1, TrackedStamps DEF Stamped
  <2> HIDE DEF new
  <2>3. Ours \in Patched(new).finalizers
    BY <1>1, <1>2, <2>2, SecuredPatch
  <2>4. \/ StoredInv' /\ CopyInv'
        \/ StoredInv' /\ WorkerInv' /\ pc' = next /\ mem' = Patched(new)
    BY <1>1, <1>2, <2>2, PatchOfSecured DEF Operations
  <2> QED BY <2>3, <2>4 DEF CopyInv, OrderInv
<1> QED BY <1>4, <1>5

(* The ones that end the reconcile without a write to a request.           *)
LEMMA EndingStep ==
    ASSUME StaleInv, EnsurePipelineRunIsDeleted \/ (ReadFails /\ pc # "Idle")
    PROVE  StoredInv' /\ CopyInv'
<1>1. ir' = ir /\ irCache' = irCache /\ Finish
  BY DEF EnsurePipelineRunIsDeleted, ReadFails, StopProcessing, Requeue, clusters, caches
<1>2. \A k \in Requests : Calm(k)
  BY <1>1, UnwrittenIsCalm DEF StaleInv
<1> QED BY <1>1, <1>2, FinishCalm DEF StaleInv

-----------------------------------------------------------------------------
(* The watches, a restart and everybody else.                              *)

(* What the cache is brought up to is the stored request.                  *)
LEMMA CacheStep ==
    ASSUME StaleInv, ir' = ir, UNCHANGED worker,
           \A k \in Requests : irCache'[k] = irCache[k] \/ irCache'[k] = ir[k]
    PROVE  StoredInv' /\ CopyInv'
<1>1. pc' = pc /\ cur' = cur /\ mem' = mem /\ (pc # "Idle" => cur \in Requests)
  BY DEF worker, StaleInv, TypeOK
<1>2. StampInv' /\ AbsentInv'
  BY <1>1 DEF StaleInv, StoredInv, StampInv, Stamped, AbsentInv
<1>3. CacheInv'
  BY DEF StaleInv, StoredInv, CacheInv, AbsentInv, Secured
<1>4. WorkerInv'
  BY <1>1 DEF StaleInv, CopyInv, WorkerInv, Finalizing, Secured
<1>5. OrderInv'
  BY <1>1 DEF StaleInv, CopyInv, OrderInv
<1> QED BY <1>2, <1>3, <1>4, <1>5 DEF StoredInv, CopyInv

LEMMA WatchStep ==
    ASSUME StaleInv, Watch
    PROVE  StoredInv' /\ CopyInv'
<1>1. ir' = ir /\ UNCHANGED worker
  BY DEF Watch, DeliverInternalRequest, DeliverPipelineRun, RelistInternalRequests,
         RelistPipelineRuns, clusters
<1>2. \/ irCache' = irCache \/ irCache' = ir
      \/ \E k \in Requests : irCache' = [irCache EXCEPT ![k] = ir[k]]
  BY DEF Watch, DeliverInternalRequest, DeliverPipelineRun, RelistInternalRequests,
         RelistPipelineRuns
<1>3. \A k \in Requests : irCache'[k] = irCache[k] \/ irCache'[k] = ir[k]
  BY <1>2 DEF StaleInv, TypeOK
<1> QED BY <1>1, <1>3, CacheStep

LEMMA RestartStep ==
    ASSUME StaleInv, Restart
    PROVE  StoredInv' /\ CopyInv'
<1>1. ir' = ir /\ irCache' = ir /\ CopyInv' /\ Stamped(mem')
  BY FinishCopy DEF Restart, clusters
<1>2. StampInv' /\ AbsentInv'
  BY <1>1 DEF StaleInv, StoredInv, StampInv, Stamped, AbsentInv
<1>3. CacheInv'
  BY <1>1 DEF StaleInv, StoredInv, CacheInv, AbsentInv, Secured
<1> QED BY <1>1, <1>2, <1>3 DEF StoredInv

(* A user's write that keeps the status and the controller's finalizer.    *)
LEMMA UserWriteIsCalm ==
    ASSUME StaleInv, NEW k \in Requests, NEW r,
           ir' = [ir EXCEPT ![k] = Collected(r)],
           r.cond = ir[k].cond, r.startTime = ir[k].startTime, r.uid = ir[k].uid,
           r.live = ir[k].live, ir[k].deleting => r.deleting,
           Ours \in r.finalizers <=> Ours \in ir[k].finalizers
    PROVE  \A j \in Requests : Calm(j)
<1>1. ir'[k] = Collected(r) /\ \A j \in Requests \ {k} : ir'[j] = ir[j]
  BY DEF StaleInv, TypeOK
<1>2. Stamped(Collected(r)) /\ (Collected(r).live => Collected(r) = r)
  BY CollectedStamped DEF StaleInv, StoredInv, StampInv, Stamped
<1>3. /\ Collected(r) = r \/ Collected(r) = Absent(r.uid)
      /\ Ours \in r.finalizers => Collected(r) = r
      /\ Ours \notin Absent(r.uid).finalizers
  BY DEF Collected, Absent, NewRequest
<1>4. Calm(k)
  BY <1>1, <1>2, <1>3 DEF Calm, StaleInv, StoredInv, AbsentInv
<1> QED BY <1>1, <1>4, UnwrittenIsCalm DEF StaleInv

LEMMA UserStep ==
    ASSUME StaleInv, Users
    PROVE  StoredInv' /\ CopyInv'
<1>1. UNCHANGED worker /\ irCache' = irCache /\ TypeOK
  BY DEF Users, CreateRequest, EditSpec, DeleteRequest, AddOther, RemoveOther,
         ChangeConfig, environment, caches, StaleInv
<1> SUFFICES \A j \in Requests : Calm(j)
  BY <1>1, OthersCalm DEF StaleInv
<1>2. ASSUME NEW k \in Requests, CreateRequest(k) PROVE \A j \in Requests : Calm(j)
  <2>1. PICK spec \in Specs, finalizers \in {{}, {Other}} :
          ir' = [ir EXCEPT ![k] = NewRequest(ir[k].uid + 1, spec, finalizers)]
    BY <1>2 DEF CreateRequest
  <2> DEFINE r == NewRequest(ir[k].uid + 1, spec, finalizers)
  <2>2. /\ r.cond = NoCondition /\ ~r.startTime /\ r.live /\ Ours \notin r.finalizers
    BY DEF NewRequest, Ours, Other
  <2>3. ir'[k] = r /\ \A j \in Requests \ {k} : ir'[j] = ir[j]
    BY <1>1, <2>1 DEF TypeOK
  <2> HIDE DEF r
  <2>4. Ours \notin ir[k].finalizers
    BY <1>2 DEF CreateRequest, StaleInv, StoredInv, AbsentInv
  <2>5. Calm(k)
    BY <2>2, <2>3, <2>4, ConditionsDiffer DEF Calm, Stamped
  <2> QED BY <2>3, <2>5, UnwrittenIsCalm DEF StaleInv
<1>3. ASSUME NEW k \in Requests, EditSpec(k) PROVE \A j \in Requests : Calm(j)
  <2>1. PICK spec \in Specs :
          ir' = [ir EXCEPT ![k].spec = spec, ![k].generation = ir[k].generation + 1]
    BY <1>3 DEF EditSpec
  <2> DEFINE r == [ir[k] EXCEPT !.spec = spec, !.generation = ir[k].generation + 1]
  <2>2. /\ r.cond = ir[k].cond /\ r.startTime = ir[k].startTime /\ r.uid = ir[k].uid
        /\ r.live = ir[k].live /\ r.deleting = ir[k].deleting
        /\ r.finalizers = ir[k].finalizers
    BY <1>1 DEF TypeOK, InternalRequest
  <2>3. ir'[k] = r /\ \A j \in Requests \ {k} : ir'[j] = ir[j]
    BY <1>1, <2>1 DEF TypeOK
  <2> HIDE DEF r
  <2>4. Calm(k)
    BY <2>2, <2>3 DEF Calm, StaleInv, StoredInv, StampInv, Stamped, AbsentInv
  <2> QED BY <2>3, <2>4, UnwrittenIsCalm DEF StaleInv
<1>4. ASSUME NEW k \in Requests, DeleteRequest(k) PROVE \A j \in Requests : Calm(j)
  <2> DEFINE r == [ir[k] EXCEPT !.deleting = TRUE]
  <2>1. /\ r.cond = ir[k].cond /\ r.startTime = ir[k].startTime /\ r.uid = ir[k].uid
        /\ r.live = ir[k].live /\ r.deleting /\ r.finalizers = ir[k].finalizers
    BY <1>1 DEF TypeOK, InternalRequest
  <2>2. ir' = [ir EXCEPT ![k] = Collected(r)]
    BY <1>4 DEF DeleteRequest
  <2> HIDE DEF r
  <2> QED BY <2>1, <2>2, UserWriteIsCalm
<1>5. ASSUME NEW k \in Requests, AddOther(k) PROVE \A j \in Requests : Calm(j)
  <2> DEFINE r == [ir[k] EXCEPT !.finalizers = ir[k].finalizers \cup {Other}]
  <2>1. /\ r.cond = ir[k].cond /\ r.startTime = ir[k].startTime /\ r.uid = ir[k].uid
        /\ r.live = ir[k].live /\ r.deleting = ir[k].deleting
        /\ Ours \in r.finalizers <=> Ours \in ir[k].finalizers
    BY <1>1 DEF TypeOK, InternalRequest, Ours, Other
  <2>2. ir' = [ir EXCEPT ![k] = r] /\ ~ir[k].deleting
    BY <1>1, <1>5 DEF AddOther, TypeOK
  <2> HIDE DEF r
  <2>3. ir' = [ir EXCEPT ![k] = Collected(r)]
    BY <2>1, <2>2 DEF Collected
  <2> QED BY <2>1, <2>3, UserWriteIsCalm
<1>6. ASSUME NEW k \in Requests, RemoveOther(k) PROVE \A j \in Requests : Calm(j)
  <2> DEFINE r == [ir[k] EXCEPT !.finalizers = ir[k].finalizers \ {Other}]
  <2>1. /\ r.cond = ir[k].cond /\ r.startTime = ir[k].startTime /\ r.uid = ir[k].uid
        /\ r.live = ir[k].live /\ r.deleting = ir[k].deleting
        /\ Ours \in r.finalizers <=> Ours \in ir[k].finalizers
    BY <1>1 DEF TypeOK, InternalRequest, Ours, Other
  <2>2. ir' = [ir EXCEPT ![k] = Collected(r)]
    BY <1>6 DEF RemoveOther
  <2> HIDE DEF r
  <2> QED BY <2>1, <2>2, UserWriteIsCalm
<1>7. CASE ChangeConfig
  BY <1>7, UnwrittenIsCalm DEF ChangeConfig, StaleInv
<1> QED BY <1>2, <1>3, <1>4, <1>5, <1>6, <1>7 DEF Users

(* Every step keeps the invariant.                                         *)
LEMMA StaleStep ==
    ASSUME StaleInv, [Next]_vars
    PROVE  StaleInv'
<1> SUFFICES StoredInv' /\ CopyInv'
  BY TypeStep DEF StaleInv
<1>1. CASE Operation
  BY <1>1, EnsureFinalizersAreCalledStep, RemoveFinalizerStep, EnsureFinalizerIsAddedStep,
     EnsureRequestINotCompletedStep, EnsureConfigIsLoadedStep, EnsureRequestIsAllowedStep,
     EnsurePipelineRunIsCreatedStep, registerInternalRequestStatusStep,
     EnsureStatusIsTrackedStep, EndingStep
  DEF Operation
<1>2. CASE Tekton \/ UNCHANGED vars \/ (ReadFails /\ pc = "Idle")
  <2>1. ir' = ir /\ irCache' = irCache /\ UNCHANGED worker
    BY <1>2 DEF Tekton, FinishRun, DeleteRun, ReadFails, Reads, environment, caches, vars,
                clusters
  <2> QED BY <2>1, CacheStep
<1> QED BY <1>1, <1>2, ReconcileStep, EndingStep, WatchStep, RestartStep, UserStep DEF Next

LEMMA StaleInit ==
    ASSUME Init
    PROVE  StaleInv
<1>1. /\ TypeOK /\ pc = "Idle" /\ irCache = ir /\ mem = Absent(0)
      /\ \A k \in Requests : ir[k] = Absent(0)
  BY TypeInit DEF Init
<1>2. ~Absent(0).live /\ Absent(0).finalizers = {}
  BY DEF Absent, NewRequest
<1>3. StoredInv
  BY <1>1, <1>2, AbsentStamped DEF StoredInv, StampInv, AbsentInv, CacheInv
<1> QED BY <1>1, <1>3 DEF StaleInv, CopyInv, WorkerInv, OrderInv, Finalizing

-----------------------------------------------------------------------------
(* The inductive invariant holds, and what follows from it.                *)

(* However far the caches lag, a copy that carries the finalizer is of the *)
(* request that is stored, until the worker takes the finalizer away.      *)
THEOREM StaleCorrect == Spec => []StaleInv
<1>1. Init => StaleInv
  BY StaleInit
<1>2. StaleInv /\ [Next]_vars => StaleInv'
  BY StaleStep
<1> QED BY <1>1, <1>2, PTL DEF Spec

(* The metrics of a completed request never meet a missing start time,     *)
(* however stale the copy is that the worker completes.                    *)
THEOREM CompletionIsStamped == Spec => []CompletionHasStart
<1>1. StaleInv => CompletionHasStart
  BY DEF StaleInv, StoredInv, StampInv, Stamped, CopyInv, OrderInv, CompletionHasStart
<1> QED BY <1>1, StaleCorrect, PTL

(* A patch of the finalizers stores no status.                             *)
LEMMA FinalizerPatchKeepsStatus ==
    ASSUME TypeOK, pc # "Idle", NEW new \in InternalRequest, Status(new) = Status(mem),
           NEW op, PatchAndContinue(new, op) \/ PatchAndRequeue(new),
           NEW k \in Requests, ir'[k].live
    PROVE  Status(ir'[k]) = Status(ir[k])
<1>1. /\ cur \in Requests /\ ir[cur] \in InternalRequest /\ mem \in InternalRequest
  BY DEF TypeOK
<1>2. Status(Patched(new)) = Status(ir[cur])
  BY <1>1, MergePatchFields DEF Patched, Merged, Status
<1>3. Collected(Patched(new)).live => Collected(Patched(new)) = Patched(new)
  BY DEF Collected, Absent, NewRequest
<1> QED BY <1>2, <1>3, PatchWritesCur

LEMMA FinalizerWritesKeepStatus ==
    ASSUME TypeOK, RemoveFinalizer \/ EnsureFinalizerIsAdded,
           NEW k \in Requests, ir'[k].live
    PROVE  Status(ir'[k]) = Status(ir[k])
<1>1. pc # "Idle" /\ mem \in InternalRequest
  BY DEF TypeOK, RemoveFinalizer, EnsureFinalizerIsAdded, At
<1>2. CASE RemoveFinalizer
  <2> DEFINE new == [mem EXCEPT !.finalizers = @ \ {Ours}]
  <2>1. new \in InternalRequest /\ PatchAndRequeue(new)
    BY <1>1, <1>2 DEF InternalRequest, RemoveFinalizer
  <2>2. Status(new) = Status(mem)
    BY <1>1 DEF InternalRequest, Status
  <2> HIDE DEF new
  <2> QED BY <1>1, <2>1, <2>2, FinalizerPatchKeepsStatus
<1>3. CASE EnsureFinalizerIsAdded /\ Ours \in mem.finalizers
  BY <1>3 DEF EnsureFinalizerIsAdded, Status
<1>4. CASE EnsureFinalizerIsAdded /\ Ours \notin mem.finalizers
  <2> DEFINE new == [mem EXCEPT !.finalizers = @ \cup {Ours}]
  <2>1. new \in InternalRequest
    BY <1>1 DEF InternalRequest, Finalizers
  <2>2. PatchAndContinue(new, "EnsureRequestINotCompleted")
    BY <1>4 DEF EnsureFinalizerIsAdded
  <2>3. Status(new) = Status(mem)
    BY <1>1 DEF InternalRequest, Status
  <2> HIDE DEF new
  <2> QED BY <1>1, <2>1, <2>2, <2>3, FinalizerPatchKeepsStatus
<1> QED BY <1>2, <1>3, <1>4

(* The operations that store a status write to the request they read.      *)
LEMMA StatusWritesAreSecured ==
    ASSUME StaleInv, NEW k \in Requests, ir'[k] # ir[k],
           EnsureRequestIsAllowed \/ registerInternalRequestStatus \/ EnsureStatusIsTracked
    PROVE  k = cur /\ ir[k].uid = mem.uid
<1>1. /\ pc \in {"EnsureRequestIsAllowed", "registerInternalRequestStatus",
                 "EnsureStatusIsTracked"}
      /\ TypeOK /\ pc # "Idle"
  BY DEF EnsureRequestIsAllowed, registerInternalRequestStatus, EnsureStatusIsTracked, At,
         StaleInv
<1>2. \/ PatchAndStop(MarkRejected(mem))
      \/ PatchAndContinue(MarkRunning(mem), "EnsureStatusIsTracked")
      \/ \E p \in GetInternalRequestPipelineRun(cur) :
            PatchAndContinue(Tracked(mem, p, prCache[p]), "EnsurePipelineRunIsDeleted")
  BY DEF EnsureRequestIsAllowed, registerInternalRequestStatus, EnsureStatusIsTracked
<1>3. k = cur
  BY <1>1, <1>2, PatchWritesCur
<1> QED BY <1>1, <1>3, SecuredStage DEF Operations, Secured

(* A status is stored only over that of the request the worker read: the   *)
(* finalizer keeps the next request of the name away until the worker is   *)
(* done, even if its copy is old and others write to the request.          *)
THEOREM StatusReachesItsRequest == Spec => StatusIsOfItsRequest
<1>1. ASSUME StaleInv, [Next]_vars
      PROVE  [\A k \in Requests :
                ir'[k].live /\ Status(ir'[k]) # Status(ir[k]) /\ ~UNCHANGED worker
                => k = cur /\ ir[k].uid = mem.uid]_vars
  <2> SUFFICES ASSUME Next, NEW k \in Requests, ir'[k].live, ~UNCHANGED worker,
                      Status(ir'[k]) # Status(ir[k])
               PROVE  k = cur /\ ir[k].uid = mem.uid
    BY <1>1
  <2>1. ir'[k] # ir[k]
    BY DEF Status
  <2>2. ~RemoveFinalizer /\ ~EnsureFinalizerIsAdded
    BY <1>1, FinalizerWritesKeepStatus DEF StaleInv
  <2>3. \A j \in Requests : ~(\/ CreateRequest(j) \/ EditSpec(j) \/ DeleteRequest(j)
                              \/ AddOther(j) \/ RemoveOther(j))
    BY DEF CreateRequest, EditSpec, DeleteRequest, AddOther, RemoveOther, environment
  <2>4. EnsureRequestIsAllowed \/ registerInternalRequestStatus \/ EnsureStatusIsTracked
    BY <2>1, <2>2, <2>3, RequestWriters
  <2> QED BY <1>1, <2>1, <2>4, StatusWritesAreSecured
<1> QED BY <1>1, StaleCorrect, PTL DEF Spec, StatusIsOfItsRequest
=============================================================================
