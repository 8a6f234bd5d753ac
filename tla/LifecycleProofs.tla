--------------------------- MODULE LifecycleProofs ---------------------------
(***************************************************************************)
(* What the controller guarantees about the life of requests when its      *)
(* caches follow the clusters and nobody else deletes PipelineRuns: a      *)
(* running request always has something to wake it, the finalizer of       *)
(* another controller is not taken away with the controller's own, and     *)
(* every step is one of RequestLifecycle.                                  *)
(*                                                                         *)
(* The argument sorts the steps by what they write: a request appears,     *)
(* vanishes, or stays and keeps or changes its condition; a run begins, or *)
(* changes.  What each of these leaves true is then shown once.            *)
(***************************************************************************)
EXTENDS ExecutionProofs

NoneExecutes(k) == \A p \in Runs : Executing(pr[p]) => pr[p].owner # k

(* What a write can do to a request.                                       *)
Appears(k) ==
    /\ ~ir[k].live /\ ir'[k].live
    /\ ir'[k].uid = ir[k].uid + 1
    /\ ir'[k].cond = NoCondition
    /\ UNCHANGED worker

Vanishes(k) ==
    /\ ir[k].live /\ ~ir'[k].live
    /\ ir'[k].uid = ir[k].uid
    /\ ir'[k].cond = NoCondition
    /\ NoneExecutes(k)

Stays(k) ==
    /\ ir'[k].live <=> ir[k].live
    /\ ir'[k].uid = ir[k].uid
    /\ ir[k].deleting => /\ ir'[k].deleting
                         /\ ir'[k].finalizers \subseteq ir[k].finalizers

Marks(k) ==
    /\ k = cur /\ ir[k].live
    /\ ir[k].cond \in {NoCondition, Running}
    /\ \/ ir'[k].cond = Rejected
       \/ ir'[k].cond = Running /\ pc = "registerInternalRequestStatus"
       \/ /\ ir[k].cond = Running
          /\ ir'[k].cond = Running
       \/ /\ ir[k].cond = Running
          /\ ir'[k].cond \in {Succeeded, Failed}
          /\ NoneExecutes(k)

Written(k) ==
    /\ \A j \in Requests \ {k} : ir'[j] = ir[j]
    /\ \/ Appears(k)
       \/ Vanishes(k)
       \/ Stays(k) /\ (ir'[k].cond = ir[k].cond \/ Marks(k))

(* What a write can do to a run.                                           *)
Begins(p) ==
    /\ pc = "EnsurePipelineRunIsCreated"
    /\ pr[p] = Unused
    /\ pr'[p] = NewRun(cur, mem)
    /\ \A q \in Runs : Exists(pr[q]) => pr[q].owner # cur

Changes(p) ==
    /\ Exists(pr[p])
    /\ pr'[p].phase # "unused"
    /\ pr'[p].owner = pr[p].owner /\ pr'[p].forUid = pr[p].forUid
    /\ Executing(pr'[p]) => Executing(pr[p])
    /\ Exists(pr'[p]) \/ ir[pr[p].owner].cond \in Final

RunMoves(p) ==
    /\ \A q \in Runs \ {p} : pr'[q] = pr[q]
    /\ Begins(p) \/ Changes(p)

-----------------------------------------------------------------------------
(* Every write to a request is one of these.                               *)

(* What is left of a request.                                              *)
LEMMA AbsentFields ==
    ASSUME NEW uid
    PROVE  ~Absent(uid).live /\ Absent(uid).uid = uid /\ Absent(uid).cond = NoCondition
BY DEF Absent, NewRequest

(* An object that keeps its status and identity stays, or is collected.    *)
LEMMA CollectedWrite ==
    ASSUME TypeOK, NEW k \in Requests, NEW r, ir' = [ir EXCEPT ![k] = Collected(r)],
           ir[k].live, r.live, r.uid = ir[k].uid, r.cond = ir[k].cond,
           ir[k].deleting => r.deleting /\ r.finalizers \subseteq ir[k].finalizers,
           Ours \notin r.finalizers => NoneExecutes(k)
    PROVE  Written(k)
<1>1. ir'[k] = Collected(r) /\ \A j \in Requests \ {k} : ir'[j] = ir[j]
  BY DEF TypeOK
<1>2. CASE Collected(r) = r
  BY <1>1, <1>2 DEF Written, Stays
<1>3. CASE Collected(r) # r
  <2>1. Ours \notin r.finalizers /\ ir'[k] = Absent(ir[k].uid)
    BY <1>1, <1>3 DEF Collected
  <2>2. /\ ~ir'[k].live /\ ir'[k].uid = ir[k].uid /\ ir'[k].cond = NoCondition
    BY <2>1, AbsentFields
  <2> QED BY <1>1, <2>1, <2>2 DEF Written, Vanishes
<1> QED BY <1>2, <1>3

LEMMA UserWritten ==
    ASSUME ExecutionInv, NEW k \in Requests,
           \/ CreateRequest(k) \/ EditSpec(k) \/ DeleteRequest(k)
           \/ AddOther(k) \/ RemoveOther(k)
    PROVE  Written(k)
<1>1. TypeOK /\ ir[k] \in InternalRequest
  BY DEF ExecutionInv, TypeOK
<1>2. Ours \notin ir[k].finalizers => NoneExecutes(k)
  BY DEF ExecutionInv, DataInv, NoOrphanRun, NoneExecutes
<1>3. CASE CreateRequest(k)
  <2>1. PICK spec \in Specs, finalizers \in {{}, {Other}} :
          ir' = [ir EXCEPT ![k] = NewRequest(ir[k].uid + 1, spec, finalizers)]
    BY <1>3 DEF CreateRequest
  <2>2. /\ ir'[k].live /\ ir'[k].uid = ir[k].uid + 1 /\ ir'[k].cond = NoCondition
        /\ \A j \in Requests \ {k} : ir'[j] = ir[j]
    BY <1>1, <2>1 DEF TypeOK, NewRequest
  <2>3. ~ir[k].live /\ UNCHANGED worker
    BY <1>3 DEF CreateRequest, environment
  <2> QED BY <2>2, <2>3 DEF Written, Appears
<1>4. CASE EditSpec(k)
  <2>1. PICK spec \in Specs :
          ir' = [ir EXCEPT ![k].spec = spec, ![k].generation = ir[k].generation + 1]
    BY <1>4 DEF EditSpec
  <2> DEFINE r == [ir[k] EXCEPT !.spec = spec, !.generation = ir[k].generation + 1]
  <2>2. /\ r.live = ir[k].live /\ r.uid = ir[k].uid /\ r.deleting = ir[k].deleting
        /\ r.finalizers = ir[k].finalizers /\ r.cond = ir[k].cond
    BY <1>1 DEF InternalRequest
  <2>3. ir'[k] = r /\ \A j \in Requests \ {k} : ir'[j] = ir[j]
    BY <1>1, <2>1 DEF TypeOK
  <2> HIDE DEF r
  <2> QED BY <2>2, <2>3 DEF Written, Stays
<1>5. CASE DeleteRequest(k)
  <2> DEFINE r == [ir[k] EXCEPT !.deleting = TRUE]
  <2>1. /\ r.live = ir[k].live /\ r.uid = ir[k].uid /\ r.deleting
        /\ r.finalizers = ir[k].finalizers /\ r.cond = ir[k].cond
    BY <1>1 DEF InternalRequest
  <2>2. ir' = [ir EXCEPT ![k] = Collected(r)] /\ ir[k].live
    BY <1>5 DEF DeleteRequest
  <2> HIDE DEF r
  <2> QED BY <1>1, <1>2, <2>1, <2>2, CollectedWrite
<1>6. CASE AddOther(k)
  <2> DEFINE r == [ir[k] EXCEPT !.finalizers = ir[k].finalizers \cup {Other}]
  <2>1. r.live = ir[k].live /\ r.uid = ir[k].uid /\ r.cond = ir[k].cond
    BY <1>1 DEF InternalRequest
  <2>2. /\ ~ir[k].deleting
        /\ ir'[k] = r /\ \A j \in Requests \ {k} : ir'[j] = ir[j]
    BY <1>1, <1>6 DEF AddOther, TypeOK
  <2> HIDE DEF r
  <2> QED BY <2>1, <2>2 DEF Written, Stays
<1>7. CASE RemoveOther(k)
  <2> DEFINE r == [ir[k] EXCEPT !.finalizers = ir[k].finalizers \ {Other}]
  <2>1. /\ r.live = ir[k].live /\ r.uid = ir[k].uid /\ r.deleting = ir[k].deleting
        /\ r.finalizers = ir[k].finalizers \ {Other} /\ r.cond = ir[k].cond
    BY <1>1 DEF InternalRequest
  <2>2. ir' = [ir EXCEPT ![k] = Collected(r)] /\ ir[k].live
    BY <1>7 DEF RemoveOther
  <2> HIDE DEF r
  <2>3. Ours \notin r.finalizers => NoneExecutes(k)
    BY <1>2, <2>1 DEF Ours, Other
  <2> QED BY <1>1, <2>1, <2>2, <2>3, CollectedWrite
<1> QED BY <1>3, <1>4, <1>5, <1>6, <1>7

(* A patch that leaves the request as it is, or stores the copy.           *)
LEMMA PatchStores ==
    ASSUME NEW new, NEW op, ir' # ir,
           PatchAndContinue(new, op) \/ PatchAndStop(new) \/ PatchAndRequeue(new)
    PROVE  Accepts(ir[cur], Patched(new)) /\ Store(Patched(new))
BY DEF PatchAndContinue, PatchAndStop, PatchAndRequeue, PatchSucceeds, PatchFails

LEMMA FinalizersWritten ==
    ASSUME ExecutionInv, ir' # ir, RemoveFinalizer \/ EnsureFinalizerIsAdded
    PROVE  cur \in Requests /\ Written(cur)
<1>1. /\ TypeOK /\ pc # "Idle" /\ cur \in Requests
      /\ ir[cur] \in InternalRequest /\ mem \in InternalRequest
  BY DEF ExecutionInv, TypeOK, RemoveFinalizer, EnsureFinalizerIsAdded, At
<1>2. PICK new, op :
        /\ new \in InternalRequest
        /\ PatchAndContinue(new, op) \/ PatchAndRequeue(new)
        /\ new.cond = mem.cond
        /\ Ours \notin new.finalizers => NoneExecutes(cur)
        /\ new.finalizers # mem.finalizers
  <2>1. CASE RemoveFinalizer
    <3> DEFINE new == [mem EXCEPT !.finalizers = @ \ {Ours}]
    <3>1. new \in InternalRequest /\ new.cond = mem.cond
          /\ new.finalizers = mem.finalizers \ {Ours}
      BY <1>1 DEF InternalRequest
    <3>2. NoneExecutes(cur) /\ Ours \in mem.finalizers
      BY <2>1 DEF RemoveFinalizer, At, ExecutionInv, StageInv, NoneExecutes, Operations
    <3>3. PatchAndRequeue(new)
      BY <2>1 DEF RemoveFinalizer
    <3> HIDE DEF new
    <3> QED BY <3>1, <3>2, <3>3
  <2>2. CASE EnsureFinalizerIsAdded
    <3> DEFINE new == [mem EXCEPT !.finalizers = @ \cup {Ours}]
    <3>1. new \in InternalRequest /\ new.cond = mem.cond
          /\ new.finalizers = mem.finalizers \cup {Ours}
      BY <1>1 DEF InternalRequest, Finalizers
    <3>2. Ours \notin mem.finalizers /\ PatchAndContinue(new, "EnsureRequestINotCompleted")
      BY <2>2 DEF EnsureFinalizerIsAdded
    <3> HIDE DEF new
    <3> QED BY <3>1, <3>2
  <2> QED BY <2>1, <2>2
<1>3. Accepts(ir[cur], Patched(new)) /\ Store(Patched(new))
  BY <1>2, PatchStores
<1> DEFINE r == Patched(new)
<1>4. /\ r.live = ir[cur].live /\ r.uid = ir[cur].uid /\ r.deleting = ir[cur].deleting
      /\ r.cond = ir[cur].cond /\ r.finalizers = new.finalizers
  BY <1>1, <1>2, MergePatchFields DEF Patched, Merged
<1>5. /\ ir[cur].live /\ ir[cur].deleting => r.finalizers \subseteq ir[cur].finalizers
      /\ ir[cur].live
      /\ ir' = [ir EXCEPT ![cur] = Collected(r)]
  BY <1>3 DEF Accepts, Store
<1> HIDE DEF r
<1> QED BY <1>1, <1>2, <1>4, <1>5, CollectedWrite

(* A patch of the status stores it and keeps everything else.              *)
LEMMA StatusPatch ==
    ASSUME TypeOK, pc # "Idle", Held, NEW new \in InternalRequest,
           new.finalizers = mem.finalizers, Store(Patched(new))
    PROVE  /\ cur \in Requests /\ Stays(cur) /\ ir'[cur].cond = new.cond
           /\ ir'[cur].finalizers = ir[cur].finalizers
           /\ ir[cur].live /\ ir[cur].cond = mem.cond
           /\ \A j \in Requests \ {cur} : ir'[j] = ir[j]
<1>1. /\ cur \in Requests /\ ir[cur] \in InternalRequest /\ mem \in InternalRequest
  BY DEF TypeOK
<1>2. /\ Patched(new).live /\ Patched(new).uid = ir[cur].uid
      /\ Patched(new).finalizers = ir[cur].finalizers
      /\ Patched(new).cond = new.cond /\ Collected(Patched(new)) = Patched(new)
  BY HeldPatch
<1>3. Patched(new).deleting = ir[cur].deleting
  BY <1>1, MergePatchFields DEF Patched
<1>4. ir'[cur] = Patched(new) /\ \A j \in Requests \ {cur} : ir'[j] = ir[j]
  BY <1>1, <1>2 DEF Store, TypeOK
<1>5. ir[cur].live /\ ir[cur].cond = mem.cond
  BY DEF Held, Status
<1> QED BY <1>1, <1>2, <1>3, <1>4, <1>5 DEF Stays

LEMMA StatusWritten ==
    ASSUME Tidy, ExecutionInv, ir' # ir,
           EnsureRequestIsAllowed \/ registerInternalRequestStatus \/ EnsureStatusIsTracked
    PROVE  cur \in Requests /\ Written(cur) /\ ir'[cur].finalizers = ir[cur].finalizers
<1>1. /\ pc \in {"EnsureRequestIsAllowed", "registerInternalRequestStatus",
                 "EnsureStatusIsTracked"}
      /\ TypeOK /\ DataInv /\ Held /\ cur \in Requests /\ mem \in InternalRequest
      /\ mem.cond \in {NoCondition, Running}
  BY DEF EnsureRequestIsAllowed, registerInternalRequestStatus, EnsureStatusIsTracked, At,
         ExecutionInv, HeldInv, StageInv, TypeOK, Operations
<1>2. ~HasCompleted(mem)
  BY <1>1, CompletedConditions, ConditionsDiffer
<1>3. CASE EnsureRequestIsAllowed
  <2> DEFINE new == MarkRejected(mem)
  <2>1. new \in InternalRequest /\ new.finalizers = mem.finalizers /\ new.cond = Rejected
    BY <1>1, <1>2, MarkType DEF MarkRejected, InternalRequest
  <2>2. PatchAndStop(new)
    BY <1>3 DEF EnsureRequestIsAllowed
  <2> HIDE DEF new
  <2>3. Store(Patched(new))
    BY <2>2, PatchStores
  <2> QED BY <1>1, <2>1, <2>3, StatusPatch DEF Written, Marks
<1>4. CASE registerInternalRequestStatus
  <2> DEFINE new == MarkRunning(mem)
  <2>1. new \in InternalRequest /\ new.finalizers = mem.finalizers /\ new.cond = Running
    BY <1>1, <1>2, MarkType DEF MarkRunning, InternalRequest
  <2>2. PatchAndContinue(new, "EnsureStatusIsTracked")
        /\ pc = "registerInternalRequestStatus"
    BY <1>4 DEF registerInternalRequestStatus, At
  <2> HIDE DEF new
  <2>3. Store(Patched(new))
    BY <2>2, PatchStores
  <2> QED BY <1>1, <2>1, <2>2, <2>3, StatusPatch DEF Written, Marks
<1>5. CASE EnsureStatusIsTracked
  <2>1. prCache = pr /\ mem.cond = Running
    BY <1>5, FreshCaches DEF EnsureStatusIsTracked, At, ExecutionInv, StageInv
  <2>2. PICK p \in GetInternalRequestPipelineRun(cur) :
          p # NoRun /\ PatchAndContinue(Tracked(mem, p, prCache[p]),
                                        "EnsurePipelineRunIsDeleted")
    BY <1>5 DEF EnsureStatusIsTracked
  <2>3. p \in Runs /\ Exists(pr[p]) /\ pr[p].owner = cur
    BY <2>1, <2>2 DEF GetInternalRequestPipelineRun, CachedRuns
  <2> DEFINE new == Tracked(mem, p, pr[p])
  <2>4. IsTracked(new, mem, p, pr[p])
    BY <1>1, <2>1, <2>3, TrackedStatus
  <2>5. Store(Patched(new))
    BY <2>1, <2>2, PatchStores
  <2> HIDE DEF new
  <2>6. /\ new \in InternalRequest /\ new.finalizers = mem.finalizers
        /\ new.cond \in {Running, Succeeded, Failed}
        /\ new.cond # Running => pr[p].phase # "active"
    BY <2>4 DEF IsTracked
  <2>7. new.cond # Running => NoneExecutes(cur)
    BY <1>1, <2>3, <2>6 DEF DataInv, OneVisibleRun, NoneExecutes, Executing
  <2> QED BY <1>1, <2>1, <2>5, <2>6, <2>7, StatusPatch DEF Written, Marks
<1> QED BY <1>3, <1>4, <1>5

(* Whatever changes the requests changes one of them in one of those ways. *)
LEMMA RequestWritten ==
    ASSUME Tidy, ExecutionInv, Next, ir' # ir
    PROVE  \E k \in Requests : Written(k)
<1>1. CASE RemoveFinalizer \/ EnsureFinalizerIsAdded
  BY <1>1, FinalizersWritten
<1>2. CASE EnsureRequestIsAllowed \/ registerInternalRequestStatus \/ EnsureStatusIsTracked
  BY <1>2, StatusWritten
<1> QED BY <1>1, <1>2, RequestWriters, UserWritten

-----------------------------------------------------------------------------
(* Every write to a run is one of the two.                                 *)

LEMMA CancelMoves ==
    ASSUME TypeOK, NEW p \in Runs, Exists(pr[p]), Cancel(p)
    PROVE  RunMoves(p)
<1>1. pr[p] \in CreatedRun
  BY RunType
<1>2. /\ pr'[p].phase = pr[p].phase /\ pr'[p].gone = pr[p].gone /\ pr'[p].cancelled
      /\ pr'[p].owner = pr[p].owner /\ pr'[p].forUid = pr[p].forUid
      /\ \A q \in Runs \ {p} : pr'[q] = pr[q]
  BY <1>1 DEF Cancel, CreatedRun, TypeOK
<1> QED BY <1>2 DEF RunMoves, Changes, Exists, Executing

LEMMA DeleteMoves ==
    ASSUME TypeOK, NEW p \in Runs, Exists(pr[p]), Delete(p), ir[pr[p].owner].cond \in Final
    PROVE  RunMoves(p)
<1>1. pr[p] \in CreatedRun
  BY RunType
<1>2. /\ pr'[p].phase = pr[p].phase /\ pr'[p].gone
      /\ pr'[p].owner = pr[p].owner /\ pr'[p].forUid = pr[p].forUid
      /\ \A q \in Runs \ {p} : pr'[q] = pr[q]
  BY <1>1 DEF Delete, CreatedRun, TypeOK
<1> QED BY <1>2 DEF RunMoves, Changes, Exists, Executing

LEMMA FinishMoves ==
    ASSUME TypeOK, NEW p \in Runs, FinishRun(p)
    PROVE  RunMoves(p)
<1>1. PICK phase \in {"succeeded", "failed"} : pr' = [pr EXCEPT ![p].phase = phase]
  BY DEF FinishRun
<1>2. Exists(pr[p]) /\ pr[p] \in CreatedRun
  BY RunType DEF FinishRun
<1>3. /\ pr'[p].phase = phase /\ pr'[p].gone = pr[p].gone
      /\ pr'[p].owner = pr[p].owner /\ pr'[p].forUid = pr[p].forUid
      /\ \A q \in Runs \ {p} : pr'[q] = pr[q]
  BY <1>1, <1>2 DEF CreatedRun, TypeOK
<1> QED BY <1>2, <1>3 DEF RunMoves, Changes, Exists, Executing

(* Whatever changes the runs moves one of them, while the cache shows them *)
(* as they were, and leaves the requests and the cache alone.              *)
LEMMA RunWriters ==
    ASSUME Tidy, ExecutionInv, Next, pr' # pr
    PROVE  /\ ir' = ir /\ prCache = pr /\ prCache' = prCache
           /\ \E p \in Runs : RunMoves(p)
<1>1. TypeOK /\ DataInv
  BY DEF ExecutionInv
<1>2. CASE EnsureFinalizersAreCalled
  <2>1. ir' = ir /\ prCache = pr /\ prCache' = prCache
    BY <1>2, FreshCaches DEF EnsureFinalizersAreCalled, At, caches
  <2>2. PICK p \in RunToCancel : cancelPipelineRun(p)
    BY <1>2 DEF EnsureFinalizersAreCalled
  <2>3. p \in Runs \cup {NoRun}
    BY <1>1, LoadedRuns
  <2>4. p \in Runs /\ Exists(pr[p]) /\ Cancel(p)
    BY <2>2, <2>3 DEF cancelPipelineRun
  <2> QED BY <1>1, <2>1, <2>4, CancelMoves
<1>3. CASE EnsurePipelineRunIsCreated
  <2>1. /\ ir' = ir /\ prCache = pr /\ prCache' = prCache /\ cur \in Requests
        /\ pc = "EnsurePipelineRunIsCreated"
    BY <1>1, <1>3, FreshCaches DEF EnsurePipelineRunIsCreated, At, caches, TypeOK
  <2>2. NoRun \in GetInternalRequestPipelineRun(cur) /\ CreateRun
    BY <1>3 DEF EnsurePipelineRunIsCreated
  <2>3. \A q \in Runs : Exists(pr[q]) => pr[q].owner # cur
    BY <2>1, <2>2, RunsAssumption DEF GetInternalRequestPipelineRun, CachedRuns
  <2>4. PICK p \in Runs : pr[p] = Unused /\ pr' = [pr EXCEPT ![p] = NewRun(cur, mem)]
    BY <2>2 DEF CreateRun
  <2>5. pr'[p] = NewRun(cur, mem) /\ \A q \in Runs \ {p} : pr'[q] = pr[q]
    BY <1>1, <2>4 DEF TypeOK
  <2> QED BY <2>1, <2>3, <2>4, <2>5 DEF RunMoves, Begins
<1>4. CASE EnsurePipelineRunIsDeleted
  <2>1. /\ ir' = ir /\ prCache = pr /\ prCache' = prCache
        /\ pc = "EnsurePipelineRunIsDeleted" /\ mem \in InternalRequest
    BY <1>1, <1>4, FreshCaches DEF EnsurePipelineRunIsDeleted, At, caches, TypeOK
  <2>2. HasCompleted(mem) /\ \E p \in Runs : Exists(pr[p]) /\ pr[p].owner = cur /\ Delete(p)
    BY <1>4, <2>1 DEF EnsurePipelineRunIsDeleted, GetInternalRequestPipelineRun, CachedRuns
  <2>3. Held
    BY <2>1 DEF ExecutionInv, HeldInv, StageInv, Operations
  <2>4. ir[cur].cond \in Final
    BY <2>1, <2>2, <2>3, CompletedConditions DEF Held, Status, Final
  <2> QED BY <1>1, <2>1, <2>2, <2>4, DeleteMoves
<1>5. CASE \E p \in Runs : FinishRun(p)
  <2>1. ir' = ir /\ prCache = pr /\ prCache' = prCache
    BY <1>5, FreshCaches DEF FinishRun, environment, caches
  <2> QED BY <1>1, <1>5, <2>1, FinishMoves
<1>6. \/ EnsureFinalizersAreCalled \/ EnsurePipelineRunIsCreated
      \/ EnsurePipelineRunIsDeleted \/ \E p \in Runs : FinishRun(p)
  <2>1. ~\E k \in Requests : Reconcile(k)
    BY DEF Reconcile, clusters
  <2>2. Operation => \/ EnsureFinalizersAreCalled \/ EnsurePipelineRunIsCreated
                     \/ EnsurePipelineRunIsDeleted
    BY DEF Operation, RemoveFinalizer, EnsureFinalizerIsAdded, EnsureRequestINotCompleted,
           EnsureConfigIsLoaded, EnsureRequestIsAllowed, registerInternalRequestStatus,
           EnsureStatusIsTracked, clusters
  <2>3. ~ReadFails /\ ~Watch /\ ~Restart
    BY DEF ReadFails, Watch, DeliverInternalRequest, DeliverPipelineRun,
           RelistInternalRequests, RelistPipelineRuns, Restart, clusters
  <2>4. ~Users
    BY DEF Users, CreateRequest, EditSpec, DeleteRequest, AddOther, RemoveOther, ChangeConfig
  <2>5. Tekton => \E p \in Runs : FinishRun(p)
    BY DEF Tekton, DeleteRun, Tidy
  <2> QED BY <2>1, <2>2, <2>3, <2>4, <2>5 DEF Next
<1> QED BY <1>2, <1>3, <1>4, <1>5, <1>6

-----------------------------------------------------------------------------
(* What keeps a running request going: a run of its name, whose end is     *)
(* still to be seen unless the request is queued.                          *)

VisibleRun(k) == \E p \in Runs : Exists(pr[p]) /\ pr[p].owner = k

Awaited(k) ==
    \/ k \in queue
    \/ \E p \in Runs : Exists(pr[p]) /\ pr[p].owner = k /\ ~IsDone(prCache[p])

RunningInv == \A k \in Requests : ir[k].cond = Running => VisibleRun(k)

(* The watch has shown a run before it shows the run's end.                *)
SeenInv == \A p \in Runs : Exists(pr[p]) /\ IsDone(pr[p]) => Exists(prCache[p])

(* What the worker has found out about runs and finalizers.                *)
FoundInv ==
    /\ pc = "registerInternalRequestStatus" => VisibleRun(cur)
    /\ pc = "EnsurePipelineRunIsDeleted" /\ mem.cond = Running => Awaited(cur)

Removing ==
    \/ pc = "RemoveFinalizer"
    \/ pc = "EnsureFinalizersAreCalled" /\ mem.deleting /\ Ours \in mem.finalizers

RemovingInv ==
    Removing => ir[cur].deleting /\ ir[cur].finalizers \subseteq mem.finalizers

ProgressInv ==
    ExecutionInv /\ RunningInv /\ SeenInv /\ FoundInv /\ RemovingInv /\ WakeupIsPending

(* A run of a request that has not completed stays.                        *)
LEMMA RunsStay ==
    ASSUME Tidy, ExecutionInv, [Next]_vars, NEW p \in Runs, Exists(pr[p]),
           ir[pr[p].owner].cond \notin Final
    PROVE  Exists(pr'[p]) /\ pr'[p].owner = pr[p].owner
<1>1. CASE pr' = pr
  BY <1>1
<1>2. CASE pr' # pr
  <2>1. PICK q \in Runs : RunMoves(q)
    BY <1>2, RunWriters DEF vars, clusters
  <2>2. ~Exists(Unused)
    BY DEF Exists, Unused
  <2> QED BY <2>1, <2>2 DEF RunMoves, Begins, Changes
<1> QED BY <1>1, <1>2

LEMMA VisibleStays ==
    ASSUME Tidy, ExecutionInv, [Next]_vars, NEW k, VisibleRun(k), ir[k].cond \notin Final
    PROVE  \E p \in Runs : Exists(pr'[p]) /\ pr'[p].owner = k
BY RunsStay DEF VisibleRun

LEMMA RunningStep ==
    ASSUME Tidy, ExecutionInv, RunningInv, FoundInv, [Next]_vars
    PROVE  RunningInv'
<1> SUFFICES ASSUME NEW k \in Requests, ir'[k].cond = Running
             PROVE  \E p \in Runs : Exists(pr'[p]) /\ pr'[p].owner = k
  BY DEF RunningInv, VisibleRun
<1>1. CASE ir[k].cond = Running
  BY <1>1, VisibleStays, ConditionsDiffer DEF RunningInv, Final
<1>2. CASE ir[k].cond # Running
  <2>1. PICK j \in Requests : Written(j)
    BY <1>2, RequestWritten DEF vars, clusters
  <2>2. /\ k = cur /\ pc = "registerInternalRequestStatus"
        /\ ir[k].cond \in {NoCondition, Running}
    BY <1>2, <2>1, ConditionsDiffer DEF Written, Appears, Vanishes, Marks
  <2> QED BY <2>2, VisibleStays, ConditionsDiffer DEF FoundInv, Final
<1> QED BY <1>1, <1>2

(* What the watch of the runs does to their cache and to the queue.        *)
LEMMA CacheWriters ==
    ASSUME TypeOK, [Next]_vars, prCache' # prCache
    PROVE  /\ pr' = pr /\ ir' = ir
           /\ \/ UNCHANGED worker /\ \E p \in Runs : DeliverPipelineRun(p)
              \/ UNCHANGED worker /\ RelistPipelineRuns
              \/ Restart
<1>1. \/ \E p \in Runs : DeliverPipelineRun(p)
      \/ RelistPipelineRuns
      \/ Restart
  <2>1. ~\E k \in Requests : Reconcile(k)
    BY DEF Reconcile, caches
  <2>2. ~Operation
    BY DEF Operation, EnsureFinalizersAreCalled, RemoveFinalizer, EnsureFinalizerIsAdded,
           EnsureRequestINotCompleted, EnsureConfigIsLoaded, EnsureRequestIsAllowed,
           EnsurePipelineRunIsCreated, registerInternalRequestStatus,
           EnsureStatusIsTracked, EnsurePipelineRunIsDeleted, caches
  <2>3. ~ReadFails /\ ~UNCHANGED vars
    BY DEF ReadFails, vars, caches
  <2>4. ~Users /\ ~Tekton
    BY DEF Users, CreateRequest, EditSpec, DeleteRequest, AddOther, RemoveOther,
           ChangeConfig, Tekton, FinishRun, DeleteRun, environment, caches
  <2> QED BY <2>1, <2>2, <2>3, <2>4
       DEF Next, Watch, DeliverInternalRequest, RelistInternalRequests
<1> QED BY <1>1 DEF DeliverPipelineRun, RelistPipelineRuns, Restart, clusters

LEMMA SeenStep ==
    ASSUME Tidy, ExecutionInv, SeenInv, [Next]_vars
    PROVE  SeenInv'
<1> SUFFICES ASSUME NEW p \in Runs, Exists(pr'[p]), IsDone(pr'[p])
             PROVE  Exists(prCache'[p])
  BY DEF SeenInv
<1>1. CASE pr' # pr
  <2>1. /\ prCache = pr /\ prCache' = prCache
        /\ \E q \in Runs : RunMoves(q)
    BY <1>1, RunWriters DEF vars, clusters
  <2>2. PICK q \in Runs : RunMoves(q)
    BY <2>1
  <2>3. ~IsDone(NewRun(cur, mem))
    BY DEF IsDone, NewRun, Unused
  <2> QED BY <2>1, <2>2, <2>3 DEF RunMoves, Begins, Changes
<1>2. CASE pr' = pr /\ prCache' = prCache
  BY <1>2 DEF SeenInv
<1>3. CASE pr' = pr /\ prCache' # prCache
  <2>1. TypeOK
    BY DEF ExecutionInv
  <2>2. \/ \E q \in Runs : prCache' = [prCache EXCEPT ![q] = pr[q]]
        \/ prCache' = pr
    BY <1>3, <2>1, CacheWriters DEF DeliverPipelineRun, RelistPipelineRuns, Restart
  <2>3. prCache'[p] = pr[p] \/ prCache'[p] = prCache[p]
    BY <2>1, <2>2 DEF TypeOK
  <2> QED BY <1>3, <2>3 DEF SeenInv
<1> QED BY <1>1, <1>2, <1>3

(* Keys leave the queue to be reconciled, and with a restart.              *)
LEMMA QueueKeeps ==
    ASSUME [Next]_vars, ~Restart, ~\E k \in Requests : Reconcile(k)
    PROVE  queue \subseteq queue'
<1>1. CASE Operation \/ ReadFails
  <2>1. \A new, op : PatchAndContinue(new, op) \/ PatchAndStop(new) \/ PatchAndRequeue(new)
                     => queue \subseteq queue'
    BY DEF PatchAndContinue, PatchAndStop, PatchAndRequeue, PatchFails, StopProcessing,
           Requeue, Continue
  <2> QED BY <1>1, <2>1
       DEF Operation, ReadFails, EnsureFinalizersAreCalled, cancelPipelineRun,
           RemoveFinalizer, EnsureFinalizerIsAdded,
           EnsureRequestINotCompleted, EnsureConfigIsLoaded, EnsureRequestIsAllowed,
           EnsurePipelineRunIsCreated, registerInternalRequestStatus,
           EnsureStatusIsTracked, EnsurePipelineRunIsDeleted, StopProcessing, Requeue,
           Continue
<1>2. CASE Watch
  BY <1>2 DEF Watch, DeliverInternalRequest, DeliverPipelineRun, RelistInternalRequests,
              RelistPipelineRuns
<1>3. CASE Users \/ Tekton \/ UNCHANGED vars
  BY <1>3 DEF Users, CreateRequest, EditSpec, DeleteRequest, AddOther, RemoveOther,
              ChangeConfig, Tekton, FinishRun, DeleteRun, environment, vars
<1> QED BY <1>1, <1>2, <1>3 DEF Next

(* What a request that has not completed waits for does not get lost.      *)
LEMMA AwaitedStays ==
    ASSUME Tidy, ExecutionInv, SeenInv, [Next]_vars, ~Restart,
           NEW k \in Requests, ir[k].cond \notin Final, Awaited(k),
           k \in queue => k \in queue'
    PROVE  \/ k \in queue'
           \/ \E p \in Runs : Exists(pr'[p]) /\ pr'[p].owner = k /\ ~IsDone(prCache'[p])
<1> SUFFICES ASSUME NEW p \in Runs, Exists(pr[p]), pr[p].owner = k, ~IsDone(prCache[p])
             PROVE  k \in queue' \/ ~IsDone(prCache'[p])
  BY RunsStay DEF Awaited
<1>1. TypeOK
  BY DEF ExecutionInv
<1>2. CASE prCache' = prCache
  BY <1>2
<1>3. ASSUME NEW q \in Runs, DeliverPipelineRun(q) PROVE k \in queue' \/ ~IsDone(prCache'[p])
  <2>1. prCache'[p] = IF q = p THEN pr[p] ELSE prCache[p]
    BY <1>1, <1>3 DEF DeliverPipelineRun, TypeOK
  <2>2. q = p /\ IsDone(pr[p]) => k \in queue'
    BY <1>3 DEF DeliverPipelineRun, hasPipelineSucceeded
  <2> QED BY <2>1, <2>2
<1>4. CASE RelistPipelineRuns
  <2>1. IsDone(pr[p]) => k \in queue'
    BY <1>4 DEF RelistPipelineRuns, hasPipelineSucceeded, SeenInv
  <2> QED BY <1>4, <2>1 DEF RelistPipelineRuns
<1> QED BY <1>1, <1>2, <1>3, <1>4, CacheWriters

(* Which operation leads to which.                                         *)
LEMMA WorkerMoves ==
    ASSUME [Next]_vars, ~UNCHANGED worker
    PROVE  /\ pc' = "EnsureFinalizersAreCalled" => \E k \in Requests : Reconcile(k)
           /\ pc' = "RemoveFinalizer" => EnsureFinalizersAreCalled
           /\ pc' = "registerInternalRequestStatus" => EnsurePipelineRunIsCreated
           /\ pc' = "EnsurePipelineRunIsDeleted" => EnsureStatusIsTracked
<1>1. \A new, op : PatchAndContinue(new, op) => pc' \in {"Idle", op}
  BY DEF PatchAndContinue, PatchFails, Requeue, Finish, Continue
<1>2. \A new : PatchAndStop(new) \/ PatchAndRequeue(new) => pc' = "Idle"
  BY DEF PatchAndStop, PatchAndRequeue, PatchFails, StopProcessing, Requeue, Finish
<1>3. StopProcessing \/ Requeue => pc' = "Idle"
  BY DEF StopProcessing, Requeue, Finish
<1>4. /\ EnsureFinalizersAreCalled =>
           pc' \in {"Idle", "EnsureFinalizerIsAdded", "RemoveFinalizer"}
      /\ RemoveFinalizer => pc' = "Idle"
      /\ EnsureFinalizerIsAdded => pc' \in {"Idle", "EnsureRequestINotCompleted"}
      /\ EnsureRequestINotCompleted => pc' \in {"Idle", "EnsureConfigIsLoaded"}
      /\ EnsureConfigIsLoaded => pc' = "EnsureRequestIsAllowed"
      /\ EnsureRequestIsAllowed => pc' \in {"Idle", "EnsurePipelineRunIsCreated"}
  BY <1>1, <1>2, <1>3
  DEF EnsureFinalizersAreCalled, cancelPipelineRun, RemoveFinalizer, EnsureFinalizerIsAdded,
      EnsureRequestINotCompleted, EnsureConfigIsLoaded, EnsureRequestIsAllowed, Continue
<1>5. /\ EnsurePipelineRunIsCreated =>
           pc' \in {"Idle", "registerInternalRequestStatus", "EnsureStatusIsTracked"}
      /\ registerInternalRequestStatus => pc' \in {"Idle", "EnsureStatusIsTracked"}
      /\ EnsureStatusIsTracked => pc' \in {"Idle", "EnsurePipelineRunIsDeleted"}
      /\ EnsurePipelineRunIsDeleted => pc' = "Idle"
  BY <1>1, <1>3
  DEF EnsurePipelineRunIsCreated, registerInternalRequestStatus, EnsureStatusIsTracked,
      EnsurePipelineRunIsDeleted, Continue
<1>6. ReadFails \/ Restart => pc' = "Idle"
  BY <1>3 DEF ReadFails, Restart, Finish, worker
<1>7. ~Watch /\ ~Users /\ ~Tekton /\ ~UNCHANGED vars
  BY DEF Watch, DeliverInternalRequest, DeliverPipelineRun, RelistInternalRequests,
         RelistPipelineRuns, Users, CreateRequest, EditSpec, DeleteRequest, AddOther,
         RemoveOther, ChangeConfig, Tekton, FinishRun, DeleteRun, environment, vars
<1>8. (\E k \in Requests : Reconcile(k)) => pc' = "EnsureFinalizersAreCalled"
  BY DEF Reconcile
<1> QED BY <1>4, <1>5, <1>6, <1>7, <1>8 DEF Next, Operation

(* A worker on a request takes no other up, and ends only with a restart.  *)
LEMMA BusyWorker ==
    ASSUME pc # "Idle"
    PROVE  ~\E k \in Requests : Reconcile(k)
BY DEF Reconcile, At

LEMMA FoundStep ==
    ASSUME Tidy, ExecutionInv, RunningInv, SeenInv, FoundInv, [Next]_vars
    PROVE  FoundInv'
<1>1. TypeOK
  BY DEF ExecutionInv
<1>2. ASSUME pc' = "registerInternalRequestStatus" PROVE VisibleRun(cur)'
  <2>1. CASE UNCHANGED worker
    <3>1. VisibleRun(cur) /\ pc = "registerInternalRequestStatus" /\ cur' = cur
      BY <1>2, <2>1 DEF FoundInv, worker
    <3> QED BY <3>1, OpenWhileHeld, VisibleStays DEF VisibleRun
  <2>2. CASE EnsurePipelineRunIsCreated
    <3>1. cur' = cur /\ prCache = pr
      BY <1>2, <2>2, FreshCaches
      DEF EnsurePipelineRunIsCreated, At, Continue, Requeue, Finish
    <3>2. \/ \E p \in GetInternalRequestPipelineRun(cur) : p # NoRun /\ UNCHANGED pr
          \/ CreateRun
      BY <1>2, <2>2 DEF EnsurePipelineRunIsCreated, Requeue, Finish
    <3>3. CASE \E p \in GetInternalRequestPipelineRun(cur) : p # NoRun /\ UNCHANGED pr
      BY <3>1, <3>3 DEF GetInternalRequestPipelineRun, CachedRuns, VisibleRun
    <3>4. CASE CreateRun
      <4>1. PICK p \in Runs : pr' = [pr EXCEPT ![p] = NewRun(cur, mem)]
        BY <3>4 DEF CreateRun
      <4>2. pr'[p] = NewRun(cur, mem)
        BY <1>1, <4>1 DEF TypeOK
      <4>3. Exists(NewRun(cur, mem)) /\ NewRun(cur, mem).owner = cur
        BY DEF Exists, NewRun, Unused
      <4> QED BY <3>1, <4>2, <4>3 DEF VisibleRun
    <3> QED BY <3>2, <3>3, <3>4
  <2> QED BY <1>2, <2>1, <2>2, WorkerMoves
<1>3. ASSUME pc' = "EnsurePipelineRunIsDeleted", mem'.cond = Running PROVE Awaited(cur)'
  <2>1. CASE UNCHANGED worker
    <3>1. /\ pc = "EnsurePipelineRunIsDeleted" /\ mem.cond = Running /\ cur' = cur
          /\ Awaited(cur) /\ cur \in Requests /\ Held
      BY <1>1, <1>3, <2>1
      DEF FoundInv, worker, TypeOK, ExecutionInv, HeldInv, StageInv, Operations
    <3>2. ir[cur].cond \notin Final
      BY <3>1, ConditionsDiffer DEF Held, Status, Final
    <3>3. ~Restart /\ queue \subseteq queue'
      BY <1>3, <3>1, BusyWorker, QueueKeeps DEF Restart, Finish
    <3> QED BY <3>1, <3>2, <3>3, AwaitedStays DEF Awaited
  <2>2. CASE EnsureStatusIsTracked
    <3>1. /\ pc = "EnsureStatusIsTracked" /\ pr' = pr /\ prCache = pr /\ prCache' = prCache
          /\ cur \in Requests /\ mem \in InternalRequest /\ mem.cond = Running /\ Held
      BY <1>1, <2>2, FreshCaches
      DEF EnsureStatusIsTracked, At, caches, TypeOK, ExecutionInv, HeldInv, StageInv,
          Operations
    <3>2. VisibleRun(cur)
      BY <3>1 DEF RunningInv, Held, Status
    <3>3. PICK p \in GetInternalRequestPipelineRun(cur) :
            IF p = NoRun
            THEN Continue("EnsurePipelineRunIsDeleted") /\ UNCHANGED mem
            ELSE PatchAndContinue(Tracked(mem, p, prCache[p]), "EnsurePipelineRunIsDeleted")
      BY <2>2 DEF EnsureStatusIsTracked
    <3>4. p \in Runs /\ Exists(pr[p]) /\ pr[p].owner = cur /\ p # NoRun
      BY <3>1, <3>2, RunsAssumption
      DEF VisibleRun, GetInternalRequestPipelineRun, CachedRuns
    <3> DEFINE new == Tracked(mem, p, pr[p])
    <3>5. IsTracked(new, mem, p, pr[p])
      BY <3>1, <3>4, TrackedStatus
    <3>6. PatchAndContinue(new, "EnsurePipelineRunIsDeleted")
      BY <3>1, <3>3, <3>4
    <3> HIDE DEF new
    <3>7. mem' = Patched(new) /\ cur' = cur
      BY <1>3, <3>6 DEF PatchAndContinue, PatchFails, Requeue, Finish, Continue
    <3>8. new.cond = Running
      BY <1>1, <1>3, <3>1, <3>5, <3>7, HeldPatch DEF IsTracked
    <3>9. ~IsDone(pr[p])
      BY <3>5, <3>8, ConditionsDiffer DEF IsTracked
    <3> QED BY <3>1, <3>4, <3>7, <3>9 DEF Awaited
  <2> QED BY <1>3, <2>1, <2>2, WorkerMoves
<1> QED BY <1>2, <1>3 DEF FoundInv

LEMMA RemovingStep ==
    ASSUME Tidy, ExecutionInv, RemovingInv, [Next]_vars
    PROVE  RemovingInv'
<1> SUFFICES ASSUME Removing'
             PROVE  ir'[cur'].deleting /\ ir'[cur'].finalizers \subseteq mem'.finalizers
  BY DEF RemovingInv
<1>1. TypeOK /\ ExecutionInv'
  BY ExecutionStep DEF ExecutionInv
<1>2. CASE UNCHANGED worker
  <2>1. Removing /\ cur' = cur /\ mem' = mem /\ pc' = pc
    BY <1>2 DEF worker, Removing
  <2>2. cur \in Requests /\ ir[cur].live /\ ir'[cur].live
    BY <1>1, <2>1 DEF Removing, ExecutionInv, StageInv, HeldInv, Held, TypeOK, Operations
  <2>3. ir'[cur] = ir[cur] \/ Stays(cur)
    <3>1. CASE ir' # ir
      <4>1. PICK k \in Requests : Written(k)
        BY <3>1, RequestWritten DEF vars, clusters
      <4> QED BY <2>2, <4>1 DEF Written, Appears, Vanishes
    <3> QED BY <3>1
  <2> QED BY <2>1, <2>3 DEF RemovingInv, Stays
<1>3. CASE \E k \in Requests : Reconcile(k)
  <2>1. PICK k \in Requests : Reconcile(k)
    BY <1>3
  <2>2. ir' = ir /\ irCache = ir
    BY <2>1, FreshCaches DEF Reconcile, At, clusters
  <2>3. CASE irCache[k].live
    <3>1. pc' = "EnsureFinalizersAreCalled" /\ cur' = k /\ mem' = ir[k]
      BY <2>1, <2>2, <2>3 DEF Reconcile
    <3> QED BY <2>2, <3>1 DEF Removing
  <2>4. CASE ~irCache[k].live
    BY <1>2, <2>1, <2>4 DEF Reconcile
  <2> QED BY <2>3, <2>4
<1>4. CASE EnsureFinalizersAreCalled /\ pc' = "RemoveFinalizer"
  <2>1. Removing /\ cur' = cur /\ mem' = mem /\ ir' = ir
    BY <1>4 DEF EnsureFinalizersAreCalled, At, cancelPipelineRun, Continue, Requeue, Finish,
                Removing
  <2> QED BY <2>1 DEF RemovingInv
<1> QED BY <1>2, <1>3, <1>4, WorkerMoves DEF Removing

(* The worker leaves its request with the key queued, or by one of three   *)
(* ways out.                                                               *)
LEMMA WorkerLeaves ==
    ASSUME [Next]_vars, pc # "Idle", ~Restart
    PROVE  \/ cur' = cur
           \/ cur \in queue'
           \/ EnsureRequestINotCompleted /\ HasCompleted(mem)
           \/ EnsureRequestIsAllowed /\ PatchSucceeds(MarkRejected(mem))
           \/ EnsurePipelineRunIsDeleted
<1>1. \A op : Continue(op) => cur' = cur
  BY DEF Continue
<1>2. Requeue => cur \in queue'
  BY DEF Requeue
<1>3. \A new, op : PatchAndContinue(new, op) \/ PatchAndRequeue(new)
                   => cur' = cur \/ cur \in queue'
  BY <1>1, <1>2 DEF PatchAndContinue, PatchAndRequeue, PatchFails
<1>4. \A new : PatchAndStop(new) => PatchSucceeds(new) \/ cur \in queue'
  BY <1>2 DEF PatchAndStop, PatchFails
<1>5. CASE Operation \/ ReadFails
  <2>1. CASE EnsureFinalizersAreCalled
    BY <1>1, <1>2, <2>1 DEF EnsureFinalizersAreCalled, cancelPipelineRun
  <2>2. CASE RemoveFinalizer \/ EnsureFinalizerIsAdded \/ registerInternalRequestStatus
    BY <1>1, <1>3, <2>2
    DEF RemoveFinalizer, EnsureFinalizerIsAdded, registerInternalRequestStatus
  <2>3. CASE EnsureRequestINotCompleted \/ EnsureConfigIsLoaded
    BY <1>1, <2>3 DEF EnsureRequestINotCompleted, EnsureConfigIsLoaded
  <2>4. CASE EnsureRequestIsAllowed
    BY <1>1, <1>4, <2>4 DEF EnsureRequestIsAllowed
  <2>5. CASE EnsurePipelineRunIsCreated
    BY <1>1, <1>2, <2>5 DEF EnsurePipelineRunIsCreated
  <2>6. CASE EnsureStatusIsTracked
    BY <1>1, <1>3, <2>6 DEF EnsureStatusIsTracked
  <2>7. CASE ReadFails
    BY <1>2, <2>7 DEF ReadFails
  <2> QED BY <1>5, <2>1, <2>2, <2>3, <2>4, <2>5, <2>6, <2>7 DEF Operation
<1>6. CASE Watch \/ Users \/ Tekton \/ UNCHANGED vars
  BY <1>6
  DEF Watch, DeliverInternalRequest, DeliverPipelineRun, RelistInternalRequests,
      RelistPipelineRuns, Users, CreateRequest, EditSpec, DeleteRequest, AddOther,
      RemoveOther, ChangeConfig, Tekton, FinishRun, DeleteRun, environment, worker, vars
<1> QED BY <1>5, <1>6, BusyWorker DEF Next

(* A running request on which the worker is stays awaited when the worker  *)
(* is done with it.                                                        *)
LEMMA LeftAwaited ==
    ASSUME Tidy, ExecutionInv, SeenInv, FoundInv, [Next]_vars, ~Restart,
           cur \in Requests, ir[cur].cond = Running, ir'[cur].cond = Running
    PROVE  \/ cur' = cur
           \/ cur \in queue'
           \/ \E p \in Runs : Exists(pr'[p]) /\ pr'[p].owner = cur /\ ~IsDone(prCache'[p])
<1>1. TypeOK /\ pc # "Idle" /\ mem \in InternalRequest
  BY RequestsAssumption DEF ExecutionInv, TypeOK
<1>2. Ours \in mem.finalizers => mem.cond = Running
  BY <1>1 DEF ExecutionInv, HeldInv, Held, Status
<1>3. ~(EnsureRequestINotCompleted /\ HasCompleted(mem))
  BY <1>1, <1>2, CompletedConditions, ConditionsDiffer
  DEF EnsureRequestINotCompleted, At, ExecutionInv, StageInv, Operations
<1>4. ~(EnsureRequestIsAllowed /\ PatchSucceeds(MarkRejected(mem)))
  <2> SUFFICES ASSUME EnsureRequestIsAllowed, PatchSucceeds(MarkRejected(mem)) PROVE FALSE
    OBVIOUS
  <2> DEFINE new == MarkRejected(mem)
  <2>1. Held /\ mem.cond = Running
    BY <1>1, <1>2 DEF EnsureRequestIsAllowed, At, ExecutionInv, HeldInv, StageInv, Operations
  <2>2. new \in InternalRequest /\ new.finalizers = mem.finalizers /\ new.cond = Rejected
    BY <1>1, <2>1, CompletedConditions, ConditionsDiffer, MarkType
    DEF MarkRejected, InternalRequest
  <2>3. Store(Patched(new))
    BY DEF PatchSucceeds
  <2> HIDE DEF new
  <2> QED BY <1>1, <2>1, <2>2, <2>3, StatusPatch, ConditionsDiffer
<1>5. CASE EnsurePipelineRunIsDeleted
  <2>1. pc = "EnsurePipelineRunIsDeleted" /\ mem.cond = Running
    BY <1>2, <1>5 DEF EnsurePipelineRunIsDeleted, At, ExecutionInv, StageInv, Operations
  <2>2. queue \subseteq queue'
    BY <1>1, BusyWorker, QueueKeeps
  <2> QED BY <2>1, <2>2, AwaitedStays, ConditionsDiffer DEF FoundInv, Final
<1> QED BY <1>1, <1>3, <1>4, <1>5, WorkerLeaves

LEMMA WakeupStep ==
    ASSUME Tidy, ExecutionInv, SeenInv, FoundInv, WakeupIsPending, [Next]_vars
    PROVE  WakeupIsPending'
<1> SUFFICES ASSUME NEW k \in Requests,
                    ir'[k].live, ~ir'[k].deleting, ir'[k].cond = Running
             PROVE  \/ k \in queue'
                    \/ cur' = k
                    \/ \E p \in Runs : /\ Exists(pr'[p]) /\ pr'[p].owner = k
                                       /\ ~IsDone(prCache'[p])
  BY DEF WakeupIsPending
<1>1. TypeOK
  BY DEF ExecutionInv
<1>2. CASE Restart
  BY <1>2 DEF Restart, clusters
<1>3. ASSUME NEW j \in Requests, Reconcile(j), cur' # k PROVE k \in queue' \/ Awaited(k)'
  <2>1. /\ ir' = ir /\ irCache = ir /\ pr' = pr /\ prCache' = prCache
        /\ queue' = queue \ {j} /\ cur = NoRequest
    BY <1>1, <1>3, FreshCaches DEF Reconcile, At, clusters, caches, TypeOK
  <2>2. j # k
    BY <1>3, <2>1 DEF Reconcile
  <2>3. Awaited(k)
    BY <2>1, RequestsAssumption DEF WakeupIsPending, Awaited
  <2> QED BY <2>1, <2>2, <2>3 DEF Awaited
<1>4. ASSUME ~Restart, ~\E j \in Requests : Reconcile(j),
             ir[k].live, ~ir[k].deleting, ir[k].cond = Running
      PROVE  cur' = k \/ Awaited(k)'
  <2>1. CASE cur = k
    BY <1>4, <2>1, LeftAwaited DEF Awaited
  <2>2. CASE cur # k
    <3>1. Awaited(k)
      BY <1>4, <2>2 DEF WakeupIsPending, Awaited
    <3> QED BY <1>4, <3>1, QueueKeeps, AwaitedStays, ConditionsDiffer DEF Awaited, Final
  <2> QED BY <2>1, <2>2
<1>5. ASSUME ~Restart, ~\E j \in Requests : Reconcile(j),
             ~(ir[k].live /\ ~ir[k].deleting /\ ir[k].cond = Running)
      PROVE  cur' = k \/ k \in queue'
  <2>1. PICK j \in Requests : Written(j)
    BY <1>5, RequestWritten DEF vars, clusters
  <2>2. j = k
    BY <1>5, <2>1 DEF Written
  <2>3. k = cur /\ pc = "registerInternalRequestStatus"
    BY <1>5, <2>1, <2>2, ConditionsDiffer DEF Written, Appears, Vanishes, Stays, Marks
  <2> QED BY <1>5, <2>3, WorkerLeaves
       DEF EnsureRequestINotCompleted, EnsureRequestIsAllowed, EnsurePipelineRunIsDeleted, At
<1> QED BY <1>2, <1>3, <1>4, <1>5 DEF Awaited

LEMMA ProgressStep ==
    ASSUME Tidy, ProgressInv, [Next]_vars
    PROVE  ProgressInv'
BY ExecutionStep, RunningStep, SeenStep, FoundStep, RemovingStep, WakeupStep DEF ProgressInv

LEMMA ProgressInit ==
    ASSUME Init
    PROVE  ProgressInv
<1>1. /\ \A k \in Requests : ir[k].cond = NoCondition
      /\ \A p \in Runs : ~Exists(pr[p])
  BY DEF Init, Absent, NewRequest, Unused, Exists
<1>2. RunningInv /\ SeenInv /\ WakeupIsPending
  BY <1>1, ConditionsDiffer DEF RunningInv, SeenInv, WakeupIsPending
<1> QED BY <1>2, ExecutionInit DEF Init, ProgressInv, FoundInv, RemovingInv, Removing

(* A running request has a run, the watch has shown a run by the time it   *)
(* is done, and the copy of a request that is being finalized knows all    *)
(* its finalizers.                                                         *)
THEOREM ProgressCorrect ==
    ASSUME Tidy
    PROVE  Spec => []ProgressInv
<1>1. Init => ProgressInv
  BY ProgressInit
<1>2. ProgressInv /\ [Next]_vars => ProgressInv'
  BY ProgressStep
<1> QED BY <1>1, <1>2, PTL DEF Spec

(* A running request that nobody asked to delete is queued, is being       *)
(* reconciled, or will be queued by the end of a run of its name.          *)
THEOREM WakeupsAreKept ==
    ASSUME Tidy
    PROVE  Spec => []WakeupIsPending
<1>1. ProgressInv => WakeupIsPending
  BY DEF ProgressInv
<1> QED BY <1>1, ProgressCorrect, PTL

-----------------------------------------------------------------------------
(* The finalizers of others.                                               *)

(* Taking the controller's finalizer away takes no other with it: what the *)
(* request carries, the copy carries too.                                  *)
LEMMA RemovalKeepsOthers ==
    ASSUME ProgressInv, RemoveFinalizer, ir' # ir
    PROVE  Other \in ir[cur].finalizers => Other \in ir'[cur].finalizers
<1> DEFINE new == [mem EXCEPT !.finalizers = @ \ {Ours}]
           r == Patched(new)
<1>1. /\ TypeOK /\ pc = "RemoveFinalizer" /\ cur \in Requests /\ Ours \in mem.finalizers
      /\ ir[cur] \in InternalRequest /\ mem \in InternalRequest
      /\ ir[cur].finalizers \subseteq mem.finalizers
  BY DEF RemoveFinalizer, At, ProgressInv, ExecutionInv, TypeOK, StageInv, Operations,
         RemovingInv, Removing
<1>2. new \in InternalRequest /\ new.finalizers = mem.finalizers \ {Ours}
  BY <1>1 DEF InternalRequest
<1>3. PatchAndRequeue(new)
  BY DEF RemoveFinalizer
<1> HIDE DEF new
<1>4. Store(r)
  BY <1>3, PatchStores
<1>5. r.finalizers = mem.finalizers \ {Ours}
  BY <1>1, <1>2, MergePatchFields DEF Patched, Merged
<1> HIDE DEF r
<1>6. ir'[cur] = Collected(r)
  BY <1>1, <1>4 DEF Store, TypeOK
<1>7. Other \in ir[cur].finalizers => Other \in r.finalizers
  BY <1>1, <1>5 DEF Ours, Other
<1> QED BY <1>6, <1>7 DEF Collected

(* The finalizer of another controller is lost to EnsureFinalizerIsAdded   *)
(* only, or taken away by its owner.                                       *)
THEOREM OthersFinalizersAreKept ==
    ASSUME Tidy
    PROVE  Spec => OthersFinalizerIsKept
<1>1. ASSUME ProgressInv, [Next]_vars
      PROVE  [\A k \in Requests :
                Other \in ir[k].finalizers /\ Other \notin ir'[k].finalizers
                => pc = "EnsureFinalizerIsAdded" \/ UNCHANGED worker]_vars
  <2> SUFFICES ASSUME Next, NEW k \in Requests, Other \in ir[k].finalizers,
                      Other \notin ir'[k].finalizers, ~UNCHANGED worker
               PROVE  pc = "EnsureFinalizerIsAdded"
    BY <1>1
  <2>1. ir' # ir /\ ExecutionInv
    BY <1>1 DEF ProgressInv
  <2>2. \A j \in Requests : ~(\/ CreateRequest(j) \/ EditSpec(j) \/ DeleteRequest(j)
                              \/ AddOther(j) \/ RemoveOther(j))
    BY DEF CreateRequest, EditSpec, DeleteRequest, AddOther, RemoveOther, environment
  <2>3. CASE RemoveFinalizer
    <3>1. Written(cur)
      BY <2>1, <2>3, FinalizersWritten
    <3> QED BY <1>1, <2>1, <2>3, <3>1, RemovalKeepsOthers DEF Written
  <2>4. CASE \/ EnsureRequestIsAllowed \/ registerInternalRequestStatus
             \/ EnsureStatusIsTracked
    <3>1. Written(cur) /\ ir'[cur].finalizers = ir[cur].finalizers
      BY <2>1, <2>4, StatusWritten
    <3> QED BY <3>1 DEF Written
  <2>5. CASE EnsureFinalizerIsAdded
    BY <2>5 DEF EnsureFinalizerIsAdded, At
  <2> QED BY <2>1, <2>2, <2>3, <2>4, <2>5, RequestWriters
<1> QED BY <1>1, ProgressCorrect, PTL DEF Spec, OthersFinalizerIsKept

-----------------------------------------------------------------------------
(* The refinement of RequestLifecycle.                                     *)

LEMMA PhaseMeaning ==
    ASSUME NEW req
    PROVE  /\ ~req.live => PhaseOf(req) = "absent"
           /\ req.live /\ req.cond = NoCondition => PhaseOf(req) = "pending"
           /\ req.live /\ req.cond = Running => PhaseOf(req) = "running"
           /\ req.live /\ req.cond = Succeeded => PhaseOf(req) = "succeeded"
           /\ req.live /\ req.cond = Failed => PhaseOf(req) = "failed"
           /\ req.live /\ req.cond = Rejected => PhaseOf(req) = "rejected"
BY ConditionsDiffer DEF PhaseOf

(* The run was created for the present request of the name.                *)
Own(p, k) == pr[p].phase # "unused" /\ pr[p].owner = k /\ pr[p].forUid = ir[k].uid

LEMMA ExecutionMeaning ==
    ASSUME NEW k
    PROVE  /\ ExecutionOf(k) \in {"none", "active", "over"}
           /\ ExecutionOf(k) = "none" <=> \A p \in Runs : ~Own(p, k)
           /\ ExecutionOf(k) = "active" <=> \E p \in Runs : Own(p, k) /\ Executing(pr[p])
BY DEF ExecutionOf, OwnRuns, Own

LEMMA ExecutionMeaningNext ==
    ASSUME NEW k
    PROVE  /\ ExecutionOf(k)' \in {"none", "active", "over"}
           /\ ExecutionOf(k)' = "none" <=> \A p \in Runs : ~Own(p, k)'
           /\ ExecutionOf(k)' = "active" <=> \E p \in Runs : Own(p, k)' /\ Executing(pr'[p])
BY DEF ExecutionOf, OwnRuns, Own, Executing, Exists

LEMMA SameExecution ==
    ASSUME NEW k, \A p \in Runs : Own(p, k)' <=> Own(p, k),
           \A p \in Runs : Own(p, k) => (Executing(pr'[p]) <=> Executing(pr[p]))
    PROVE  ExecutionOf(k)' = ExecutionOf(k)
BY ExecutionMeaning, ExecutionMeaningNext

(* The run was created for another request of the name.                    *)
Foreign(p, k) == pr[p].phase # "unused" /\ pr[p].owner = k /\ pr[p].forUid # ir[k].uid

LEMMA UsedMeaning ==
    ASSUME NEW k \in Requests
    PROVE  /\ k \in UsedNames <=> \E p \in Runs : Foreign(p, k)
           /\ k \in UsedNames' <=> \E p \in Runs : Foreign(p, k)'
BY DEF UsedNames, Foreign

LEMMA SameUsed ==
    ASSUME \A k \in Requests, p \in Runs : Foreign(p, k)' <=> Foreign(p, k)
    PROVE  UsedNames' = UsedNames
<1>1. \A k \in Requests : k \in UsedNames' <=> k \in UsedNames
  BY UsedMeaning
<1>2. UsedNames \subseteq Requests /\ UsedNames' \subseteq Requests
  BY DEF UsedNames
<1> QED BY <1>1, <1>2

(* The abstract state, and when it changes at one request.                 *)
Phase == [k \in Requests |-> PhaseOf(ir[k])]
Execution == [k \in Requests |-> ExecutionOf(k)]

Unmoved == Phase' = Phase /\ Execution' = Execution /\ UsedNames' = UsedNames

LEMMA PhaseChange ==
    ASSUME NEW k \in Requests, \A j \in Requests \ {k} : ir'[j] = ir[j]
    PROVE  /\ Phase' = [Phase EXCEPT ![k] = PhaseOf(ir'[k])]
           /\ Phase[k] = PhaseOf(ir[k])
           /\ PhaseOf(ir'[k]) = PhaseOf(ir[k]) => Phase' = Phase
<1>1. Phase' = [j \in Requests |-> PhaseOf(ir'[j])]
  BY DEF Phase, PhaseOf
<1> QED BY <1>1 DEF Phase

LEMMA ExecutionChange ==
    ASSUME NEW k \in Requests,
           \A j \in Requests \ {k} : ExecutionOf(j)' = ExecutionOf(j)
    PROVE  /\ Execution' = [Execution EXCEPT ![k] = ExecutionOf(k)']
           /\ Execution[k] = ExecutionOf(k)
           /\ ExecutionOf(k)' = ExecutionOf(k) => Execution' = Execution
<1>1. Execution' = [j \in Requests |-> ExecutionOf(j)']
  BY DEF Execution
<1> QED BY <1>1 DEF Execution

(* A run begins only for a request that is pending and has none: a running *)
(* one has a run that exists, and one that exists is found.                *)
LEMMA BeginsMaps ==
    ASSUME ProgressInv, ir' = ir, NEW p \in Runs, RunMoves(p), Begins(p)
    PROVE  \E k \in Requests : Lifecycle!Start(k)
<1>1. PICK k \in Requests : k = cur
  BY DEF Begins, ProgressInv, ExecutionInv, TypeOK
<1>2. DataInv /\ Held /\ mem.cond \in {NoCondition, Running}
  BY DEF Begins, ProgressInv, ExecutionInv, StageInv, HeldInv, Operations
<1>3. ir[k].live /\ ir[k].uid = mem.uid /\ ir[k].cond = mem.cond
  BY <1>1, <1>2 DEF Held, Status
<1>4. ir[k].cond = NoCondition
  BY <1>1, <1>2, <1>3 DEF ProgressInv, RunningInv, VisibleRun, Begins
<1>5. \A q \in Runs : ~Own(q, k)
  <2> SUFFICES ASSUME NEW q \in Runs, Own(q, k) PROVE FALSE
    OBVIOUS
  <2>1. pr[q].gone
    BY <1>1 DEF Own, Begins, Exists
  <2>2. ir[k].cond \in Final
    BY <1>2, <1>3, <2>1 DEF DataInv, RunAgeInv, Own
  <2> QED BY <1>4, <2>2, ConditionsDiffer DEF Final
<1>6. /\ pr'[p].phase = "active" /\ ~pr'[p].gone /\ ~pr'[p].cancelled
      /\ pr'[p].owner = k /\ pr'[p].forUid = ir[k].uid /\ pr[p].phase = "unused"
      /\ \A q \in Runs \ {p} : pr'[q] = pr[q]
  BY <1>1, <1>3 DEF RunMoves, Begins, NewRun, Unused
<1>7. Own(p, k)' /\ Executing(pr'[p])
  BY <1>6 DEF Own, Executing, Exists
<1>8. ExecutionOf(k) = "none" /\ ExecutionOf(k)' = "active"
  BY <1>5, <1>7, ExecutionMeaning, ExecutionMeaningNext
<1>9. \A j \in Requests \ {k} : ExecutionOf(j)' = ExecutionOf(j)
  <2> TAKE j \in Requests \ {k}
  <2>1. \A q \in Runs : Own(q, j)' <=> Own(q, j)
    BY <1>6 DEF Own
  <2>2. \A q \in Runs : Own(q, j) => (Executing(pr'[q]) <=> Executing(pr[q]))
    BY <1>6 DEF Own
  <2> QED BY <2>1, <2>2, SameExecution
<1>10. PhaseOf(ir[k]) = "pending"
  BY <1>3, <1>4, PhaseMeaning
<1>11. /\ Phase[k] = "pending" /\ Phase' = Phase
       /\ Execution[k] = "none" /\ Execution' = [Execution EXCEPT ![k] = "active"]
  BY <1>8, <1>9, <1>10, PhaseChange, ExecutionChange
<1>12. UsedNames' = UsedNames
  BY <1>6, SameUsed DEF Foreign
<1>13. Lifecycle!Start(k)
  BY <1>11, <1>12 DEF Lifecycle!Start, Lifecycle!Executes, Phase, Execution
<1> QED BY <1>13

(* A run that stops executing ends the execution of its request.           *)
LEMMA ChangesMaps ==
    ASSUME ProgressInv, ir' = ir, NEW p \in Runs, RunMoves(p), Changes(p)
    PROVE  Unmoved \/ \E k \in Requests : Lifecycle!End(k)
<1>1. DataInv /\ TypeOK /\ pr[p].owner \in Requests
  BY RunType DEF ProgressInv, ExecutionInv, Changes, CreatedRun
<1>2. PICK k \in Requests : k = pr[p].owner
  BY <1>1
<1>3. \A q \in Runs : /\ pr'[q].phase # "unused" <=> pr[q].phase # "unused"
                      /\ pr'[q].owner = pr[q].owner /\ pr'[q].forUid = pr[q].forUid
                      /\ Executing(pr'[q]) => Executing(pr[q])
                      /\ q # p => pr'[q] = pr[q]
  BY DEF RunMoves, Changes, Exists
<1>4. \A j \in Requests, q \in Runs : Own(q, j)' <=> Own(q, j)
  BY <1>3 DEF Own
<1>5. Phase' = Phase /\ UsedNames' = UsedNames
  <2>1. UsedNames' = UsedNames
    BY <1>3, SameUsed DEF Foreign
  <2> QED BY <1>2, <2>1, PhaseChange
<1>6. CASE Executing(pr[p]) /\ ~Executing(pr'[p])
  <2>1. Own(p, k)
    BY <1>1, <1>2, <1>6 DEF DataInv, NoOrphanRun, Own, Executing, Exists
  <2>2. \A q \in Runs : Own(q, k) => q = p
    BY <1>1, <2>1 DEF DataInv, AtMostOneExecution, Own
  <2>3. ExecutionOf(k) = "active" /\ ExecutionOf(k)' = "over"
    BY <1>4, <1>6, <2>1, <2>2, ExecutionMeaning, ExecutionMeaningNext
  <2>4. \A j \in Requests \ {k} : ExecutionOf(j)' = ExecutionOf(j)
    <3> TAKE j \in Requests \ {k}
    <3>1. \A q \in Runs : Own(q, j) => q # p
      BY <1>2 DEF Own
    <3> QED BY <1>3, <1>4, <3>1, SameExecution
  <2>5. Execution[k] = "active" /\ Execution' = [Execution EXCEPT ![k] = "over"]
    BY <2>3, <2>4, ExecutionChange
  <2>6. Lifecycle!End(k)
    BY <1>5, <2>5 DEF Lifecycle!End, Lifecycle!Executes, Phase, Execution
  <2> QED BY <2>6
<1>7. CASE ~(Executing(pr[p]) /\ ~Executing(pr'[p]))
  <2>1. \A q \in Runs : Executing(pr'[q]) <=> Executing(pr[q])
    BY <1>3, <1>7
  <2>2. \A j \in Requests : ExecutionOf(j)' = ExecutionOf(j)
    BY <1>4, <2>1, SameExecution
  <2> QED BY <1>2, <1>5, <2>2, ExecutionChange DEF Unmoved
<1> QED BY <1>6, <1>7

(* A write that leaves the uids alone leaves every execution alone.        *)
LEMMA ExecutionUntouched ==
    ASSUME pr' = pr, NEW k \in Requests,
           \A j \in Requests \ {k} : ir'[j] = ir[j], ir'[k].uid = ir[k].uid
    PROVE  Execution' = Execution /\ UsedNames' = UsedNames
<1>1. \A j \in Requests, q \in Runs : Own(q, j)' <=> Own(q, j)
  BY DEF Own
<1>2. \A j \in Requests : ExecutionOf(j)' = ExecutionOf(j)
  BY <1>1, SameExecution
<1>3. UsedNames' = UsedNames
  BY SameUsed DEF Foreign
<1> QED BY <1>2, <1>3, ExecutionChange

LEMMA NotActive ==
    ASSUME NEW k \in Requests, NoneExecutes(k)
    PROVE  Execution[k] # "active"
BY ExecutionMeaning DEF Execution, NoneExecutes, Own

(* A run under the name of a request is its own or that of another one.    *)
LEMMA RunUnderName ==
    ASSUME NEW k \in Requests, VisibleRun(k)
    PROVE  Execution[k] # "none" \/ k \in UsedNames
<1>1. PICK p \in Runs : Own(p, k) \/ Foreign(p, k)
  BY DEF VisibleRun, Exists, Own, Foreign
<1> QED BY <1>1, ExecutionMeaning, UsedMeaning DEF Execution

(* A request appears: no run was created for its uid yet.                  *)
LEMMA AppearsMaps ==
    ASSUME ProgressInv, pr' = pr, NEW k \in Requests, Appears(k),
           \A j \in Requests \ {k} : ir'[j] = ir[j]
    PROVE  Lifecycle!Submit(k)
<1>1. TypeOK /\ DataInv /\ ir[k].uid \in Nat
  BY DEF ProgressInv, ExecutionInv, TypeOK, InternalRequest
<1>2. \A q \in Runs : ~Own(q, k)'
  <2> SUFFICES ASSUME NEW q \in Runs, Own(q, k)' PROVE FALSE
    OBVIOUS
  <2>1. pr[q].phase # "unused" /\ pr[q].owner = k /\ pr[q].forUid = ir[k].uid + 1
    BY DEF Own, Appears
  <2>2. pr[q].forUid <= ir[k].uid
    BY <1>1, <2>1 DEF DataInv, RunAgeInv
  <2> QED BY <1>1, <2>1, <2>2
<1>3. ExecutionOf(k)' = "none"
  BY <1>2, ExecutionMeaningNext
<1>4. \A j \in Requests \ {k} : ExecutionOf(j)' = ExecutionOf(j)
  <2> TAKE j \in Requests \ {k}
  <2>1. \A q \in Runs : Own(q, j)' <=> Own(q, j)
    BY DEF Own
  <2> QED BY <2>1, SameExecution
<1>5. Execution' = [Execution EXCEPT ![k] = "none"]
  BY <1>3, <1>4, ExecutionChange
<1>6. PhaseOf(ir[k]) = "absent" /\ PhaseOf(ir'[k]) = "pending"
  BY PhaseMeaning DEF Appears
<1>7. Phase[k] = "absent" /\ Phase' = [Phase EXCEPT ![k] = "pending"]
  BY <1>6, PhaseChange
<1>8. \A q \in Runs : Foreign(q, k)' <=> Own(q, k) \/ Foreign(q, k)
  BY <1>2 DEF Own, Foreign
<1>9. k \in UsedNames' <=> Execution[k] # "none" \/ k \in UsedNames
  BY <1>8, UsedMeaning, ExecutionMeaning DEF Execution
<1>10. \A j \in Requests \ {k} : j \in UsedNames' <=> j \in UsedNames
  <2> TAKE j \in Requests \ {k}
  <2>1. \A q \in Runs : Foreign(q, j)' <=> Foreign(q, j)
    BY DEF Foreign
  <2> QED BY <2>1, UsedMeaning
<1>11. UsedNames \subseteq Requests /\ UsedNames' \subseteq Requests
  BY DEF UsedNames
<1>12. UsedNames' = IF Execution[k] = "none" THEN UsedNames ELSE UsedNames \cup {k}
  BY <1>9, <1>10, <1>11
<1> QED BY <1>5, <1>7, <1>12 DEF Lifecycle!Submit, Lifecycle!Moves, Phase, Execution

(* A request vanishes only when none of its runs executes.                 *)
LEMMA VanishesMaps ==
    ASSUME ProgressInv, pr' = pr, NEW k \in Requests, Vanishes(k),
           \A j \in Requests \ {k} : ir'[j] = ir[j]
    PROVE  Lifecycle!Remove(k)
<1>1. ir[k].cond \in Conditions
  BY DEF ProgressInv, ExecutionInv, TypeOK, InternalRequest
<1>2. /\ PhaseOf(ir[k]) \in Lifecycle!Phases \ {"absent"}
      /\ PhaseOf(ir'[k]) = "absent"
  BY <1>1, PhaseMeaning DEF Vanishes, Conditions, Lifecycle!Phases
<1>3. /\ Phase[k] \in Lifecycle!Phases \ {"absent"}
      /\ Phase' = [Phase EXCEPT ![k] = "absent"]
  BY <1>2, PhaseChange
<1>4. Execution[k] # "active" /\ Execution' = Execution /\ UsedNames' = UsedNames
  BY ExecutionUntouched, NotActive DEF Vanishes
<1> QED BY <1>3, <1>4 DEF Lifecycle!Remove, Lifecycle!Moves, Phase, Execution

(* A request that is marked runs, is rejected or concludes.                *)
LEMMA MarksMaps ==
    ASSUME ProgressInv, pr' = pr, NEW k \in Requests, Stays(k), Marks(k),
           \A j \in Requests \ {k} : ir'[j] = ir[j]
    PROVE  \/ Lifecycle!Run(k) \/ Lifecycle!Reject(k) \/ Lifecycle!Revoke(k)
           \/ Lifecycle!Conclude(k) \/ Lifecycle!Inherit(k) \/ Unmoved
<1>1. /\ ir[k].live /\ ir'[k].live
      /\ Execution' = Execution /\ UsedNames' = UsedNames
  BY ExecutionUntouched DEF Stays, Marks
<1>2. PhaseOf(ir[k]) \in {"pending", "running"}
  BY <1>1, PhaseMeaning DEF Marks
<1>3. Phase[k] = PhaseOf(ir[k]) /\ Phase' = [Phase EXCEPT ![k] = PhaseOf(ir'[k])]
  BY PhaseChange
<1>4. CASE ir'[k].cond = Rejected
  <2>1. PhaseOf(ir'[k]) = "rejected"
    BY <1>1, <1>4, PhaseMeaning
  <2>2. /\ Phase[k] \in {"pending"} \/ Phase[k] \in {"running"}
        /\ Phase' = [Phase EXCEPT ![k] = "rejected"]
    BY <1>2, <1>3, <2>1
  <2>3. Lifecycle!Reject(k) \/ Lifecycle!Revoke(k)
    BY <1>1, <2>2
    DEF Lifecycle!Reject, Lifecycle!Revoke, Lifecycle!Moves, Phase, Execution
  <2> QED BY <2>3
<1>5. CASE ir'[k].cond = Running
  <2>1. PhaseOf(ir'[k]) = "running"
    BY <1>1, <1>5, PhaseMeaning
  <2>2. CASE PhaseOf(ir[k]) = "running"
    BY <1>1, <2>1, <2>2, PhaseChange DEF Unmoved
  <2>3. CASE PhaseOf(ir[k]) = "pending"
    <3>1. Phase[k] \in {"pending"} /\ Phase' = [Phase EXCEPT ![k] = "running"]
      BY <1>3, <2>1, <2>3
    <3>2. ir[k].cond # Running
      BY <1>1, <2>3, PhaseMeaning
    <3>3. VisibleRun(k)
      BY <1>5, <3>2, ConditionsDiffer DEF Marks, ProgressInv, FoundInv
    <3>4. Execution[k] # "none" \/ k \in UsedNames
      BY <3>3, RunUnderName
    <3>5. Lifecycle!Run(k)
      BY <1>1, <3>1, <3>4 DEF Lifecycle!Run, Lifecycle!Moves, Phase, Execution
    <3> QED BY <3>5
  <2> QED BY <1>2, <2>2, <2>3
<1>6. CASE /\ ir[k].cond = Running
           /\ ir'[k].cond \in {Succeeded, Failed}
           /\ NoneExecutes(k)
  <2>1. PhaseOf(ir[k]) = "running" /\ PhaseOf(ir'[k]) \in {"succeeded", "failed"}
    BY <1>1, <1>6, PhaseMeaning
  <2>2. PICK outcome \in {"succeeded", "failed"} : PhaseOf(ir'[k]) = outcome
    BY <2>1
  <2>3. Phase[k] \in {"running"} /\ Phase' = [Phase EXCEPT ![k] = outcome]
    BY <1>3, <2>1, <2>2
  <2>4. Lifecycle!Outcome(k)
    BY <1>1, <2>3 DEF Lifecycle!Outcome, Lifecycle!Moves, Phase, Execution
  <2>5. Execution[k] # "none" \/ k \in UsedNames
    BY <1>6, RunUnderName DEF ProgressInv, RunningInv
  <2>6. Execution[k] \in {"none", "over"}
    BY <1>6, NotActive, ExecutionMeaning DEF Execution
  <2>7. Lifecycle!Conclude(k) \/ Lifecycle!Inherit(k)
    BY <2>4, <2>5, <2>6 DEF Lifecycle!Conclude, Lifecycle!Inherit, Execution
  <2> QED BY <2>7
<1> QED BY <1>4, <1>5, <1>6 DEF Marks

LEMMA WrittenMaps ==
    ASSUME ProgressInv, pr' = pr, NEW k \in Requests, Written(k)
    PROVE  Unmoved \/ Lifecycle!Next
<1>1. \A j \in Requests \ {k} : ir'[j] = ir[j]
  BY DEF Written
<1>2. CASE Appears(k)
  BY <1>1, <1>2, AppearsMaps DEF Lifecycle!Next
<1>3. CASE Vanishes(k)
  BY <1>1, <1>3, VanishesMaps DEF Lifecycle!Next
<1>4. CASE Stays(k) /\ Marks(k)
  BY <1>1, <1>4, MarksMaps DEF Lifecycle!Next
<1>5. CASE Stays(k) /\ ir'[k].cond = ir[k].cond
  <2>1. ir[k].live \in BOOLEAN /\ ir[k].cond \in Conditions
    BY DEF ProgressInv, ExecutionInv, TypeOK, InternalRequest
  <2>2. PhaseOf(ir'[k]) = PhaseOf(ir[k])
    BY <1>5, <2>1, PhaseMeaning DEF Stays, Conditions
  <2> QED BY <1>1, <1>5, <2>2, PhaseChange, ExecutionUntouched DEF Stays, Unmoved
<1> QED BY <1>2, <1>3, <1>4, <1>5 DEF Written

LEMMA LifecycleStep ==
    ASSUME Tidy, ProgressInv, [Next]_vars
    PROVE  [Lifecycle!Next]_(Lifecycle!vars)
<1>1. Unmoved => UNCHANGED Lifecycle!vars
  BY DEF Unmoved, Lifecycle!vars, Phase, Execution
<1>2. CASE Next /\ pr' # pr
  <2>1. PICK p \in Runs : RunMoves(p)
    BY <1>2, RunWriters DEF ProgressInv
  <2>2. ir' = ir
    BY <1>2, RunWriters DEF ProgressInv
  <2> QED BY <1>1, <2>1, <2>2, BeginsMaps, ChangesMaps DEF RunMoves, Lifecycle!Next
<1>3. CASE Next /\ pr' = pr /\ ir' # ir
  <2>1. PICK k \in Requests : Written(k)
    BY <1>3, RequestWritten DEF ProgressInv
  <2> QED BY <1>1, <1>3, <2>1, WrittenMaps
<1>4. CASE pr' = pr /\ ir' = ir
  <2>1. Unmoved
    BY <1>4 DEF Unmoved, Phase, PhaseOf, Execution, ExecutionOf, OwnRuns, UsedNames
  <2> QED BY <1>1, <2>1
<1> QED BY <1>2, <1>3, <1>4 DEF vars, clusters

LEMMA LifecycleInit ==
    ASSUME Init
    PROVE  Lifecycle!Init
<1>1. \A k \in Requests : PhaseOf(ir[k]) = "absent"
  BY PhaseMeaning, AbsentFields DEF Init
<1>2. \A k \in Requests : ExecutionOf(k) = "none"
  BY DEF Init, ExecutionOf, OwnRuns, Unused
<1>3. UsedNames = {}
  BY DEF Init, UsedNames, Unused
<1> QED BY <1>1, <1>2, <1>3 DEF Lifecycle!Init

(* With caches that follow the clusters, and nobody else deleting runs,    *)
(* the controller implements RequestLifecycle: a request executes at most  *)
(* once and starts to only while it is pending; it reports an outcome only *)
(* when its execution is over, or that of an earlier request of its name;  *)
(* and it does not go away while it executes.                              *)
THEOREM LifecycleIsImplemented ==
    ASSUME Tidy
    PROVE  Spec => ImplementsLifecycle
<1>1. Init => Lifecycle!Init
  BY LifecycleInit
<1>2. ProgressInv /\ [Next]_vars => [Lifecycle!Next]_(Lifecycle!vars)
  BY LifecycleStep
<1> QED BY <1>1, <1>2, ProgressCorrect, PTL DEF Spec, ImplementsLifecycle, Lifecycle!Spec
=============================================================================
