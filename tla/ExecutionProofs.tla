--------------------------- MODULE ExecutionProofs ---------------------------
(***************************************************************************)
(* What the controller guarantees about the execution of requests when its *)
(* caches follow the clusters and nobody else deletes PipelineRuns: each   *)
(* request executes once at most, no run is left behind, a reported        *)
(* outcome is the run's, and it is final.                                  *)
(***************************************************************************)
EXTENDS InternalRequestControllerProofs

Final == {Rejected, Failed, Succeeded}

(* A status is what the methods and the tracked run can have made of it.   *)
StatusInv(k) ==
    /\ ir[k].cond \in {Running, Succeeded, Failed} => ir[k].startTime
    /\ ir[k].cond \in {NoCondition, Running} => ir[k].results = NoRun
    /\ ~ir[k].live => ir[k].cond = NoCondition

(* The run that a status names is of the request's name; it was deleted    *)
(* only after the request completed, and nothing else exists then.         *)
NamedRunInv(k) ==
    LET p == ir[k].pipelineRun IN
    p # NoRun => /\ pr[p].phase # "unused"
                 /\ pr[p].owner = k
                 /\ pr[p].gone =>
                      /\ ir[k].cond \in Final
                      /\ \A q \in Runs : Exists(pr[q]) => pr[q].owner # k

(* One run exists for a name at any time.  A run was created for the       *)
(* present request of its name or for an earlier one; if the present one's *)
(* run was deleted, the request has completed.                             *)
OneVisibleRun ==
    \A p, q \in Runs :
        Exists(pr[p]) /\ Exists(pr[q]) /\ pr[p].owner = pr[q].owner => p = q

RunAgeInv(p) ==
    pr[p].phase # "unused" =>
        /\ pr[p].forUid <= ir[pr[p].owner].uid
        /\ pr[p].gone /\ pr[p].forUid = ir[pr[p].owner].uid /\ ir[pr[p].owner].live
           => ir[pr[p].owner].cond \in Final

DataInv ==
    /\ \A k \in Requests : StatusInv(k) /\ NamedRunInv(k)
    /\ \A p \in Runs : RunAgeInv(p)
    /\ OneVisibleRun
    /\ AtMostOneExecution
    /\ NoOrphanRun
    /\ OutcomeMatchesRun

(* The worker's copy: once it carries the finalizer, the request cannot go *)
(* away under the worker, and nobody else writes its status.               *)
Held ==
    /\ ir[cur].live
    /\ ir[cur].uid = mem.uid
    /\ Ours \in ir[cur].finalizers
    /\ Status(ir[cur]) = Status(mem)

HeldInv == pc # "Idle" /\ Ours \in mem.finalizers => Held

(* What the operations before have established.                            *)
StageInv ==
    /\ pc \in Operations \ {"Idle", "EnsureFinalizersAreCalled", "EnsureFinalizerIsAdded"}
       => Ours \in mem.finalizers
    /\ pc \in {"EnsureConfigIsLoaded", "EnsureRequestIsAllowed",
               "EnsurePipelineRunIsCreated", "registerInternalRequestStatus"}
       => mem.cond \in {NoCondition, Running}
    /\ pc = "EnsureStatusIsTracked" => mem.cond = Running
    /\ pc = "RemoveFinalizer"
       => \A p \in Runs : Executing(pr[p]) => pr[p].owner # cur

ExecutionInv == TypeOK /\ DataInv /\ HeldInv /\ StageInv

-----------------------------------------------------------------------------
(* The kinds of write to the clusters, and what each one leaves true.      *)

(* A write to a request's spec or metadata that does not take the          *)
(* controller's finalizer away while something executes for the request.   *)
LEMMA MetadataWrite ==
    ASSUME TypeOK, DataInv, NEW k \in Requests, NEW r \in InternalRequest,
           ir' = [ir EXCEPT ![k] = r], pr' = pr,
           Status(r) = Status(ir[k]), r.uid = ir[k].uid, r.live = ir[k].live,
           \/ Ours \in ir[k].finalizers => Ours \in r.finalizers
           \/ \A p \in Runs : Executing(pr[p]) => pr[p].owner # k
    PROVE  DataInv'
<1>1. \A j \in Requests :
         /\ Status(ir'[j]) = Status(ir[j]) /\ ir'[j].uid = ir[j].uid
         /\ ir'[j].live = ir[j].live
         /\ \/ Ours \in ir[j].finalizers => Ours \in ir'[j].finalizers
            \/ \A p \in Runs : Executing(pr[p]) => pr[p].owner # j
  BY DEF TypeOK
<1>2. \A j \in Requests :
         /\ ir'[j].cond = ir[j].cond /\ ir'[j].startTime = ir[j].startTime
         /\ ir'[j].pipelineRun = ir[j].pipelineRun /\ ir'[j].results = ir[j].results
  BY <1>1 DEF Status
<1>3. \A p \in Runs : pr[p].phase # "unused" => pr[p].owner \in Requests
  BY DEF TypeOK, PipelineRun, CreatedRun, Unused
<1>4. \A j \in Requests : StatusInv(j)' /\ NamedRunInv(j)'
  BY <1>1, <1>2 DEF DataInv, StatusInv, NamedRunInv
<1>5. \A p \in Runs : RunAgeInv(p)'
  BY <1>1, <1>2, <1>3 DEF DataInv, RunAgeInv
<1>6. OneVisibleRun' /\ AtMostOneExecution'
  BY DEF DataInv, OneVisibleRun, AtMostOneExecution
<1>7. NoOrphanRun'
  BY <1>1, <1>3 DEF DataInv, NoOrphanRun, Executing, Exists
<1>8. OutcomeMatchesRun'
  BY <1>2 DEF DataInv, OutcomeMatchesRun
<1> QED BY <1>4, <1>5, <1>6, <1>7, <1>8 DEF DataInv

(* A request goes away while nothing executes for it.                      *)
LEMMA RequestGone ==
    ASSUME TypeOK, DataInv, NEW k \in Requests,
           ir' = [ir EXCEPT ![k] = Absent(ir[k].uid)], pr' = pr,
           \A p \in Runs : Executing(pr[p]) => pr[p].owner # k
    PROVE  DataInv'
<1>1. /\ ~ir'[k].live /\ ir'[k].uid = ir[k].uid /\ ir'[k].cond = NoCondition
      /\ ir'[k].pipelineRun = NoRun /\ ir'[k].results = NoRun
      /\ \A j \in Requests \ {k} : ir'[j] = ir[j]
  BY DEF TypeOK, Absent, NewRequest
<1>2. \A p \in Runs : pr[p].phase # "unused" => pr[p].owner \in Requests
  BY DEF TypeOK, PipelineRun, CreatedRun, Unused
<1>3. \A j \in Requests : StatusInv(j)' /\ NamedRunInv(j)'
  BY <1>1, ConditionsDiffer DEF DataInv, StatusInv, NamedRunInv
<1>4. \A p \in Runs : RunAgeInv(p)'
  BY <1>1, <1>2 DEF DataInv, RunAgeInv
<1>5. OneVisibleRun' /\ AtMostOneExecution'
  BY DEF DataInv, OneVisibleRun, AtMostOneExecution
<1>6. NoOrphanRun'
  BY <1>1, <1>2 DEF DataInv, NoOrphanRun, Executing, Exists
<1>7. OutcomeMatchesRun'
  BY <1>1, ConditionsDiffer DEF DataInv, OutcomeMatchesRun
<1> QED BY <1>3, <1>4, <1>5, <1>6, <1>7 DEF DataInv

(* A request is created under a name that is free.                         *)
LEMMA RequestCreated ==
    ASSUME TypeOK, DataInv, NEW k \in Requests, ~ir[k].live,
           NEW spec \in Specs, NEW finalizers \in SUBSET Finalizers,
           ir' = [ir EXCEPT ![k] = NewRequest(ir[k].uid + 1, spec, finalizers)], pr' = pr
    PROVE  DataInv'
<1>1. /\ ir[k].uid \in Nat
      /\ ir'[k].live /\ ir'[k].uid = ir[k].uid + 1 /\ ir'[k].cond = NoCondition
      /\ ir'[k].pipelineRun = NoRun /\ ir'[k].results = NoRun
      /\ \A j \in Requests \ {k} : ir'[j] = ir[j]
  BY DEF TypeOK, NewRequest, InternalRequest
<1>2. \A p \in Runs : pr[p].phase # "unused" =>
         pr[p].owner \in Requests /\ pr[p].forUid \in Nat
  BY DEF TypeOK, PipelineRun, CreatedRun, Unused
<1>3. \A j \in Requests : StatusInv(j)' /\ NamedRunInv(j)'
  BY <1>1, ConditionsDiffer DEF DataInv, StatusInv, NamedRunInv
<1>4. \A p \in Runs : RunAgeInv(p)'
  BY <1>1, <1>2 DEF DataInv, RunAgeInv
<1>5. OneVisibleRun' /\ AtMostOneExecution'
  BY DEF DataInv, OneVisibleRun, AtMostOneExecution
<1>6. NoOrphanRun'
  BY <1>1, <1>2 DEF DataInv, NoOrphanRun, Executing, Exists
<1>7. OutcomeMatchesRun'
  BY <1>1, ConditionsDiffer DEF DataInv, OutcomeMatchesRun
<1> QED BY <1>3, <1>4, <1>5, <1>6, <1>7 DEF DataInv

(* The controller writes the status of a request that has not completed,   *)
(* to a status that names a run of the request, if any, and agrees with    *)
(* how that run ended.                                                     *)
LEMMA StatusWrite ==
    ASSUME TypeOK, DataInv, NEW k \in Requests, NEW r \in InternalRequest,
           ir' = [ir EXCEPT ![k] = r], pr' = pr,
           ir[k].cond \notin Final, ir[k].live,
           r.uid = ir[k].uid, r.live = ir[k].live, r.finalizers = ir[k].finalizers,
           r.cond \in {Running, Succeeded, Failed} => r.startTime,
           r.cond \in {NoCondition, Running, Failed} => r.results = NoRun,
           r.pipelineRun # ir[k].pipelineRun =>
                /\ r.pipelineRun \in Runs
                /\ Exists(pr[r.pipelineRun]) /\ pr[r.pipelineRun].owner = k,
           r.cond = Succeeded => /\ r.pipelineRun \in Runs /\ r.results = r.pipelineRun
                                 /\ pr[r.pipelineRun].phase = "succeeded",
           r.cond = Failed => /\ r.pipelineRun \in Runs
                              /\ pr[r.pipelineRun].phase = "failed"
    PROVE  DataInv'
<1>1. ir'[k] = r /\ \A j \in Requests \ {k} : ir'[j] = ir[j]
  BY DEF TypeOK
<1>2. \A p \in Runs : pr[p].phase # "unused" => pr[p].owner \in Requests
  BY DEF TypeOK, PipelineRun, CreatedRun, Unused
<1>3. \A j \in Requests : StatusInv(j)'
  BY <1>1 DEF DataInv, StatusInv
<1>4. \A j \in Requests : NamedRunInv(j)'
  BY <1>1 DEF DataInv, NamedRunInv, Exists, Final
<1>5. \A p \in Runs : RunAgeInv(p)'
  BY <1>1, <1>2 DEF DataInv, RunAgeInv
<1>6. OneVisibleRun' /\ AtMostOneExecution'
  BY DEF DataInv, OneVisibleRun, AtMostOneExecution
<1>7. NoOrphanRun'
  <2>1. \A j \in Requests : /\ ir'[j].live = ir[j].live /\ ir'[j].uid = ir[j].uid
                            /\ ir'[j].finalizers = ir[j].finalizers
    BY <1>1
  <2> QED BY <1>2, <2>1 DEF DataInv, NoOrphanRun
<1>8. OutcomeMatchesRun'
  <2>1. r.pipelineRun \in Runs => pr[r.pipelineRun].owner = k
    BY RunsAssumption DEF DataInv, NamedRunInv
  <2> QED BY <1>1, <2>1 DEF DataInv, OutcomeMatchesRun
<1> QED BY <1>3, <1>4, <1>5, <1>6, <1>7, <1>8 DEF DataInv

(* A run that exists is cancelled or ends.                                 *)
LEMMA RunWritten ==
    ASSUME TypeOK, DataInv, NEW p \in Runs, Exists(pr[p]), NEW run \in CreatedRun,
           pr' = [pr EXCEPT ![p] = run], ir' = ir,
           run.gone = pr[p].gone, run.owner = pr[p].owner, run.forUid = pr[p].forUid,
           run.phase = pr[p].phase \/ pr[p].phase = "active",
           Executing(run) => Executing(pr[p])
    PROVE  DataInv'
<1>1. /\ pr'[p] = run /\ \A q \in Runs \ {p} : pr'[q] = pr[q]
      /\ pr[p].phase # "unused" /\ run.phase # "unused" /\ Exists(run)
  BY DEF TypeOK, CreatedRun, Exists
<1>2. \A q \in Runs : /\ pr'[q].owner = pr[q].owner /\ pr'[q].forUid = pr[q].forUid
                      /\ pr'[q].gone = pr[q].gone
                      /\ pr'[q].phase = "unused" <=> pr[q].phase = "unused"
                      /\ pr[q].phase \notin {"unused", "active"} => pr'[q].phase = pr[q].phase
                      /\ Exists(pr'[q]) <=> Exists(pr[q])
                      /\ Executing(pr'[q]) => Executing(pr[q])
  BY <1>1
<1>3. \A k \in Requests : ir[k].pipelineRun \in Runs \cup {NoRun}
  BY DEF TypeOK, InternalRequest
<1>4. \A k \in Requests : StatusInv(k)' /\ NamedRunInv(k)'
  BY <1>2, <1>3 DEF DataInv, StatusInv, NamedRunInv
<1>5. \A q \in Runs : RunAgeInv(q)'
  BY <1>2 DEF DataInv, RunAgeInv
<1>6. OneVisibleRun' /\ AtMostOneExecution'
  BY <1>2 DEF DataInv, OneVisibleRun, AtMostOneExecution
<1>7. NoOrphanRun'
  BY <1>2 DEF DataInv, NoOrphanRun
<1>8. OutcomeMatchesRun'
  BY <1>2 DEF DataInv, OutcomeMatchesRun
<1> QED BY <1>4, <1>5, <1>6, <1>7, <1>8 DEF DataInv

(* The run of a completed request is deleted.                              *)
LEMMA RunDeleted ==
    ASSUME TypeOK, DataInv, NEW p \in Runs, Exists(pr[p]), Delete(p), ir' = ir,
           ir[pr[p].owner].cond \in Final
    PROVE  DataInv'
<1>1. pr[p] \in CreatedRun
  BY RunType
<1>2. \A q \in Runs : /\ pr'[q].owner = pr[q].owner /\ pr'[q].forUid = pr[q].forUid
                      /\ pr'[q].phase = pr[q].phase
                      /\ pr'[q].cancelled = pr[q].cancelled
                      /\ pr'[q].gone <=> (pr[q].gone \/ q = p)
  BY <1>1 DEF TypeOK, Delete, CreatedRun, PipelineRun, Unused
<1>3. \A q \in Runs : /\ Exists(pr'[q]) <=> Exists(pr[q]) /\ q # p
                      /\ Executing(pr'[q]) => Executing(pr[q])
  BY <1>2 DEF Exists, Executing
<1>4. \A k \in Requests : ir[k].pipelineRun \in Runs \cup {NoRun}
  BY DEF TypeOK, InternalRequest
<1>5. \A k \in Requests : StatusInv(k)' /\ NamedRunInv(k)'
  <2> TAKE k \in Requests
  <2>1. ASSUME ir[k].pipelineRun = p, NEW q \in Runs, Exists(pr'[q])
        PROVE  pr'[q].owner # k
    BY <1>2, <1>3, <2>1, RunsAssumption DEF DataInv, NamedRunInv, OneVisibleRun
  <2> QED BY <1>2, <1>3, <1>4, <2>1 DEF DataInv, StatusInv, NamedRunInv
<1>6. \A q \in Runs : RunAgeInv(q)'
  BY <1>2 DEF DataInv, RunAgeInv
<1>7. OneVisibleRun' /\ AtMostOneExecution'
  BY <1>2, <1>3 DEF DataInv, OneVisibleRun, AtMostOneExecution
<1>8. NoOrphanRun'
  BY <1>2, <1>3 DEF DataInv, NoOrphanRun
<1>9. OutcomeMatchesRun'
  BY <1>2 DEF DataInv, OutcomeMatchesRun
<1> QED BY <1>5, <1>6, <1>7, <1>8, <1>9 DEF DataInv

(* A run is created for a request that holds the finalizer, has not        *)
(* completed, and has no run that exists.                                  *)
LEMMA RunCreated ==
    ASSUME TypeOK, DataInv, NEW k \in Requests, NEW req \in InternalRequest,
           NEW p \in Runs, pr[p] = Unused,
           pr' = [pr EXCEPT ![p] = NewRun(k, req)], ir' = ir,
           ir[k].live, ir[k].uid = req.uid, Ours \in ir[k].finalizers,
           ir[k].cond \notin Final,
           \A q \in Runs : Exists(pr[q]) => pr[q].owner # k
    PROVE  DataInv'
<1>1. /\ pr[p].phase = "unused" /\ ~Exists(pr[p])
      /\ pr'[p].phase = "active" /\ pr'[p].owner = k /\ pr'[p].forUid = ir[k].uid
      /\ ~pr'[p].gone /\ Exists(pr'[p])
      /\ \A q \in Runs \ {p} : pr'[q] = pr[q]
  BY DEF TypeOK, NewRun, Unused, Exists
<1>2. ir[k].uid \in Nat
  BY DEF TypeOK, InternalRequest
<1>3. \A j \in Requests : ir[j].pipelineRun \in Runs \cup {NoRun}
  BY DEF TypeOK, InternalRequest
<1>4. \A j \in Requests : StatusInv(j)' /\ NamedRunInv(j)'
  <2> TAKE j \in Requests
  <2>1. ir[j].pipelineRun # p
    BY <1>1, RunsAssumption DEF DataInv, NamedRunInv
  <2>2. ASSUME ir[j].pipelineRun # NoRun, pr[ir[j].pipelineRun].gone PROVE j # k
    BY <2>2 DEF DataInv, NamedRunInv
  <2> QED BY <1>1, <1>3, <2>1, <2>2 DEF DataInv, StatusInv, NamedRunInv
<1>5. \A q \in Runs : RunAgeInv(q)'
  BY <1>1, <1>2 DEF DataInv, RunAgeInv
<1>6. OneVisibleRun'
  BY <1>1 DEF DataInv, OneVisibleRun
<1>7. AtMostOneExecution'
  <2>1. ASSUME NEW q \in Runs \ {p}, pr[q].phase # "unused", pr[q].owner = k
        PROVE  pr[q].forUid # ir[k].uid
    BY <2>1 DEF DataInv, RunAgeInv, Exists, TypeOK, PipelineRun, CreatedRun
  <2> QED BY <1>1, <2>1 DEF DataInv, AtMostOneExecution
<1>8. NoOrphanRun'
  BY <1>1 DEF DataInv, NoOrphanRun
<1>9. OutcomeMatchesRun'
  BY <1>1 DEF DataInv, OutcomeMatchesRun
<1> QED BY <1>4, <1>5, <1>6, <1>7, <1>8, <1>9 DEF DataInv

LEMMA NothingWritten ==
    ASSUME DataInv, ir' = ir, pr' = pr
    PROVE  DataInv'
BY DEF DataInv, StatusInv, NamedRunInv, RunAgeInv, OneVisibleRun, AtMostOneExecution,
       NoOrphanRun, OutcomeMatchesRun

-----------------------------------------------------------------------------
(* What the worker knows.                                                  *)

(* An idle worker claims nothing.                                          *)
LEMMA FinishKeeps ==
    ASSUME Finish
    PROVE  HeldInv' /\ StageInv'
BY DEF Finish, HeldInv, StageInv

(* Going on with the same copy and the same request keeps what is held.    *)
LEMMA ContinueKeeps ==
    ASSUME HeldInv, pc # "Idle", NEW op, Continue(op), ir' = ir, mem' = mem
    PROVE  HeldInv'
BY DEF HeldInv, Held, Continue, Status

(* A step of somebody else, who writes a request that carries the          *)
(* controller's finalizer only where the controller does not, and starts   *)
(* no run, takes nothing from the worker.                                  *)
LEMMA OthersKeep ==
    ASSUME TypeOK, HeldInv, StageInv, UNCHANGED worker,
           \A k \in Requests :
               ir[k].live /\ Ours \in ir[k].finalizers
               => /\ ir'[k].live /\ ir'[k].uid = ir[k].uid
                  /\ Ours \in ir'[k].finalizers /\ Status(ir'[k]) = Status(ir[k]),
           \A p \in Runs : Executing(pr'[p]) => Executing(pr[p]) /\ pr'[p].owner = pr[p].owner
    PROVE  HeldInv' /\ StageInv'
<1>1. pc # "Idle" => cur \in Requests
  BY DEF TypeOK
<1>2. pc' = pc /\ cur' = cur /\ mem' = mem
  BY DEF worker
<1>3. HeldInv'
  <2>1. Status(mem)' = Status(mem)
    BY <1>2 DEF Status
  <2>2. Status(ir[cur])' = Status(ir'[cur])
    BY <1>2 DEF Status
  <2> QED BY <1>1, <1>2, <2>1, <2>2 DEF HeldInv, Held
<1>4. StageInv'
  BY <1>2 DEF StageInv
<1> QED BY <1>3, <1>4

(* While the worker holds its request, a patch of the status stores the    *)
(* status the worker means to store, and nothing else.                     *)
LEMMA HeldPatch ==
    ASSUME TypeOK, pc # "Idle", Held, NEW new \in InternalRequest,
           new.finalizers = mem.finalizers
    PROVE  /\ Patched(new) \in InternalRequest
           /\ Patched(new).live /\ Patched(new).uid = ir[cur].uid
           /\ Patched(new).finalizers = ir[cur].finalizers
           /\ Patched(new).cond = new.cond /\ Patched(new).startTime = new.startTime
           /\ Patched(new).pipelineRun = new.pipelineRun /\ Patched(new).results = new.results
           /\ Status(Patched(new)) = Status(new)
           /\ Collected(Patched(new)) = Patched(new)
<1>1. cur \in Requests /\ ir[cur] \in InternalRequest /\ mem \in InternalRequest
  BY DEF TypeOK
<1>2. /\ ir[cur].cond = mem.cond /\ ir[cur].startTime = mem.startTime
      /\ ir[cur].completionTime = mem.completionTime
      /\ ir[cur].pipelineRun = mem.pipelineRun /\ ir[cur].results = mem.results
  BY DEF Held, Status
<1>3. /\ Patched(new) \in InternalRequest
      /\ Patched(new).live /\ Patched(new).uid = ir[cur].uid
      /\ Patched(new).finalizers = ir[cur].finalizers
      /\ Patched(new).cond = new.cond /\ Patched(new).startTime = new.startTime
      /\ Patched(new).completionTime = new.completionTime
      /\ Patched(new).pipelineRun = new.pipelineRun /\ Patched(new).results = new.results
  BY <1>1, <1>2, MergePatchFields DEF Patched, Merged, Held
<1>4. Status(Patched(new)) = Status(new)
  BY <1>3 DEF Status
<1>5. Collected(Patched(new)) = Patched(new)
  BY <1>3 DEF Collected, Held
<1> QED BY <1>3, <1>4, <1>5

(* If storing a patch keeps the data in order, so does whatever becomes of *)
(* the patch; a patch that fails leaves the worker idle.                   *)
LEMMA PatchKeeps ==
    ASSUME DataInv, pr' = pr, NEW new, NEW op,
           Accepts(ir[cur], Patched(new)) /\ Store(Patched(new)) => DataInv',
           \/ PatchAndContinue(new, op)
           \/ PatchAndStop(new)
           \/ PatchAndRequeue(new)
    PROVE  /\ DataInv'
           /\ \/ HeldInv' /\ StageInv'
              \/ /\ PatchAndContinue(new, op)
                 /\ PatchSucceeds(new)
                 /\ mem' = Patched(new)
                 /\ Continue(op)
<1>1. CASE PatchFails(new)
  BY <1>1, NothingWritten, FinishKeeps DEF PatchFails, Requeue
<1>2. CASE PatchSucceeds(new) /\ (StopProcessing \/ Requeue)
  BY <1>2, FinishKeeps DEF PatchSucceeds, StopProcessing, Requeue
<1>3. CASE /\ PatchAndContinue(new, op) /\ PatchSucceeds(new)
           /\ mem' = Patched(new) /\ Continue(op)
  BY <1>3 DEF PatchSucceeds
<1> QED BY <1>1, <1>2, <1>3 DEF PatchAndContinue, PatchAndStop, PatchAndRequeue

-----------------------------------------------------------------------------
(* The operations, one by one.                                             *)

(* The caches follow the clusters and nobody else deletes PipelineRuns.    *)
Tidy == ~LaggingCaches /\ ~ExternalDeletes

LEMMA FreshCaches ==
    ASSUME Tidy, Settled
    PROVE  irCache = ir /\ prCache = pr
BY DEF Tidy, Settled

LEMMA ReconcileStep ==
    ASSUME Tidy, ExecutionInv, NEW k \in Requests, Reconcile(k)
    PROVE  DataInv' /\ HeldInv' /\ StageInv'
<1>1. irCache = ir
  BY FreshCaches DEF Reconcile, At
<1>2. DataInv'
  BY NothingWritten DEF Reconcile, clusters, ExecutionInv
<1>3. CASE irCache[k].live
  <2>1. /\ pc' = "EnsureFinalizersAreCalled" /\ cur' = k /\ mem' = ir[k] /\ ir' = ir
    BY <1>1, <1>3 DEF Reconcile, clusters
  <2>2. HeldInv'
    BY <1>1, <1>3, <2>1 DEF HeldInv, Held, Status
  <2> QED BY <1>2, <2>1, <2>2 DEF StageInv
<1>4. CASE ~irCache[k].live
  <2>1. pc' = "Idle"
    BY <1>4 DEF Reconcile, worker, At
  <2> QED BY <1>2, <2>1 DEF HeldInv, StageInv
<1> QED BY <1>3, <1>4

(* Whatever run is to be cancelled, no other run executes for the request. *)
LEMMA OnlyRunToCancel ==
    ASSUME Tidy, ExecutionInv, At("EnsureFinalizersAreCalled"), Ours \in mem.finalizers,
           NEW p \in RunToCancel, NEW q \in Runs, Executing(pr[q]), pr[q].owner = cur
    PROVE  p = q
<1>1. /\ prCache = pr /\ pc # "Idle" /\ cur \in Requests /\ mem \in InternalRequest
      /\ Exists(pr[q])
  BY FreshCaches DEF At, ExecutionInv, TypeOK, Executing
<1>2. ir[cur].pipelineRun = mem.pipelineRun
  BY <1>1 DEF ExecutionInv, HeldInv, Held, Status
<1>3. CASE mem.pipelineRun # NoRun
  <2>1. mem.pipelineRun \in Runs
    BY <1>1, <1>3 DEF InternalRequest
  <2>2. pr[mem.pipelineRun].owner = cur /\ Exists(pr[mem.pipelineRun])
    BY <1>1, <1>2, <1>3 DEF ExecutionInv, DataInv, NamedRunInv, Exists
  <2> QED BY <1>1, <1>3, <2>1, <2>2 DEF ExecutionInv, DataInv, OneVisibleRun, RunToCancel
<1>4. CASE mem.pipelineRun = NoRun
  <2>1. p \in CachedRuns(cur)
    BY <1>1, <1>4 DEF RunToCancel, GetInternalRequestPipelineRun, CachedRuns
  <2> QED BY <1>1, <2>1 DEF CachedRuns, ExecutionInv, DataInv, OneVisibleRun
<1> QED BY <1>3, <1>4

LEMMA CancelKeeps ==
    ASSUME TypeOK, DataInv, NEW p \in Runs, Exists(pr[p]), Cancel(p), ir' = ir
    PROVE  /\ DataInv'
           /\ ~Executing(pr'[p])
           /\ \A q \in Runs \ {p} : pr'[q] = pr[q]
<1> DEFINE run == [pr[p] EXCEPT !.cancelled = TRUE]
<1>1. pr[p] \in CreatedRun
  BY RunType
<1>2. run \in CreatedRun /\ run.gone = pr[p].gone /\ run.owner = pr[p].owner
      /\ run.forUid = pr[p].forUid /\ run.phase = pr[p].phase /\ run.cancelled
  BY <1>1 DEF CreatedRun
<1>3. ~Executing(run)
  BY <1>2 DEF Executing
<1>4. pr' = [pr EXCEPT ![p] = run]
  BY DEF Cancel
<1>5. pr'[p] = run /\ \A q \in Runs \ {p} : pr'[q] = pr[q]
  BY <1>4 DEF TypeOK
<1>6. DataInv'
  <2> HIDE DEF run
  <2> QED BY <1>2, <1>3, <1>4, RunWritten
<1> QED BY <1>3, <1>5, <1>6

LEMMA EnsureFinalizersAreCalledStep ==
    ASSUME Tidy, ExecutionInv, EnsureFinalizersAreCalled
    PROVE  DataInv' /\ HeldInv' /\ StageInv'
<1>1. pc = "EnsureFinalizersAreCalled" /\ ir' = ir /\ prCache = pr
  BY FreshCaches DEF EnsureFinalizersAreCalled, At
<1>2. CASE ~mem.deleting
  <2>1. Continue("EnsureFinalizerIsAdded") /\ UNCHANGED <<pr, mem>>
    BY <1>2 DEF EnsureFinalizersAreCalled
  <2>2. HeldInv'
    BY <1>1, <2>1, ContinueKeeps DEF ExecutionInv
  <2> QED BY <1>1, <2>1, <2>2, NothingWritten DEF ExecutionInv, StageInv, Continue
<1>3. CASE mem.deleting /\ Ours \notin mem.finalizers
  <2>1. Requeue /\ UNCHANGED pr
    BY <1>3 DEF EnsureFinalizersAreCalled
  <2> QED BY <1>1, <2>1, NothingWritten, FinishKeeps DEF ExecutionInv, Requeue
<1>4. CASE mem.deleting /\ Ours \in mem.finalizers
  <2>1. PICK p \in RunToCancel : cancelPipelineRun(p)
    BY <1>4 DEF EnsureFinalizersAreCalled
  <2>2. p \in Runs \cup {NoRun} /\ TypeOK /\ DataInv
    BY LoadedRuns DEF ExecutionInv
  <2>3. At("EnsureFinalizersAreCalled")
    BY DEF EnsureFinalizersAreCalled
  <2>4. CASE Requeue
    <3>1. UNCHANGED pr \/ (p \in Runs /\ Exists(pr[p]) /\ Cancel(p))
      BY <2>1, <2>2 DEF cancelPipelineRun
    <3>2. DataInv'
      BY <1>1, <2>2, <3>1, NothingWritten, CancelKeeps
    <3> QED BY <2>4, <3>2, FinishKeeps DEF Requeue
  <2>5. CASE Continue("RemoveFinalizer") /\ UNCHANGED mem
    <3>1. \/ UNCHANGED pr /\ (p = NoRun \/ IsDone(pr[p]))
          \/ p \in Runs /\ Exists(pr[p]) /\ Cancel(p)
          \/ Requeue
      BY <1>1, <2>1, <2>2 DEF cancelPipelineRun
    <3>2. pc' = "RemoveFinalizer" /\ cur' = cur /\ ~Requeue
      BY <2>5 DEF Continue, Requeue, Finish
    <3>3. DataInv' /\ \A q \in Runs : Executing(pr'[q]) => pr'[q].owner # cur
      <4>1. CASE UNCHANGED pr /\ (p = NoRun \/ IsDone(pr[p]))
        <5>1. \A q \in Runs : Executing(pr[q]) => p # q
          BY <4>1, RunsAssumption DEF Executing, IsDone
        <5> QED BY <1>1, <1>4, <2>2, <2>3, <4>1, <5>1, OnlyRunToCancel, NothingWritten
      <4>2. CASE p \in Runs /\ Exists(pr[p]) /\ Cancel(p)
        <5>1. /\ DataInv' /\ ~Executing(pr'[p])
              /\ \A q \in Runs \ {p} : pr'[q] = pr[q]
          BY <1>1, <2>2, <4>2, CancelKeeps
        <5> QED BY <1>4, <2>3, <5>1, OnlyRunToCancel
      <4> QED BY <3>1, <3>2, <4>1, <4>2
    <3>4. HeldInv'
      BY <1>1, <2>5, ContinueKeeps DEF ExecutionInv
    <3>5. StageInv'
      BY <1>4, <2>5, <3>2, <3>3 DEF StageInv
    <3> QED BY <3>3, <3>4, <3>5
  <2> QED BY <2>1, <2>4, <2>5 DEF cancelPipelineRun
<1> QED BY <1>2, <1>3, <1>4

LEMMA RemoveFinalizerStep ==
    ASSUME Tidy, ExecutionInv, RemoveFinalizer
    PROVE  DataInv' /\ HeldInv' /\ StageInv'
<1> DEFINE new == [mem EXCEPT !.finalizers = @ \ {Ours}]
<1>1. /\ pc = "RemoveFinalizer" /\ pr' = pr /\ PatchAndRequeue(new)
      /\ TypeOK /\ DataInv /\ Held /\ cur \in Requests
      /\ ir[cur] \in InternalRequest /\ mem \in InternalRequest
      /\ \A p \in Runs : Executing(pr[p]) => pr[p].owner # cur
  BY DEF RemoveFinalizer, At, ExecutionInv, StageInv, HeldInv, TypeOK, Operations
<1>2. /\ new \in InternalRequest /\ new.cond = mem.cond /\ new.startTime = mem.startTime
      /\ new.completionTime = mem.completionTime
      /\ new.pipelineRun = mem.pipelineRun /\ new.results = mem.results
  BY <1>1 DEF InternalRequest
<1> HIDE DEF new
<1>3. /\ Patched(new) \in InternalRequest /\ Patched(new).live
      /\ Patched(new).uid = ir[cur].uid
      /\ Status(Patched(new)) = Status(ir[cur])
  BY <1>1, <1>2, MergePatchFields DEF Patched, Merged, Held, Status
<1>4. ASSUME Store(Patched(new)) PROVE DataInv'
  <2>1. CASE Collected(Patched(new)) = Absent(ir[cur].uid)
    BY <1>1, <1>4, <2>1, RequestGone DEF Store
  <2>2. CASE Collected(Patched(new)) = Patched(new)
    BY <1>1, <1>3, <1>4, <2>2, MetadataWrite DEF Store, Held
  <2> QED BY <1>3, <2>1, <2>2 DEF Collected
<1>5. DataInv' /\ ((HeldInv' /\ StageInv') \/ Continue("Idle"))
  BY <1>1, <1>4, PatchKeeps
<1>6. Finish
  BY <1>1 DEF PatchAndRequeue, PatchFails, Requeue
<1> QED BY <1>5, <1>6, FinishKeeps

LEMMA EnsureFinalizerIsAddedStep ==
    ASSUME Tidy, ExecutionInv, EnsureFinalizerIsAdded
    PROVE  DataInv' /\ HeldInv' /\ StageInv'
<1> DEFINE new == [mem EXCEPT !.finalizers = @ \cup {Ours}]
           next == "EnsureRequestINotCompleted"
<1>1. /\ pc = "EnsureFinalizerIsAdded" /\ pr' = pr /\ TypeOK /\ DataInv /\ cur \in Requests
      /\ ir[cur] \in InternalRequest /\ mem \in InternalRequest
  BY DEF EnsureFinalizerIsAdded, At, ExecutionInv, TypeOK
<1>2. CASE Ours \in mem.finalizers
  <2>1. Continue(next) /\ UNCHANGED <<ir, mem>>
    BY <1>2 DEF EnsureFinalizerIsAdded
  <2>2. DataInv' /\ HeldInv'
    BY <1>1, <2>1, NothingWritten, ContinueKeeps DEF ExecutionInv
  <2> QED BY <1>2, <2>1, <2>2 DEF StageInv, Continue
<1>3. CASE Ours \notin mem.finalizers
  <2>1. PatchAndContinue(new, next)
    BY <1>3 DEF EnsureFinalizerIsAdded
  <2>2. /\ new \in InternalRequest /\ new.finalizers = mem.finalizers \cup {Ours}
        /\ new.cond = mem.cond /\ new.startTime = mem.startTime
        /\ new.completionTime = mem.completionTime
        /\ new.pipelineRun = mem.pipelineRun /\ new.results = mem.results
    BY <1>1 DEF InternalRequest, Finalizers
  <2> HIDE DEF new
  <2>3. /\ Patched(new) \in InternalRequest /\ Patched(new).live = ir[cur].live
        /\ Patched(new).uid = ir[cur].uid /\ Ours \in Patched(new).finalizers
        /\ Status(Patched(new)) = Status(ir[cur])
    BY <1>1, <1>3, <2>2, MergePatchFields DEF Patched, Merged, Status
  <2>4. Collected(Patched(new)) = Patched(new)
    BY <2>3 DEF Collected
  <2>5. ASSUME Store(Patched(new)) PROVE DataInv'
    BY <1>1, <2>3, <2>4, <2>5, MetadataWrite DEF Store
  <2>6. ASSUME PatchSucceeds(new), mem' = Patched(new), Continue(next)
        PROVE  HeldInv' /\ StageInv'
    <3>1. /\ ir'[cur] = Patched(new) /\ Patched(new).live
          /\ pc' = next /\ cur' = cur
      BY <1>1, <2>3, <2>4, <2>6 DEF PatchSucceeds, Store, Accepts, Continue, TypeOK
    <3>2. HeldInv'
      BY <2>3, <2>6, <3>1 DEF HeldInv, Held, Status
    <3> QED BY <2>3, <2>6, <3>1, <3>2 DEF StageInv
  <2> QED BY <1>1, <2>1, <2>5, <2>6, PatchKeeps
<1> QED BY <1>2, <1>3

LEMMA EnsureRequestINotCompletedStep ==
    ASSUME Tidy, ExecutionInv, EnsureRequestINotCompleted
    PROVE  DataInv' /\ HeldInv' /\ StageInv'
<1>1. /\ pc = "EnsureRequestINotCompleted" /\ ir' = ir /\ pr' = pr /\ DataInv'
      /\ Ours \in mem.finalizers /\ mem \in InternalRequest
  BY NothingWritten
  DEF EnsureRequestINotCompleted, At, clusters, ExecutionInv, StageInv, TypeOK, Operations
<1>2. CASE HasCompleted(mem)
  BY <1>1, <1>2, FinishKeeps DEF EnsureRequestINotCompleted, StopProcessing
<1>3. CASE ~HasCompleted(mem)
  <2>1. Continue("EnsureConfigIsLoaded") /\ mem' = mem
    BY <1>3 DEF EnsureRequestINotCompleted
  <2>2. mem.cond \in {NoCondition, Running}
    BY <1>1, <1>3, CompletedConditions DEF InternalRequest, Conditions
  <2>3. HeldInv'
    BY <1>1, <2>1, ContinueKeeps DEF ExecutionInv
  <2> QED BY <1>1, <2>1, <2>2, <2>3 DEF StageInv, Continue
<1> QED BY <1>2, <1>3

LEMMA EnsureConfigIsLoadedStep ==
    ASSUME Tidy, ExecutionInv, EnsureConfigIsLoaded
    PROVE  DataInv' /\ HeldInv' /\ StageInv'
<1>1. /\ pc = "EnsureConfigIsLoaded" /\ ir' = ir /\ pr' = pr /\ mem' = mem
      /\ Continue("EnsureRequestIsAllowed")
  BY DEF EnsureConfigIsLoaded, At, clusters
<1>2. DataInv' /\ HeldInv'
  BY <1>1, NothingWritten, ContinueKeeps DEF ExecutionInv
<1> QED BY <1>1, <1>2 DEF StageInv, Continue, ExecutionInv, Operations

LEMMA EnsureRequestIsAllowedStep ==
    ASSUME Tidy, ExecutionInv, EnsureRequestIsAllowed
    PROVE  DataInv' /\ HeldInv' /\ StageInv'
<1> DEFINE new == MarkRejected(mem)
<1>1. /\ pc = "EnsureRequestIsAllowed" /\ pr' = pr /\ TypeOK /\ DataInv /\ Held
      /\ cur \in Requests /\ mem \in InternalRequest /\ mem.cond \in {NoCondition, Running}
  BY DEF EnsureRequestIsAllowed, At, ExecutionInv, StageInv, HeldInv, TypeOK, Operations
<1>2. CASE Continue("EnsurePipelineRunIsCreated") /\ UNCHANGED <<ir, mem>>
  <2>1. DataInv' /\ HeldInv'
    BY <1>1, <1>2, NothingWritten, ContinueKeeps DEF ExecutionInv
  <2> QED BY <1>1, <1>2, <2>1 DEF StageInv, Continue, ExecutionInv, Operations
<1>3. CASE PatchAndStop(new)
  <2>1. ~HasCompleted(mem)
    BY <1>1, CompletedConditions, ConditionsDiffer
  <2>2. /\ new \in InternalRequest /\ new.finalizers = mem.finalizers
        /\ new.cond = Rejected /\ new.pipelineRun = mem.pipelineRun
    BY <1>1, <2>1, MarkType DEF MarkRejected, InternalRequest
  <2> HIDE DEF new
  <2>3. ASSUME Store(Patched(new)) PROVE DataInv'
    <3>1. /\ Patched(new) \in InternalRequest /\ Patched(new).live
          /\ Patched(new).uid = ir[cur].uid /\ Patched(new).finalizers = ir[cur].finalizers
          /\ Patched(new).cond = Rejected /\ Patched(new).pipelineRun = mem.pipelineRun
          /\ ir' = [ir EXCEPT ![cur] = Patched(new)]
      BY <1>1, <2>2, <2>3, HeldPatch DEF Store
    <3>2. /\ ir[cur].cond = mem.cond /\ ir[cur].pipelineRun = mem.pipelineRun
          /\ ir[cur].live /\ ir[cur].cond \notin Final
      BY <1>1, ConditionsDiffer DEF Held, Status, Final
    <3> HIDE DEF Patched
    <3> QED BY <1>1, <3>1, <3>2, ConditionsDiffer, StatusWrite
  <2>4. Finish
    BY <1>3 DEF PatchAndStop, PatchFails, Requeue, StopProcessing
  <2> QED BY <1>1, <1>3, <2>3, <2>4, PatchKeeps, FinishKeeps
<1> QED BY <1>2, <1>3 DEF EnsureRequestIsAllowed

LEMMA EnsurePipelineRunIsCreatedStep ==
    ASSUME Tidy, ExecutionInv, EnsurePipelineRunIsCreated
    PROVE  DataInv' /\ HeldInv' /\ StageInv'
<1>1. /\ pc = "EnsurePipelineRunIsCreated" /\ ir' = ir /\ prCache = pr
      /\ TypeOK /\ DataInv /\ Held /\ cur \in Requests /\ mem \in InternalRequest
      /\ mem.cond \in {NoCondition, Running} /\ Ours \in mem.finalizers
  BY FreshCaches
  DEF EnsurePipelineRunIsCreated, At, ExecutionInv, StageInv, HeldInv, TypeOK, Operations
<1>2. PICK p \in GetInternalRequestPipelineRun(cur) :
        \/ /\ p # NoRun
           /\ Continue(IF IsRunning(mem) THEN "EnsureStatusIsTracked"
                       ELSE "registerInternalRequestStatus")
           /\ UNCHANGED <<pr, mem>>
        \/ /\ p = NoRun /\ CreateRun
           /\ Continue("registerInternalRequestStatus")
           /\ UNCHANGED mem
        \/ /\ (p = NoRun /\ CreateRun) \/ UNCHANGED pr
           /\ Requeue
  BY DEF EnsurePipelineRunIsCreated
<1>3. ASSUME p = NoRun, CreateRun PROVE DataInv'
  <2>1. PICK q \in Runs : pr[q] = Unused /\ pr' = [pr EXCEPT ![q] = NewRun(cur, mem)]
    BY <1>3 DEF CreateRun
  <2>2. \A o \in Runs : Exists(pr[o]) => pr[o].owner # cur
    BY <1>1, <1>3, RunsAssumption DEF GetInternalRequestPipelineRun, CachedRuns
  <2>3. /\ ir[cur].live /\ ir[cur].uid = mem.uid /\ Ours \in ir[cur].finalizers
        /\ ir[cur].cond \notin Final
    BY <1>1, ConditionsDiffer DEF Held, Status, Final
  <2> QED BY <1>1, <2>1, <2>2, <2>3, RunCreated
<1>4. CASE Requeue
  BY <1>1, <1>2, <1>3, <1>4, NothingWritten, FinishKeeps DEF Requeue
<1>5. ASSUME NEW op \in {"EnsureStatusIsTracked", "registerInternalRequestStatus"},
             op = "EnsureStatusIsTracked" => IsRunning(mem), Continue(op), UNCHANGED mem
      PROVE  HeldInv' /\ StageInv'
  <2>1. HeldInv'
    BY <1>1, <1>5, ContinueKeeps DEF ExecutionInv
  <2>2. op = "EnsureStatusIsTracked" => mem.cond = Running
    BY <1>1, <1>5, CompletedConditions
  <2> QED BY <1>1, <1>5, <2>1, <2>2 DEF StageInv, Continue
<1> QED BY <1>1, <1>2, <1>3, <1>4, <1>5, NothingWritten

LEMMA registerInternalRequestStatusStep ==
    ASSUME Tidy, ExecutionInv, registerInternalRequestStatus
    PROVE  DataInv' /\ HeldInv' /\ StageInv'
<1> DEFINE new == MarkRunning(mem)
           next == "EnsureStatusIsTracked"
<1>1. /\ pc = "registerInternalRequestStatus" /\ pr' = pr /\ PatchAndContinue(new, next)
      /\ TypeOK /\ DataInv /\ Held /\ cur \in Requests /\ mem \in InternalRequest
      /\ mem.cond \in {NoCondition, Running} /\ Ours \in mem.finalizers
  BY DEF registerInternalRequestStatus, At, ExecutionInv, StageInv, HeldInv, TypeOK, Operations
<1>2. /\ ir[cur].cond = mem.cond /\ ir[cur].startTime = mem.startTime
      /\ ir[cur].pipelineRun = mem.pipelineRun /\ ir[cur].results = mem.results
      /\ ir[cur].live /\ ir[cur].cond \notin Final
      /\ mem.results = NoRun /\ (mem.cond = Running => mem.startTime)
  BY <1>1, ConditionsDiffer DEF Held, Status, Final, DataInv, StatusInv
<1>3. ~HasCompleted(mem) /\ (IsRunning(mem) <=> mem.cond = Running)
  BY <1>1, CompletedConditions, ConditionsDiffer
<1>4. /\ new \in InternalRequest /\ new.finalizers = mem.finalizers
      /\ new.cond = Running /\ new.startTime
      /\ new.pipelineRun = mem.pipelineRun /\ new.results = mem.results
  <2>1. new = [mem EXCEPT !.cond = Running, !.startTime = mem.startTime \/ ~IsRunning(mem)]
    BY <1>3 DEF MarkRunning
  <2> QED BY <1>1, <1>2, <1>3, <2>1, MarkType DEF InternalRequest
<1> HIDE DEF new
<1>5. /\ Patched(new) \in InternalRequest /\ Patched(new).live
      /\ Patched(new).uid = ir[cur].uid /\ Patched(new).finalizers = ir[cur].finalizers
      /\ Patched(new).cond = Running /\ Patched(new).startTime
      /\ Patched(new).pipelineRun = mem.pipelineRun /\ Patched(new).results = NoRun
      /\ Collected(Patched(new)) = Patched(new)
  BY <1>1, <1>2, <1>4, HeldPatch
<1>6. ASSUME Store(Patched(new)) PROVE DataInv'
  <2>1. ir' = [ir EXCEPT ![cur] = Patched(new)]
    BY <1>5, <1>6 DEF Store
  <2> HIDE DEF Patched
  <2> QED BY <1>1, <1>2, <1>5, <2>1, ConditionsDiffer, StatusWrite
<1>7. ASSUME PatchSucceeds(new), mem' = Patched(new), Continue(next)
      PROVE  HeldInv' /\ StageInv'
  <2>1. ir'[cur] = Patched(new) /\ pc' = next /\ cur' = cur
    BY <1>1, <1>5, <1>7 DEF PatchSucceeds, Store, Continue, TypeOK
  <2>2. HeldInv'
    BY <1>1, <1>5, <1>7, <2>1 DEF HeldInv, Held, Status
  <2>3. Ours \in Patched(new).finalizers
    BY <1>1, <1>5 DEF Held
  <2> QED BY <1>5, <1>7, <2>1, <2>2, <2>3 DEF StageInv
<1> QED BY <1>1, <1>6, <1>7, PatchKeeps

(* What tracking makes of a running request and a run of its name.         *)
IsTracked(new, req, p, run) ==
    /\ new \in InternalRequest
    /\ new.finalizers = req.finalizers /\ new.startTime = req.startTime
    /\ new.pipelineRun = p
    /\ \/ new.cond = Running /\ new.results = req.results /\ ~IsDone(run)
       \/ new.cond = Succeeded /\ new.results = p /\ run.phase = "succeeded"
       \/ new.cond = Failed /\ new.results = req.results /\ run.phase = "failed"

LEMMA TrackedStatus ==
    ASSUME NEW req \in InternalRequest, NEW p \in Runs, NEW run,
           req.cond = Running
    PROVE  IsTracked(Tracked(req, p, run), req, p, run)
<1> USE DEF IsTracked
<1> DEFINE tracked == [req EXCEPT !.pipelineRun = p]
           done == [tracked EXCEPT !.results = p]
<1>1. /\ tracked \in InternalRequest /\ tracked.cond = Running
      /\ tracked.finalizers = req.finalizers /\ tracked.startTime = req.startTime
      /\ tracked.pipelineRun = p /\ tracked.results = req.results
  BY DEF InternalRequest
<1>2. /\ done \in InternalRequest /\ done.cond = Running
      /\ done.finalizers = req.finalizers /\ done.startTime = req.startTime
      /\ done.pipelineRun = p /\ done.results = p
  BY DEF InternalRequest
<1> HIDE DEF tracked, done
<1>3. ~HasCompleted(tracked) /\ ~HasCompleted(done)
  BY <1>1, <1>2, CompletedConditions, ConditionsDiffer
<1>4. /\ MarkSucceeded(done) = [done EXCEPT !.cond = Succeeded, !.completionTime = TRUE]
      /\ MarkFailed(tracked) = [tracked EXCEPT !.cond = Failed, !.completionTime = TRUE]
  BY <1>3 DEF MarkSucceeded, MarkFailed
<1>5. CASE ~IsDone(run)
  BY <1>1, <1>5, TrackedType DEF Tracked, tracked
<1>6. CASE IsDone(run) /\ run.phase = "succeeded"
  <2>1. Tracked(req, p, run) = MarkSucceeded(done)
    BY <1>6 DEF Tracked, done, tracked
  <2> QED BY <1>2, <1>4, <1>6, <2>1, TrackedType DEF InternalRequest
<1>7. CASE IsDone(run) /\ run.phase = "failed"
  <2>1. Tracked(req, p, run) = MarkFailed(tracked)
    BY <1>7 DEF Tracked, tracked
  <2> QED BY <1>1, <1>4, <1>7, <2>1, TrackedType DEF InternalRequest
<1> QED BY <1>5, <1>6, <1>7 DEF IsDone

LEMMA EnsureStatusIsTrackedStep ==
    ASSUME Tidy, ExecutionInv, EnsureStatusIsTracked
    PROVE  DataInv' /\ HeldInv' /\ StageInv'
<1> DEFINE next == "EnsurePipelineRunIsDeleted"
<1>1. /\ pc = "EnsureStatusIsTracked" /\ pr' = pr /\ prCache = pr
      /\ TypeOK /\ DataInv /\ Held /\ cur \in Requests /\ mem \in InternalRequest
      /\ mem.cond = Running /\ Ours \in mem.finalizers
  BY FreshCaches
  DEF EnsureStatusIsTracked, At, ExecutionInv, StageInv, HeldInv, TypeOK, Operations
<1>2. PICK p \in GetInternalRequestPipelineRun(cur) :
        IF p = NoRun
        THEN Continue(next) /\ UNCHANGED <<ir, mem>>
        ELSE PatchAndContinue(Tracked(mem, p, prCache[p]), next)
  BY DEF EnsureStatusIsTracked
<1>3. CASE p = NoRun
  <2>1. DataInv' /\ HeldInv'
    BY <1>1, <1>2, <1>3, NothingWritten, ContinueKeeps DEF ExecutionInv
  <2> QED BY <1>1, <1>2, <1>3, <2>1 DEF StageInv, Continue
<1>4. CASE p # NoRun
  <2> DEFINE new == Tracked(mem, p, pr[p])
  <2>1. p \in Runs /\ Exists(pr[p]) /\ pr[p].owner = cur
    BY <1>1, <1>4 DEF GetInternalRequestPipelineRun, CachedRuns
  <2>2. PatchAndContinue(new, next)
    BY <1>1, <1>2, <1>4
  <2>3. /\ ir[cur].cond = mem.cond /\ ir[cur].startTime = mem.startTime
        /\ ir[cur].pipelineRun = mem.pipelineRun /\ ir[cur].results = mem.results
        /\ ir[cur].live /\ ir[cur].cond \notin Final
        /\ mem.results = NoRun /\ mem.startTime
    BY <1>1, ConditionsDiffer DEF Held, Status, Final, DataInv, StatusInv
  <2>4. /\ new \in InternalRequest
        /\ new.finalizers = mem.finalizers /\ new.startTime
        /\ new.pipelineRun = p
        /\ \/ new.cond = Running /\ new.results = NoRun
           \/ new.cond = Succeeded /\ new.results = p /\ pr[p].phase = "succeeded"
           \/ new.cond = Failed /\ new.results = NoRun /\ pr[p].phase = "failed"
    <3>1. IsTracked(new, mem, p, pr[p])
      BY <1>1, <2>1, TrackedStatus
    <3> HIDE DEF new
    <3> QED BY <2>3, <3>1 DEF IsTracked
  <2> HIDE DEF new
  <2>5. /\ Patched(new) \in InternalRequest /\ Patched(new).live
        /\ Patched(new).uid = ir[cur].uid /\ Patched(new).finalizers = ir[cur].finalizers
        /\ Patched(new).cond = new.cond /\ Patched(new).startTime
        /\ Patched(new).pipelineRun = p /\ Patched(new).results = new.results
        /\ Collected(Patched(new)) = Patched(new)
    BY <1>1, <2>4, HeldPatch
  <2>6. ASSUME Store(Patched(new)) PROVE DataInv'
    <3>1. ir' = [ir EXCEPT ![cur] = Patched(new)]
      BY <2>5, <2>6 DEF Store
    <3> DEFINE r == Patched(new)
    <3>2. /\ r.cond \in {NoCondition, Running, Failed} => r.results = NoRun
          /\ r.cond = Succeeded => /\ r.pipelineRun \in Runs /\ r.results = r.pipelineRun
                                   /\ pr[r.pipelineRun].phase = "succeeded"
          /\ r.cond = Failed => /\ r.pipelineRun \in Runs
                                /\ pr[r.pipelineRun].phase = "failed"
      BY <2>1, <2>4, <2>5, ConditionsDiffer
    <3>3. r.pipelineRun \in Runs /\ Exists(pr[r.pipelineRun]) /\ pr[r.pipelineRun].owner = cur
      BY <2>1, <2>5
    <3>4. r \in InternalRequest /\ r.uid = ir[cur].uid /\ r.live = ir[cur].live
          /\ r.finalizers = ir[cur].finalizers /\ r.startTime
          /\ ir' = [ir EXCEPT ![cur] = r]
      BY <2>3, <2>5, <3>1
    <3> HIDE DEF r
    <3> QED BY <1>1, <2>3, <3>2, <3>3, <3>4, StatusWrite
  <2>7. ASSUME PatchSucceeds(new), mem' = Patched(new), Continue(next)
        PROVE  HeldInv' /\ StageInv'
    <3>1. ir'[cur] = Patched(new) /\ pc' = next /\ cur' = cur
      BY <1>1, <2>5, <2>7 DEF PatchSucceeds, Store, Continue, TypeOK
    <3>2. HeldInv'
      BY <1>1, <2>5, <2>7, <3>1 DEF HeldInv, Held, Status
    <3>3. Ours \in Patched(new).finalizers
      BY <1>1, <2>5 DEF Held
    <3> QED BY <2>7, <3>1, <3>2, <3>3 DEF StageInv
  <2> QED BY <1>1, <2>2, <2>6, <2>7, PatchKeeps
<1> QED BY <1>3, <1>4

LEMMA EnsurePipelineRunIsDeletedStep ==
    ASSUME Tidy, ExecutionInv, EnsurePipelineRunIsDeleted
    PROVE  DataInv' /\ HeldInv' /\ StageInv'
<1>1. /\ pc = "EnsurePipelineRunIsDeleted" /\ ir' = ir /\ prCache = pr
      /\ TypeOK /\ DataInv /\ Held /\ cur \in Requests /\ mem \in InternalRequest
  BY FreshCaches
  DEF EnsurePipelineRunIsDeleted, At, ExecutionInv, StageInv, HeldInv, TypeOK, Operations
<1>2. Finish
  BY DEF EnsurePipelineRunIsDeleted, StopProcessing, Requeue
<1>3. \/ UNCHANGED pr
      \/ /\ HasCompleted(mem)
         /\ \E p \in Runs : Exists(pr[p]) /\ pr[p].owner = cur /\ Delete(p)
  BY <1>1 DEF EnsurePipelineRunIsDeleted, GetInternalRequestPipelineRun, CachedRuns
<1>4. HasCompleted(mem) => ir[cur].cond \in Final
  BY <1>1, CompletedConditions DEF Held, Status, Final
<1>5. DataInv'
  BY <1>1, <1>3, <1>4, NothingWritten, RunDeleted
<1> QED BY <1>2, <1>5, FinishKeeps

-----------------------------------------------------------------------------
(* The steps of everybody else.                                            *)

(* Each of the steps that write nothing to the clusters and leave the      *)
(* worker alone or idle.                                                   *)
LEMMA QuietStep ==
    ASSUME ExecutionInv,
           \/ ReadFails
           \/ \E k \in Requests : DeliverInternalRequest(k)
           \/ \E p \in Runs : DeliverPipelineRun(p)
           \/ RelistInternalRequests
           \/ RelistPipelineRuns
           \/ Restart
           \/ ChangeConfig
           \/ UNCHANGED vars
    PROVE  DataInv' /\ HeldInv' /\ StageInv'
<1>1. ir' = ir /\ pr' = pr
  BY DEF ReadFails, DeliverInternalRequest, DeliverPipelineRun, RelistInternalRequests,
         RelistPipelineRuns, Restart, ChangeConfig, vars, clusters
<1>2. Finish \/ UNCHANGED worker
  BY DEF ReadFails, DeliverInternalRequest, DeliverPipelineRun, RelistInternalRequests,
         RelistPipelineRuns, Restart, ChangeConfig, vars, environment, Requeue
<1>3. DataInv'
  BY <1>1, NothingWritten DEF ExecutionInv
<1>4. UNCHANGED worker => HeldInv' /\ StageInv'
  BY <1>1, OthersKeep DEF ExecutionInv
<1> QED BY <1>2, <1>3, <1>4, FinishKeeps

LEMMA CreateRequestStep ==
    ASSUME ExecutionInv, NEW k \in Requests, CreateRequest(k)
    PROVE  DataInv' /\ HeldInv' /\ StageInv'
<1>1. PICK spec \in Specs, finalizers \in {{}, {Other}} :
        ir' = [ir EXCEPT ![k] = NewRequest(ir[k].uid + 1, spec, finalizers)]
  BY DEF CreateRequest
<1>2. ~ir[k].live /\ pr' = pr /\ UNCHANGED worker /\ finalizers \in SUBSET Finalizers
  BY DEF CreateRequest, environment, Finalizers
<1>3. DataInv'
  BY <1>1, <1>2, RequestCreated DEF ExecutionInv
<1>4. \A j \in Requests : ir[j].live => ir'[j] = ir[j]
  BY <1>1, <1>2 DEF ExecutionInv, TypeOK
<1> QED BY <1>2, <1>3, <1>4, OthersKeep DEF ExecutionInv

(* A user's write to a request that keeps the controller's finalizer,      *)
(* should it be there; without any finalizer the object may go away.       *)
LEMMA UserWrite ==
    ASSUME ExecutionInv, NEW k \in Requests, NEW r \in InternalRequest,
           ir' = [ir EXCEPT ![k] = Collected(r)], pr' = pr, UNCHANGED worker,
           Status(r) = Status(ir[k]), r.uid = ir[k].uid, r.live = ir[k].live,
           Ours \in ir[k].finalizers => Ours \in r.finalizers
    PROVE  DataInv' /\ HeldInv' /\ StageInv'
<1>1. CASE Collected(r) = r
  <2>1. ir' = [ir EXCEPT ![k] = r]
    BY <1>1
  <2>2. DataInv'
    BY <2>1, MetadataWrite DEF ExecutionInv
  <2>3. \A j \in Requests :
          /\ ir[j].live => ir'[j].live
          /\ ir'[j].uid = ir[j].uid
          /\ Ours \in ir[j].finalizers => Ours \in ir'[j].finalizers
          /\ Status(ir'[j]) = Status(ir[j])
    BY <2>1 DEF ExecutionInv, TypeOK
  <2> QED BY <2>2, <2>3, OthersKeep DEF ExecutionInv
<1>2. CASE Collected(r) # r
  <2>1. ir' = [ir EXCEPT ![k] = Absent(ir[k].uid)] /\ Ours \notin ir[k].finalizers
    BY <1>2 DEF Collected
  <2>2. \A p \in Runs : Executing(pr[p]) => pr[p].owner # k
    BY <2>1 DEF ExecutionInv, DataInv, NoOrphanRun
  <2>3. DataInv'
    BY <2>1, <2>2, RequestGone DEF ExecutionInv
  <2>4. \A j \in Requests : Ours \in ir[j].finalizers => ir'[j] = ir[j]
    BY <2>1 DEF ExecutionInv, TypeOK
  <2> QED BY <2>3, <2>4, OthersKeep DEF ExecutionInv
<1> QED BY <1>1, <1>2

LEMMA EditSpecStep ==
    ASSUME ExecutionInv, NEW k \in Requests, EditSpec(k)
    PROVE  DataInv' /\ HeldInv' /\ StageInv'
<1>1. PICK spec \in Specs :
        ir' = [ir EXCEPT ![k].spec = spec, ![k].generation = ir[k].generation + 1]
  BY DEF EditSpec
<1> DEFINE r == [ir[k] EXCEPT !.spec = spec, !.generation = ir[k].generation + 1]
<1>2. ir[k] \in InternalRequest /\ ir[k].generation + 1 \in Nat
  BY DEF ExecutionInv, TypeOK, InternalRequest
<1>3. /\ r \in InternalRequest /\ r.uid = ir[k].uid /\ r.live = ir[k].live
      /\ r.finalizers = ir[k].finalizers
  BY <1>2 DEF InternalRequest
<1>4. Status(r) = Status(ir[k])
  BY <1>2 DEF InternalRequest, Status
<1>5. ir' = [ir EXCEPT ![k] = r] /\ pr' = pr /\ UNCHANGED worker
  BY <1>1 DEF EditSpec, environment, ExecutionInv, TypeOK
<1> HIDE DEF r
<1>6. DataInv'
  BY <1>3, <1>4, <1>5, MetadataWrite DEF ExecutionInv
<1>7. \A j \in Requests :
        /\ ir'[j].live = ir[j].live /\ ir'[j].uid = ir[j].uid
        /\ ir'[j].finalizers = ir[j].finalizers /\ Status(ir'[j]) = Status(ir[j])
  BY <1>3, <1>4, <1>5 DEF ExecutionInv, TypeOK
<1> QED BY <1>5, <1>6, <1>7, OthersKeep DEF ExecutionInv

LEMMA DeleteRequestStep ==
    ASSUME ExecutionInv, NEW k \in Requests, DeleteRequest(k)
    PROVE  DataInv' /\ HeldInv' /\ StageInv'
<1> DEFINE r == [ir[k] EXCEPT !.deleting = TRUE]
<1>1. ir[k] \in InternalRequest
  BY DEF ExecutionInv, TypeOK
<1>2. /\ r \in InternalRequest /\ r.uid = ir[k].uid /\ r.live = ir[k].live
      /\ r.finalizers = ir[k].finalizers
  BY <1>1 DEF InternalRequest
<1>3. Status(r) = Status(ir[k])
  BY <1>1 DEF InternalRequest, Status
<1>4. ir' = [ir EXCEPT ![k] = Collected(r)] /\ pr' = pr /\ UNCHANGED worker
  BY DEF DeleteRequest, environment
<1> HIDE DEF r
<1> QED BY <1>2, <1>3, <1>4, UserWrite

LEMMA AddOtherStep ==
    ASSUME ExecutionInv, NEW k \in Requests, AddOther(k)
    PROVE  DataInv' /\ HeldInv' /\ StageInv'
<1> DEFINE r == [ir[k] EXCEPT !.finalizers = ir[k].finalizers \cup {Other}]
<1>1. ir[k] \in InternalRequest
  BY DEF ExecutionInv, TypeOK
<1>2. /\ r \in InternalRequest /\ r.uid = ir[k].uid /\ r.live = ir[k].live
      /\ Ours \in ir[k].finalizers => Ours \in r.finalizers
      /\ r.deleting = ir[k].deleting
  BY <1>1 DEF InternalRequest, Finalizers
<1>3. Status(r) = Status(ir[k])
  BY <1>1 DEF InternalRequest, Status
<1>4. ir' = [ir EXCEPT ![k] = r] /\ ~ir[k].deleting /\ pr' = pr /\ UNCHANGED worker
  BY DEF AddOther, environment, ExecutionInv, TypeOK
<1> HIDE DEF r
<1>5. ir' = [ir EXCEPT ![k] = Collected(r)]
  BY <1>2, <1>4 DEF Collected
<1> QED BY <1>2, <1>3, <1>4, <1>5, UserWrite

LEMMA RemoveOtherStep ==
    ASSUME ExecutionInv, NEW k \in Requests, RemoveOther(k)
    PROVE  DataInv' /\ HeldInv' /\ StageInv'
<1> DEFINE r == [ir[k] EXCEPT !.finalizers = ir[k].finalizers \ {Other}]
<1>1. ir[k] \in InternalRequest
  BY DEF ExecutionInv, TypeOK
<1>2. /\ r \in InternalRequest /\ r.uid = ir[k].uid /\ r.live = ir[k].live
      /\ Ours \in ir[k].finalizers => Ours \in r.finalizers
  BY <1>1 DEF InternalRequest, Ours, Other
<1>3. Status(r) = Status(ir[k])
  BY <1>1 DEF InternalRequest, Status
<1>4. ir' = [ir EXCEPT ![k] = Collected(r)] /\ pr' = pr /\ UNCHANGED worker
  BY DEF RemoveOther, environment
<1> HIDE DEF r
<1> QED BY <1>2, <1>3, <1>4, UserWrite

LEMMA FinishRunStep ==
    ASSUME ExecutionInv, NEW p \in Runs, FinishRun(p)
    PROVE  DataInv' /\ HeldInv' /\ StageInv'
<1>1. PICK phase \in {"succeeded", "failed"} : pr' = [pr EXCEPT ![p].phase = phase]
  BY DEF FinishRun
<1> DEFINE run == [pr[p] EXCEPT !.phase = phase]
<1>2. Exists(pr[p]) /\ pr[p].phase = "active" /\ ir' = ir /\ UNCHANGED worker
  BY DEF FinishRun, environment
<1>3. pr[p] \in CreatedRun
  BY <1>2, RunType DEF ExecutionInv
<1>4. /\ run \in CreatedRun /\ run.gone = pr[p].gone /\ run.owner = pr[p].owner
      /\ run.forUid = pr[p].forUid /\ run.phase # "active"
  BY <1>3 DEF CreatedRun
<1>5. pr' = [pr EXCEPT ![p] = run] /\ ~Executing(run)
  BY <1>1, <1>4 DEF Executing
<1> HIDE DEF run
<1>6. DataInv'
  BY <1>2, <1>4, <1>5, RunWritten DEF ExecutionInv
<1>7. \A q \in Runs : Executing(pr'[q]) => pr'[q] = pr[q]
  BY <1>5 DEF ExecutionInv, TypeOK
<1> QED BY <1>2, <1>6, <1>7, OthersKeep DEF ExecutionInv

(* Every step keeps the invariant.                                         *)
LEMMA ExecutionStep ==
    ASSUME Tidy, ExecutionInv, [Next]_vars
    PROVE  ExecutionInv'
<1> SUFFICES DataInv' /\ HeldInv' /\ StageInv'
  BY TypeStep DEF ExecutionInv
<1>1. CASE \E k \in Requests : Reconcile(k)
  BY <1>1, ReconcileStep
<1>2. CASE Operation
  BY <1>2, EnsureFinalizersAreCalledStep, RemoveFinalizerStep, EnsureFinalizerIsAddedStep,
     EnsureRequestINotCompletedStep, EnsureConfigIsLoadedStep, EnsureRequestIsAllowedStep,
     EnsurePipelineRunIsCreatedStep, registerInternalRequestStatusStep,
     EnsureStatusIsTrackedStep, EnsurePipelineRunIsDeletedStep
  DEF Operation
<1>3. CASE ReadFails \/ Watch \/ Restart \/ ChangeConfig \/ UNCHANGED vars
  BY <1>3, QuietStep DEF Watch
<1>4. CASE Users
  BY <1>4, CreateRequestStep, EditSpecStep, DeleteRequestStep, AddOtherStep,
     RemoveOtherStep, QuietStep
  DEF Users
<1>5. CASE Tekton
  BY <1>5, FinishRunStep DEF Tekton, DeleteRun, Tidy
<1> QED BY <1>1, <1>2, <1>3, <1>4, <1>5 DEF Next

LEMMA ExecutionInit ==
    ASSUME Init
    PROVE  ExecutionInv
<1>1. TypeOK
  BY TypeInit
<1>2. /\ \A k \in Requests : /\ ~ir[k].live /\ ir[k].cond = NoCondition
                             /\ ir[k].pipelineRun = NoRun /\ ir[k].results = NoRun
      /\ \A p \in Runs : pr[p].phase = "unused"
  BY DEF Init, Absent, NewRequest, Unused
<1>3. DataInv
  BY <1>2, ConditionsDiffer
  DEF DataInv, StatusInv, NamedRunInv, RunAgeInv, OneVisibleRun, AtMostOneExecution,
      NoOrphanRun, OutcomeMatchesRun, Executing, Exists
<1>4. HeldInv /\ StageInv
  BY DEF Init, HeldInv, StageInv
<1> QED BY <1>1, <1>3, <1>4 DEF ExecutionInv

-----------------------------------------------------------------------------
(* The inductive invariant holds, and what follows from it.                *)

(* The invariant of the worker's copy, of the stages of a reconcile and of *)
(* the runs of a name holds when the caches follow the clusters.           *)
THEOREM ExecutionCorrect ==
    ASSUME Tidy
    PROVE  Spec => []ExecutionInv
<1>1. Init => ExecutionInv
  BY ExecutionInit
<1>2. ExecutionInv /\ [Next]_vars => ExecutionInv'
  BY ExecutionStep
<1> QED BY <1>1, <1>2, PTL DEF Spec

(* However its reconcile fails, is repeated or is cut off, a request is    *)
(* executed by one PipelineRun at most.                                    *)
THEOREM ExecutesOnce ==
    ASSUME Tidy
    PROVE  Spec => []AtMostOneExecution
<1>1. ExecutionInv => AtMostOneExecution
  BY DEF ExecutionInv, DataInv
<1> QED BY <1>1, ExecutionCorrect, PTL

(* A PipelineRun that executes has its request, which cannot go away.      *)
THEOREM NoRunIsOrphaned ==
    ASSUME Tidy
    PROVE  Spec => []NoOrphanRun
<1>1. ExecutionInv => NoOrphanRun
  BY DEF ExecutionInv, DataInv
<1> QED BY <1>1, ExecutionCorrect, PTL

(* The success or failure a request reports is that of the run it names.   *)
THEOREM OutcomeIsTrue ==
    ASSUME Tidy
    PROVE  Spec => []OutcomeMatchesRun
<1>1. ExecutionInv => OutcomeMatchesRun
  BY DEF ExecutionInv, DataInv
<1> QED BY <1>1, ExecutionCorrect, PTL

-----------------------------------------------------------------------------
(* A completed request keeps its status.                                   *)

KeepsStatus(k) ==
    ir[k].cond \in Final /\ ir'[k].live => Status(ir'[k]) = Status(ir[k])

(* A write to one request keeps the status of all, if it is of no          *)
(* completed request or does not change the status.                        *)
LEMMA WriteKeepsStatus ==
    ASSUME TypeOK, NEW k \in Requests, NEW r, ir' = [ir EXCEPT ![k] = Collected(r)],
           ir[k].cond \notin Final \/ Status(r) = Status(ir[k])
    PROVE  \A j \in Requests : KeepsStatus(j)
<1>1. ir'[k] = Collected(r) /\ \A j \in Requests \ {k} : ir'[j] = ir[j]
  BY DEF TypeOK
<1>2. Collected(r).live => Collected(r) = r
  BY DEF Collected, Absent, NewRequest
<1> QED BY <1>1, <1>2 DEF KeepsStatus

(* So does a patch of the worker's copy, if it changes no status or the    *)
(* request has not completed.                                              *)
LEMMA PatchKeepsStatus ==
    ASSUME TypeOK, pc # "Idle", NEW new \in InternalRequest, NEW op,
           \/ ir[cur].cond \notin Final
           \/ Status(new) = Status(mem),
           \/ PatchAndContinue(new, op)
           \/ PatchAndStop(new)
           \/ PatchAndRequeue(new)
    PROVE  \A j \in Requests : KeepsStatus(j)
<1>1. cur \in Requests /\ ir[cur] \in InternalRequest /\ mem \in InternalRequest
  BY DEF TypeOK
<1>2. ir' = ir \/ Store(Patched(new))
  BY DEF PatchAndContinue, PatchAndStop, PatchAndRequeue, PatchSucceeds, PatchFails
<1>3. Status(new) = Status(mem) => Status(Patched(new)) = Status(ir[cur])
  BY <1>1, MergePatchFields DEF Patched, Merged, Status
<1>4. CASE ir' = ir
  BY <1>4 DEF KeepsStatus, Status
<1>5. CASE Store(Patched(new))
  <2>1. ir' = [ir EXCEPT ![cur] = Collected(Patched(new))]
    BY <1>5 DEF Store
  <2> QED BY <1>1, <1>3, <2>1, WriteKeepsStatus
<1> QED BY <1>2, <1>4, <1>5

(* The worker marks its copy only while the request it holds is open.      *)
LEMMA OpenWhileHeld ==
    ASSUME ExecutionInv,
           pc \in {"EnsureRequestIsAllowed", "registerInternalRequestStatus",
                   "EnsureStatusIsTracked"}
    PROVE  ir[cur].cond \notin Final /\ TypeOK /\ pc # "Idle" /\ mem \in InternalRequest
<1>1. Held /\ mem.cond \in {NoCondition, Running}
  BY DEF ExecutionInv, HeldInv, StageInv, Operations
<1>2. ir[cur].cond = mem.cond
  BY <1>1 DEF Held, Status
<1> QED BY <1>1, <1>2, ConditionsDiffer DEF Final, ExecutionInv, TypeOK

LEMMA FinalizerWritesKeepStatus ==
    ASSUME ExecutionInv, RemoveFinalizer \/ EnsureFinalizerIsAdded, ir' # ir
    PROVE  \A j \in Requests : KeepsStatus(j)
<1>1. TypeOK /\ pc # "Idle" /\ mem \in InternalRequest
  BY DEF ExecutionInv, TypeOK, RemoveFinalizer, EnsureFinalizerIsAdded, At
<1>2. CASE RemoveFinalizer
  <2> DEFINE new == [mem EXCEPT !.finalizers = @ \ {Ours}]
  <2>1. new \in InternalRequest /\ PatchAndRequeue(new)
    BY <1>1, <1>2 DEF InternalRequest, RemoveFinalizer
  <2>2. Status(new) = Status(mem)
    BY <1>1 DEF InternalRequest, Status
  <2> HIDE DEF new
  <2> QED BY <1>1, <2>1, <2>2, PatchKeepsStatus
<1>3. CASE EnsureFinalizerIsAdded
  <2> DEFINE new == [mem EXCEPT !.finalizers = @ \cup {Ours}]
  <2>1. new \in InternalRequest
    BY <1>1 DEF InternalRequest, Finalizers
  <2>2. PatchAndContinue(new, "EnsureRequestINotCompleted")
    BY <1>3 DEF EnsureFinalizerIsAdded
  <2>3. Status(new) = Status(mem)
    BY <1>1 DEF InternalRequest, Status
  <2> HIDE DEF new
  <2> QED BY <1>1, <2>1, <2>2, <2>3, PatchKeepsStatus
<1> QED BY <1>2, <1>3

LEMMA StatusWritesKeepStatus ==
    ASSUME Tidy, ExecutionInv, ir' # ir,
           EnsureRequestIsAllowed \/ registerInternalRequestStatus \/ EnsureStatusIsTracked
    PROVE  \A j \in Requests : KeepsStatus(j)
<1>1. ir[cur].cond \notin Final /\ TypeOK /\ pc # "Idle" /\ mem \in InternalRequest
  BY OpenWhileHeld
  DEF EnsureRequestIsAllowed, registerInternalRequestStatus, EnsureStatusIsTracked, At
<1>2. CASE EnsureRequestIsAllowed
  <2>1. PatchAndStop(MarkRejected(mem))
    BY <1>2 DEF EnsureRequestIsAllowed
  <2> QED BY <1>1, <2>1, MarkType, PatchKeepsStatus
<1>3. CASE registerInternalRequestStatus
  <2>1. PatchAndContinue(MarkRunning(mem), "EnsureStatusIsTracked")
    BY <1>3 DEF registerInternalRequestStatus
  <2> QED BY <1>1, <2>1, MarkType, PatchKeepsStatus
<1>4. CASE EnsureStatusIsTracked
  <2>1. PICK p \in GetInternalRequestPipelineRun(cur) :
          p # NoRun /\ PatchAndContinue(Tracked(mem, p, prCache[p]),
                                        "EnsurePipelineRunIsDeleted")
    BY <1>4 DEF EnsureStatusIsTracked
  <2>2. Tracked(mem, p, prCache[p]) \in InternalRequest
    BY <1>1, <2>1, LoadedRuns, TrackedType
  <2> QED BY <1>1, <2>1, <2>2, PatchKeepsStatus
<1> QED BY <1>2, <1>3, <1>4

LEMMA UserWritesKeepStatus ==
    ASSUME ExecutionInv, ir' # ir, NEW k \in Requests,
           \/ CreateRequest(k) \/ EditSpec(k) \/ DeleteRequest(k)
           \/ AddOther(k) \/ RemoveOther(k)
    PROVE  \A j \in Requests : KeepsStatus(j)
<1>1. TypeOK /\ ir[k] \in InternalRequest
  BY DEF ExecutionInv, TypeOK
<1>2. CASE CreateRequest(k)
  <2>1. PICK r : ir' = [ir EXCEPT ![k] = r]
    BY <1>2 DEF CreateRequest
  <2>2. ir[k].cond \notin Final
    BY <1>2, ConditionsDiffer DEF CreateRequest, ExecutionInv, DataInv, StatusInv, Final
  <2> QED BY <1>1, <2>1, <2>2 DEF KeepsStatus, TypeOK
<1>3. CASE EditSpec(k)
  <2>1. PICK spec \in Specs :
          ir' = [ir EXCEPT ![k].spec = spec, ![k].generation = ir[k].generation + 1]
    BY <1>3 DEF EditSpec
  <2> DEFINE r == [ir[k] EXCEPT !.spec = spec, !.generation = ir[k].generation + 1]
  <2>2. Status(r) = Status(ir[k])
    BY <1>1 DEF InternalRequest, Status
  <2>3. ir'[k] = r /\ \A j \in Requests \ {k} : ir'[j] = ir[j]
    BY <1>1, <2>1 DEF TypeOK
  <2> HIDE DEF r
  <2> QED BY <2>2, <2>3 DEF KeepsStatus
<1>4. CASE DeleteRequest(k)
  <2> DEFINE r == [ir[k] EXCEPT !.deleting = TRUE]
  <2>1. Status(r) = Status(ir[k])
    BY <1>1 DEF InternalRequest, Status
  <2>2. ir' = [ir EXCEPT ![k] = Collected(r)]
    BY <1>4 DEF DeleteRequest
  <2> HIDE DEF r
  <2> QED BY <1>1, <2>1, <2>2, WriteKeepsStatus
<1>5. CASE RemoveOther(k)
  <2> DEFINE r == [ir[k] EXCEPT !.finalizers = ir[k].finalizers \ {Other}]
  <2>1. Status(r) = Status(ir[k])
    BY <1>1 DEF InternalRequest, Status
  <2>2. ir' = [ir EXCEPT ![k] = Collected(r)]
    BY <1>5 DEF RemoveOther
  <2> HIDE DEF r
  <2> QED BY <1>1, <2>1, <2>2, WriteKeepsStatus
<1>6. CASE AddOther(k)
  <2> DEFINE r == [ir[k] EXCEPT !.finalizers = ir[k].finalizers \cup {Other}]
  <2>1. Status(r) = Status(ir[k])
    BY <1>1 DEF InternalRequest, Status
  <2>2. ir'[k] = r /\ \A j \in Requests \ {k} : ir'[j] = ir[j]
    BY <1>1, <1>6 DEF AddOther, TypeOK
  <2> HIDE DEF r
  <2> QED BY <2>1, <2>2 DEF KeepsStatus
<1> QED BY <1>2, <1>3, <1>4, <1>5, <1>6

(* Once a request has completed, no step changes its status any more.      *)
THEOREM CompletionIsFinal ==
    ASSUME Tidy
    PROVE  Spec => CompletedIsFinal
<1>1. ASSUME ExecutionInv, [Next]_vars
      PROVE  [\A k \in Requests :
                ir[k].cond \in {Rejected, Failed, Succeeded} /\ ir'[k].live
                => Status(ir'[k]) = Status(ir[k])]_vars
  <2>1. CASE ir' = ir
    BY <2>1 DEF Status
  <2>2. CASE ir' # ir
    <3>1. \A k \in Requests : KeepsStatus(k)
      BY <1>1, <2>2, RequestWriters, FinalizerWritesKeepStatus, StatusWritesKeepStatus,
         UserWritesKeepStatus
      DEF vars, clusters
    <3> QED BY <3>1 DEF KeepsStatus, Final
  <2> QED BY <2>1, <2>2
<1> QED BY <1>1, ExecutionCorrect, PTL DEF Spec, CompletedIsFinal
=============================================================================
