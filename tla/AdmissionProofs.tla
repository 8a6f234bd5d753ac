--------------------------- MODULE AdmissionProofs ---------------------------
(***************************************************************************)
(* The controller starts a PipelineRun only for what the config it loaded  *)
(* in the same reconcile allows: whatever fails, restarts or lags behind.  *)
(***************************************************************************)
EXTENDS InternalRequestControllerProofs

(* The operation that creates the run is reached only through the one that *)
(* asks whether the worker's copy is allowed, and neither the copy nor the *)
(* config changes in between.                                              *)
AdmittedInv ==
    pc = "EnsurePipelineRunIsCreated"
    => RequestIsAllowed(cfg, NamespaceOf[cur], mem.spec)

LEMMA AdmittedStep ==
    ASSUME AdmittedInv, [Next]_vars
    PROVE  AdmittedInv'
<1>1. ASSUME UNCHANGED worker PROVE AdmittedInv'
  BY <1>1 DEF AdmittedInv, worker
<1>2. CASE EnsureRequestIsAllowed
  <2>1. CASE RequestIsAllowed(cfg, NamespaceOf[cur], mem.spec)
    BY <1>2, <2>1 DEF EnsureRequestIsAllowed, Continue, AdmittedInv
  <2>2. CASE ~RequestIsAllowed(cfg, NamespaceOf[cur], mem.spec)
    BY <1>2, <2>2
    DEF EnsureRequestIsAllowed, PatchAndStop, PatchFails, StopProcessing, Requeue, Finish,
        AdmittedInv
  <2> QED BY <2>1, <2>2
<1>3. ASSUME Operation, ~EnsureRequestIsAllowed PROVE pc' # "EnsurePipelineRunIsCreated"
  BY <1>3
  DEF Operation, EnsureFinalizersAreCalled, cancelPipelineRun, RemoveFinalizer,
      EnsureFinalizerIsAdded, EnsureRequestINotCompleted, EnsureConfigIsLoaded,
      EnsurePipelineRunIsCreated, registerInternalRequestStatus, EnsureStatusIsTracked,
      EnsurePipelineRunIsDeleted, PatchAndContinue, PatchAndRequeue, PatchFails, Continue,
      StopProcessing, Requeue, Finish
<1>4. ASSUME ReadFails \/ Restart PROVE pc' = "Idle"
  BY <1>4 DEF ReadFails, Restart, Requeue, Finish, worker
<1>5. ASSUME NEW k \in Requests, Reconcile(k)
      PROVE  UNCHANGED worker \/ pc' # "EnsurePipelineRunIsCreated"
  BY <1>5 DEF Reconcile
<1>6. Watch \/ Users \/ Tekton \/ UNCHANGED vars => UNCHANGED worker
  BY DEF Watch, DeliverInternalRequest, DeliverPipelineRun, RelistInternalRequests,
         RelistPipelineRuns, Users, CreateRequest, EditSpec, DeleteRequest, AddOther,
         RemoveOther, ChangeConfig, Tekton, FinishRun, DeleteRun,
         environment, vars
<1> QED BY <1>1, <1>2, <1>3, <1>4, <1>5, <1>6 DEF Next, AdmittedInv

(* Nothing but EnsurePipelineRunIsCreated makes a run, and it makes it for *)
(* the request the worker is on.                                           *)
LEMMA RunCreators ==
    ASSUME TypeOK, [Next]_vars, NEW p \in Runs,
           pr[p].phase = "unused", pr'[p].phase # "unused"
    PROVE  pc = "EnsurePipelineRunIsCreated" /\ pr'[p].owner = cur
<1>1. pr' # pr
  OBVIOUS
<1>2. \A q \in Runs : Exists(pr[q]) => q # p
  BY DEF Exists
<1>3. ASSUME NEW q \in Runs, Cancel(q) \/ Delete(q), Exists(pr[q]) PROVE FALSE
  BY <1>2, <1>3 DEF Cancel, Delete, TypeOK
<1>4. ~EnsureFinalizersAreCalled
  <2>1. EnsureFinalizersAreCalled => \E q \in Runs : Cancel(q) /\ Exists(pr[q])
    BY <1>1, LoadedRuns DEF EnsureFinalizersAreCalled, cancelPipelineRun
  <2> QED BY <1>3, <2>1
<1>5. ~EnsurePipelineRunIsDeleted
  <2>1. EnsurePipelineRunIsDeleted => \E q \in Runs : Delete(q) /\ Exists(pr[q])
    BY <1>1, LoadedRuns DEF EnsurePipelineRunIsDeleted
  <2> QED BY <1>3, <2>1
<1>6. ~Tekton
  <2>1. ASSUME NEW q \in Runs PROVE ~FinishRun(q)
    BY <1>2 DEF FinishRun, TypeOK
  <2>2. ASSUME NEW q \in Runs PROVE ~DeleteRun(q)
    BY <1>3 DEF DeleteRun
  <2> QED BY <2>1, <2>2 DEF Tekton
<1>7. EnsurePipelineRunIsCreated
  <2>1. ~\E k \in Requests : Reconcile(k)
    BY <1>1 DEF Reconcile, clusters
  <2>2. Operation => EnsurePipelineRunIsCreated
    BY <1>1, <1>4, <1>5
    DEF Operation, RemoveFinalizer, EnsureFinalizerIsAdded, EnsureRequestINotCompleted,
        EnsureConfigIsLoaded, EnsureRequestIsAllowed, registerInternalRequestStatus,
        EnsureStatusIsTracked, clusters
  <2>3. ~ReadFails /\ ~Watch /\ ~Restart /\ ~Users /\ ~UNCHANGED vars
    BY <1>1
    DEF ReadFails, Watch, DeliverInternalRequest, DeliverPipelineRun,
        RelistInternalRequests, RelistPipelineRuns, Restart, Users, CreateRequest,
        EditSpec, DeleteRequest, AddOther, RemoveOther, ChangeConfig, clusters, vars
  <2> QED BY <1>6, <2>1, <2>2, <2>3 DEF Next
<1>8. PICK q \in Runs : pr' = [pr EXCEPT ![q] = NewRun(cur, mem)]
  BY <1>1, <1>7 DEF EnsurePipelineRunIsCreated, CreateRun
<1>9. q = p /\ pr'[p] = NewRun(cur, mem)
  BY <1>8 DEF TypeOK
<1> QED BY <1>7, <1>9 DEF EnsurePipelineRunIsCreated, At, NewRun, Unused

(* Every PipelineRun the controller creates is for a namespace, a pipeline *)
(* repository and a service account that the loaded config allows.         *)
THEOREM OnlyAdmittedRuns == Spec => RunsAreAdmitted
<1>1. Init => AdmittedInv
  BY DEF Init, AdmittedInv
<1>2. AdmittedInv /\ [Next]_vars => AdmittedInv'
  BY AdmittedStep
<1>3. ASSUME TypeOK, AdmittedInv, [Next]_vars
      PROVE  [\A p \in Runs :
                pr[p].phase = "unused" /\ pr'[p].phase # "unused"
                => RequestIsAllowed(cfg, NamespaceOf[pr'[p].owner], mem.spec)]_vars
  BY <1>3, RunCreators DEF AdmittedInv
<1> QED BY <1>1, <1>2, <1>3, TypeCorrect, PTL DEF Spec, RunsAreAdmitted

(* The size that the builder parses is never the empty one of the default  *)
(* config, whose empty allow list stops every request before.              *)
THEOREM VolumeSizeIsParsed == Spec => []VolumeSizeIsKnown
<1>1. Init => AdmittedInv
  BY DEF Init, AdmittedInv
<1>2. AdmittedInv /\ [Next]_vars => AdmittedInv'
  BY AdmittedStep
<1>3. ASSUME NEW namespace, NEW spec PROVE ~RequestIsAllowed(DefaultConfig, namespace, spec)
  <2>1. DefaultConfig.allowList = <<>>
    BY DEF DefaultConfig
  <2>2. ~IsListed(DefaultConfig.allowList, namespace)
    BY <2>1 DEF IsListed
  <2> QED BY <2>2 DEF RequestIsAllowed, RejectedBy
<1>4. TypeOK /\ AdmittedInv => VolumeSizeIsKnown
  BY <1>3, VolumeAssumption DEF TypeOK, AdmittedInv, VolumeSizeIsKnown
<1> QED BY <1>1, <1>2, <1>4, TypeCorrect, PTL DEF Spec
=============================================================================
