------------------------ MODULE InternalRequestStatus ------------------------
(***************************************************************************)
(* The InternalRequest resource as the API server stores it, and the       *)
(* methods of api/v1alpha1 that read and change its status.                *)
(*                                                                         *)
(* The list of status conditions holds one condition only, "Succeeded";    *)
(* cond is its status and reason.  A time stamp is modelled by whether it  *)
(* is set.  pipelineRun is the PipelineRun whose "namespace/name" the      *)
(* status carries and results the PipelineRun whose results were copied.   *)
(* live and uid stand for the object's existence and its identity: a       *)
(* request deleted and created again under the same name has a new uid.    *)
(***************************************************************************)
EXTENDS Naturals

CONSTANTS
    Runs,       \* names of PipelineRuns
    NoRun,      \* the empty status.pipelineRun / the nil PipelineRun
    Specs       \* specs an InternalRequest may carry

ASSUME RunsAssumption == NoRun \notin Runs
ASSUME SpecsAssumption == Specs # {}

(* tekton.InternalRequestFinalizer, and a finalizer some other owner put.  *)
Ours == "pipelinerun-cleanup"
Other == "other"
Finalizers == {Ours, Other}

Condition(status, reason) == [status |-> status, reason |-> reason]

NoCondition == Condition("None", "None")
Running == Condition("False", "Running")
Rejected == Condition("False", "Rejected")
Failed == Condition("False", "Failed")
Succeeded == Condition("True", "Succeeded")

Conditions == {NoCondition, Running, Rejected, Failed, Succeeded}

InternalRequest ==
    [ live           : BOOLEAN,
      uid            : Nat,
      generation     : Nat,
      spec           : Specs,
      deleting       : BOOLEAN,              \* metadata.deletionTimestamp
      finalizers     : SUBSET Finalizers,
      cond           : Conditions,
      startTime      : BOOLEAN,
      completionTime : BOOLEAN,
      pipelineRun    : Runs \cup {NoRun},
      results        : Runs \cup {NoRun} ]

(* An InternalRequest as it is created: no status at all.                  *)
NewRequest(uid, spec, finalizers) ==
    [ live |-> TRUE, uid |-> uid, generation |-> 1, spec |-> spec,
      deleting |-> FALSE, finalizers |-> finalizers, cond |-> NoCondition,
      startTime |-> FALSE, completionTime |-> FALSE,
      pipelineRun |-> NoRun, results |-> NoRun ]

(* What is left of a request once it is gone: its uid is never used again. *)
Absent(uid) ==
    [NewRequest(uid, CHOOSE s \in Specs : TRUE, {}) EXCEPT !.live = FALSE,
                                                           !.generation = 0]

-----------------------------------------------------------------------------
(* Readers of the Succeeded condition.                                     *)

(* Defect: a condition that is False does not count as completed.          *)
HasCompleted_TrueOnly(req) == req.cond.status = "True"

HasCompleted(req) ==
    \/ req.cond.status = "True"
    \/ req.cond.status = "False" /\ req.cond.reason # "Running"

HasFailed(req) ==
    /\ req.cond.status = "False"
    /\ req.cond.reason # "Running"

HasSucceeded(req) == req.cond.status = "True"

IsRunning(req) ==
    /\ req.cond # NoCondition
    /\ req.cond.status # "True"
    /\ req.cond.reason = "Running"

-----------------------------------------------------------------------------
(* Writers.  Each one leaves a completed request alone.  RequestMetrics    *)
(* adds the metrics they register.                                         *)

(* Defects: the condition becomes Unknown; the start time is not set.      *)
MarkRunning_Unknown(req) ==
    IF HasCompleted(req) THEN req
    ELSE [req EXCEPT !.cond = Condition("Unknown", "Running"), !.startTime = TRUE]
MarkRunning_Unstamped(req) ==
    IF HasCompleted(req) THEN req ELSE [req EXCEPT !.cond = Running]

MarkRunning(req) ==
    IF HasCompleted(req) THEN req
    ELSE [req EXCEPT !.cond = Running,
                     !.startTime = @ \/ ~IsRunning(req)]

MarkRejected(req) ==
    IF HasCompleted(req) THEN req ELSE [req EXCEPT !.cond = Rejected]

MarkFailed(req) ==
    IF HasCompleted(req) THEN req
    ELSE [req EXCEPT !.cond = Failed, !.completionTime = TRUE]

MarkSucceeded(req) ==
    IF HasCompleted(req) THEN req
    ELSE [req EXCEPT !.cond = Succeeded, !.completionTime = TRUE]
=============================================================================
