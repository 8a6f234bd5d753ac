---------------------------- MODULE RequestMetrics ----------------------------
(***************************************************************************)
(* The metrics of the InternalRequests: what the methods of                *)
(* InternalRequestStatus and RegisterDeletion register, each in a          *)
(* goroutine of its own, and the gauge and the counter they change.        *)
(*                                                                         *)
(* A goroutine is started before the patch that stores what it accounts    *)
(* for, and nothing takes it back when that patch fails.  The counter      *)
(* internal_request_attempt_total is kept apart per request and per call:  *)
(* attempts[k, u, c] is its share due to the calls c for the request of    *)
(* name k and uid u.  The histogram of durations gets an observation with  *)
(* every decrement of the gauge and is not modelled on its own.            *)
(*                                                                         *)
(* The model is meant for caches that follow the clusters (LaggingCaches   *)
(* FALSE): a request then has one run at most in the cache.                *)
(***************************************************************************)
EXTENDS InternalRequestController, Integers, Bags, FiniteSetsExt

VARIABLES
    gauge,      \* internal_request_attempt_concurrent_requests
    attempts,   \* internal_request_attempt_total, by request and call
    started     \* the bag of goroutines that have not run yet

metricVars == <<gauge, attempts, started>>
allVars == <<vars, metricVars>>

Uids == 1..MaxUid

(* RegisterNewInternalRequest is the call that is not counted.             *)
CountedCalls == {"completed", "rejected", "deleted"}

-----------------------------------------------------------------------------
(* The goroutines that a method starts for the worker's copy req.          *)

Goroutine(call, req) ==
    [call |-> call, key |-> cur, uid |-> req.uid, hasStart |-> req.startTime]

MarkRunningGo(req) ==
    IF HasCompleted(req) \/ IsRunning(req) THEN {} ELSE {Goroutine("new", req)}

MarkRejectedGo(req) ==
    IF HasCompleted(req) THEN {} ELSE {Goroutine("rejected", req)}

(* MarkFailed's and MarkSucceeded's.                                       *)
MarkCompletedGo(req) ==
    IF HasCompleted(req) THEN {} ELSE {Goroutine("completed", req)}

(* Defect: a request that completed is accounted for again.                *)
RegisterDeletionGo_Again(req) == {Goroutine("deleted", req)}

RegisterDeletionGo(req) ==
    IF HasCompleted(req) THEN {} ELSE {Goroutine("deleted", req)}

(* Defect: a deletion decrements the gauge whether or not it was started.  *)
GaugeStep_DeletedAlways(g) ==
    CASE g.call = "new" -> 1
      [] g.call = "rejected" -> 0
      [] OTHER -> -1

(* What a goroutine adds to the gauge when it runs.                        *)
GaugeStep(g) ==
    CASE g.call = "new" -> 1
      [] g.call = "completed" -> -1
      [] g.call = "deleted" -> IF g.hasStart THEN -1 ELSE 0
      [] g.call = "rejected" -> 0

-----------------------------------------------------------------------------
Start(goroutines) ==
    /\ started' = started (+) SetToBag(goroutines)
    /\ UNCHANGED <<gauge, attempts>>

(* The operations that call one of the methods.                            *)
DeletionStep == RemoveFinalizer /\ Start(RegisterDeletionGo(mem))

AdmissionStep ==
    /\ EnsureRequestIsAllowed
    /\ Start(IF RequestIsAllowed(cfg, NamespaceOf[cur], mem.spec) THEN {}
             ELSE MarkRejectedGo(mem))

RunningStep == registerInternalRequestStatus /\ Start(MarkRunningGo(mem))

TrackingStep ==
    /\ EnsureStatusIsTracked
    /\ \E p \in GetInternalRequestPipelineRun(cur) :
         Start(IF p # NoRun /\ IsDone(prCache[p]) THEN MarkCompletedGo(mem) ELSE {})

(* The ones that do not.                                                   *)
SilentStep ==
    /\ \/ \E k \in Requests : Reconcile(k)
       \/ EnsureFinalizersAreCalled
       \/ EnsureFinalizerIsAdded
       \/ EnsureRequestINotCompleted
       \/ EnsureConfigIsLoaded
       \/ EnsurePipelineRunIsCreated
       \/ EnsurePipelineRunIsDeleted
       \/ ReadFails
       \/ Watch
       \/ Users
       \/ Tekton
    /\ UNCHANGED metricVars

(* Goroutines run in any order.                                            *)
RunGoroutine(g) ==
    /\ BagIn(g, started)
    /\ started' = started (-) SetToBag({g})
    /\ gauge' = gauge + GaugeStep(g)
    /\ attempts' = IF g.call = "new" THEN attempts
                   ELSE [attempts EXCEPT ![g.key, g.uid, g.call] = @ + 1]
    /\ UNCHANGED vars

(* The metrics live in the process: a new one starts from nothing.         *)
NoAttempts == [label \in Requests \X Uids \X CountedCalls |-> 0]

RestartStep ==
    /\ Restart
    /\ gauge' = 0
    /\ attempts' = NoAttempts
    /\ started' = EmptyBag

MetricsInit ==
    /\ Init
    /\ gauge = 0
    /\ attempts = NoAttempts
    /\ started = EmptyBag

MetricsNext ==
    \/ DeletionStep
    \/ AdmissionStep
    \/ RunningStep
    \/ TrackingStep
    \/ SilentStep
    \/ \E g \in BagToSet(started) : RunGoroutine(g)
    \/ RestartStep

MetricsSpec == MetricsInit /\ [][MetricsNext]_allVars

-----------------------------------------------------------------------------
(* The metrics as they are once every goroutine has run.                   *)

SettledGauge ==
    gauge + MapThenSumSet(LAMBDA g : CopiesIn(g, started) * GaugeStep(g),
                          BagToSet(started))

CountedAs(k, u, call) ==
    LET calls == {g \in BagToSet(started) : g.key = k /\ g.uid = u /\ g.call = call}
    IN  attempts[k, u, call] + MapThenSumSet(LAMBDA g : CopiesIn(g, started), calls)

Counted(k, u) == MapThenSumSet(LAMBDA call : CountedAs(k, u, call), CountedCalls)

(* The requests that execute: they are Running, and the controller has not *)
(* finalized them.                                                         *)
Attempting ==
    {k \in Requests : ir[k].cond = Running /\ Ours \in ir[k].finalizers}

Drift == SettledGauge - Cardinality(Attempting)

(* The gauge is the number of requests that execute, as its help text      *)
(* says, up to a drift that has three causes only: an operation whose      *)
(* patch did not reach the server (its goroutine runs all the same, and    *)
(* again with the retry), a running request that is rejected, and a        *)
(* restart.  In particular a patch whose answer is lost counts once.       *)
GaugeDriftsOnlyByFailure ==
    [][Drift' # Drift
       => \/ pc # "Idle" /\ pc' = "Idle" /\ cur \in queue' /\ ir' = ir
          \/ \E k \in Attempting : ir'[k].cond = Rejected
          \/ restarts' # restarts]_allVars

(* A request is counted as an attempt in the step that stores its outcome  *)
(* or, if it has none yet, takes the controller's finalizer away; no other *)
(* write to it counts it, and a write that counts it counts it once.       *)
Ends(k) ==
    /\ ~HasCompleted(ir[k]) /\ Ours \in ir[k].finalizers
    /\ HasCompleted(ir[k])' \/ Ours \notin ir'[k].finalizers

OutcomeIsCounted ==
    [][\A k \in Requests, u \in Uids :
         ir[k].uid = u /\ ir'[k] # ir[k]
         => Counted(k, u)' = Counted(k, u) + (IF Ends(k) THEN 1 ELSE 0)]_allVars

(* A request that is counted before its patch fails is counted again by    *)
(* the retry, but no more than once for every failed call, and once for    *)
(* the patch of a deletion that is refused because another controller has  *)
(* removed its finalizer since the copy was read.                          *)
RecountsAreFailures ==
    \A k \in Requests, u \in Uids : Counted(k, u) <= 2 + faults

(* How far the gauge may be from the number of requests that execute.  One *)
(* failed call moves it by one; a refused patch of a deletion lowers it by *)
(* one, once in the life of a request, and a rejection of a running one    *)
(* leaves it one too high; a restart forgets the requests that run.        *)
DriftIsBounded ==
    LET lives == Cardinality(Requests) * MaxUid
    IN  Drift \in -(faults + lives + Cardinality(Requests) * restarts)
                    .. faults + lives
=============================================================================
