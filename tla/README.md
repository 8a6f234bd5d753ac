# A verification project for internal-services

internal-services is a Kubernetes operator between two clusters. Tenants create
`InternalRequest`s on a *remote* cluster; the operator runs the pipeline each of them
asks for as a Tekton `PipelineRun` on the *internal* cluster, and reports the outcome in
the request's status. This directory holds TLA+ modules that model the operator, TLC
configurations that check them on small instances, and proofs, checked by TLAPS, of what
matters most for instances of any size.

## 1. Inventory

| Component | Code | State | Operations |
|---|---|---|---|
| InternalRequest and its status methods | `api/v1alpha1/internalrequest_types.go`, `internalrequest_conditions.go` | the Succeeded condition, start and completion time, the named PipelineRun, results | `HasCompleted`, `HasFailed`, `HasSucceeded`, `IsRunning`, `MarkRunning`, `MarkRejected`, `MarkFailed`, `MarkSucceeded`, `RegisterDeletion` |
| Reconciler and adapter | `controllers/internalrequest/controller.go`, `adapter.go` | the worker's copy of a request, the config it loaded | the eight operations `Reconcile` lists, in that order |
| Admission | `adapter.go`, `api/v1alpha1/internalservicesconfig_types.go` | the lists of the `InternalServicesConfig` | `EnsureRequestIsAllowed` and the two checks it calls |
| Watches | `controller.go` (`Register`), `tekton/predicates.go`, `tekton/utils.go` | informer caches, the work queue | events that pass the predicates queue a request |
| Loader | `loader/loader.go` | none (reads the caches) | the run of a request by labels, the config, the TaskRuns of a run |
| PipelineRun builder | `tekton/pipeline_run.go`, `tekton/utils/pipeline.go` | none | labels, owner annotations, parameters, workspace, pipeline reference |
| Outcome of a run | `adapter.go`, `tekton/utils.go` | the cache of the TaskRuns | the results of a run that succeeded, the message of one that failed, cut to a length |
| Metrics | `metrics/internalrequest.go` | a gauge, a counter, a histogram | the `Register...` functions, each called in a goroutine |
| Manager | `main.go` | the process: caches, queue, leader lease | start, restart |
| Generated code, mocks, manifests | `zz_generated.deepcopy.go`, `loader_mock.go`, `config/`, `hack/` | none | none |

How they interact. An event of a watch that passes its predicate puts the request's key
on the work queue. One worker takes a key, reads the request from the remote cluster's
cache, and runs the operations on that copy until one of them stops or asks for the key
to be queued again. The operations read PipelineRuns from the internal cluster's cache,
write them directly, and patch the request on the remote cluster with merge patches that
carry no resource version. A PipelineRun points back at its request by two labels and two
owner annotations; a request points at its run by `status.pipelineRun`. Nothing else ties
the two together, and no transaction spans the two clusters.

What is hard, and what makes each component correct:

* *Two clusters, no transaction.* The run is created on one cluster and recorded on the
  other; a crash, a failed call or a lost answer may fall between any two writes. A
  request must still be executed once at most, and no run may outlive its request.
* *Stale reads.* The worker decides from caches that may lag.
* *Names are used again.* Runs are found by the request's name, not its uid.
* *Others write too.* Users edit, delete and re-create requests, administrators change
  the config, other controllers hold finalizers, Tekton ends runs, pruners delete them.
* *Wake-ups.* A request is reconciled again only when its spec changes, its deletion is
  asked for, its run becomes done, or an operation asks for it. Losing one of these
  leaves it waiting for ever.
* *Labels and annotations are shared with users.* A run carries the labels of the request's
  user; the ones that lead back to the request must win. What is judged (the first url, the
  namespace) must be what Tekton resolves.
* *Text has a limit.* A status that the API server refuses is refused with every retry: the
  outcome would never be stored.
* *Metrics are counted before what they count is stored*, by goroutines in any order.

`PROJECT.json` lists each of these under "hazards", at the line where it bites, with the
properties that would catch it going wrong.

## 2. Modules

| Module | What it is |
|---|---|
| `InternalRequestStatus` | the record of an InternalRequest and the status methods, as operators on it |
| `Admission` | which requests a config lets through, as operators |
| `InternalRequestController` | the clusters, the caches, the queue, the worker and their environment; extends the two above |
| `RequestLifecycle` | the abstract specification: the phases of a request and its one execution |
| `RequestMetrics` | `InternalRequestController` with the goroutines and the metrics they change |
| `PipelineRunBuilder` | one request on its way to a PipelineRun: the config judges it, the builder makes the run, and what leads back from the run; extends `Admission` |
| `RunOutcome` | what the status tells of a run that is done: results, the message of the failed TaskRuns and its cut |
| `MCInternalRequestController`, `MCRequestMetrics`, `MCPipelineRunBuilder`, `MCRunOutcome` | requests, specs, configs, results and symmetry for TLC |
| `InternalRequestControllerProofs` | type correctness and the lemmas about patches, runs and methods |
| `AdmissionProofs` | only admitted specs get a run, and never under the default config |
| `PipelineRunBuilderProofs` | the verdict, the run that was judged, and the way back from it |
| `StaleCopyProofs` | what holds however far the caches lag: where a status patch goes |
| `ExecutionProofs` | the inductive invariant of the controller and what follows from it |
| `LifecycleProofs` | wake-ups, the finalizers of others, and the refinement of `RequestLifecycle` |
| `RunOutcomeProofs` | messages and results of a run, for any number of TaskRuns and any list |

### InternalRequestController

State and code:

| Variable | Code |
|---|---|
| `ir`, `pr`, `config` | the objects stored by the two API servers |
| `irCache`, `prCache` | the informer caches behind `Client` and `InternalClient` |
| `queue` | controller-runtime's work queue |
| `pc`, `cur` | where the one worker is in the list of operations, and for which key |
| `mem`, `cfg` | `Adapter.internalRequest`, `Adapter.internalServicesConfig` |
| `faults`, `restarts` | how many calls failed and restarts happened, to bound them |

`ir[k]` keeps its `uid` after the object is gone, so that the next object of that name has
another one; a run's `forUid` is the uid it was created for. The code records neither: they
are there for the properties. Time stamps are modelled by whether they are set; the results
of a run by the run they come from; messages are left out.

Each operation is one action, or two when it makes two writes: `EnsureFinalizersAreCalled`
and `RemoveFinalizer` are the two halves of one operation, `EnsurePipelineRunIsCreated` and
`registerInternalRequestStatus` of another. Between any two actions the other actors may
step. An operation's cache read and the write after it are one action, since what it read is
not read again. `MergePatch` is the JSON merge patch: fields that the worker did not change
keep their stored value. `Accepts` is what the API server refuses: a patch of an object
that is gone, and a finalizer added to one that is being deleted. A call may fail before it
takes effect or after (`Fault`); both end in the error path, which queues the key again.

`LaggingCaches` chooses between caches that follow the clusters before anybody takes another
step and caches that may lag without bound. `Relists` says whether a watch may lose its place
and list everything again: what happened to an object since the watch last showed it is then
one update, or a Create if it had never been shown. `ExternalDeletes` says whether others may
delete PipelineRuns. The stronger guarantees hold only when `LaggingCaches` and
`ExternalDeletes` are FALSE; the violation runs show what is lost otherwise. `Refused` are the
requests and specs whose PipelineRun the API server turns down however often it is asked: the
request's name is too long for the value of a label (names have up to 253 characters, labels
63), or Tekton's validation finds the spec invalid.

`Restart` drops the queue, the worker's state and the caches; the first list of the watch
queues every request there is. A deletion of a nil PipelineRun (`adapter.go:218` when there
is no run) fails and the key is queued again. `ReadFails` is the error of a read: of the ones the
operations start with, and of the Get of `Reconcile` itself, which puts the key back.

Two simplifications of the caches are harmless. A delivery brings an object to its present state,
where an informer passes through the states between; and the config is read from the cluster in
every mode, since it may change before any read anyway.

The resolution of conflicts is not modelled because there is none: the patches carry no
resource version. The back-off of the work queue is not modelled; a queued key is taken
eventually. There is one worker (`MaxConcurrentReconciles` is not set) and one manager (leader
election is controller-runtime's).

### PipelineRunBuilder

`policy`, `request` and `run` are the loaded config, the worker's copy and the PipelineRun built
from them. The administrators' actions fill the lists of a config one entry at a time, so that
TLC walks through every config up to the bound; `Build` is `createInternalRequestPipelineRun`
for a request that was allowed. Labels are a function, as in the resource. `MatchingLabels`,
`InCache` and `EnqueueRequestForAnnotation` are the three readers: the loader's selector, the
filter of the manager's cache on the pipeline type, and the handler of the PipelineRun watch
behind the predicate. The owner annotations are a type and a pair; a name has no slash, so the
"namespace/name" text is no less. `Violated` states the rules of the config a second time, as a
set, from the tests of `EnsureRequestIsAllowed` (`adapter_test.go:425-610`), and `VerdictIsRight`
compares the nested checks with it. Two comments state other rules: an empty allow list allows any
request, and a list of service accounts only those that name one of them. `ListedAccountsOnly`
is the second, which TLC refutes (`service_account`); the first fails for every request there is.

`InternalRequestController` keeps of all this only the owner of a run: `RunLeadsBack` is what
justifies it.

### RunOutcome

`registerInternalRequestPipelineRunStatus` for one run that is done. TaskRuns start, end and
reach the worker's cache at their own pace, so that the list the message is made of may be
older than the end of the run. A text is its length in bytes, and the limits are those of the
code: 4096, cut at 4081 and a suffix of 15. A cut inside a character leaves up to three bytes
that become three bytes each on the way to the API server (JSON has no other way to send
them), so that the stored message may have 4102; the CRD accepts 32768 characters. The result
map is built in the order of the run's list, the last of two equal names wins.
`InternalRequestController` keeps of this only which run the outcome came from.

### RequestMetrics

Adds to the four actions that call a Mark method or `RegisterDeletion` the goroutine it
starts, in a bag from which they run in any order. `SettledGauge` and `Counted` are the
metrics as they will be once all have run, so that the properties do not depend on delays.
`GaugeDriftsOnlyByFailure` names the causes of a wrong gauge, `DriftIsBounded` and
`RecountsAreFailures` bound what they add up to over the life of a request.

### RequestLifecycle

Per name: a phase (absent, pending, running, rejected, succeeded, failed), an execution
(none, active, over), and whether an earlier request executed under the name (`used`). A request
executes once at most and is not removed while it executes. It is marked Running and reports success
or failure only on the strength of an execution: its own, which is over when it reports (`Conclude`),
or, when it has had none, one of an earlier request of its name (`Inherit`: what `name_reuse` shows).
It is turned down while it is pending (`Reject`), but also while it runs (`Revoke`). The abstract specification has these two steps because the code takes
them, and names them apart so that a reader sees them. The refinement mapping reads the phase off
the condition, the execution off the runs created for the request's uid, and `used` off the runs
created for another uid of the name.

## 3. Runs

Runs that pass:

| Run | Question | Bounds |
|---|---|---|
| `controller` | does one execution, no orphan, true and final outcomes, a pending wake-up and the finalizers of others survive failures, and does all of it implement `RequestLifecycle`? | 1 name used twice, 3 runs, 2 specs, 2 configs or none, 2 generations, 2 faults, 1 restart |
| `lag` | what is left with lagging caches, new lists and runs deleted by others: in particular, does a status patch reach the request it was computed for? | 1 name used twice, 2 specs, 1 run, 1 failing call |
| `live` | does every request complete, does every deletion end? | 1 name used twice, 2 runs, a spec that is allowed and one that is refused, 1 fault, 1 restart |
| `metrics` | when do the metrics leave the truth, and how far? | 1 request, 2 specs, 2 generations, 2 faults, 1 restart |
| `request` | is the verdict right, the run what was judged, and does it lead back? | lists of up to 2 entries of 2 namespaces, 3 URLs and 2 accounts; up to 2 parameters; any subset of 4 labels with 2 values |
| `outcome` | is every end reported, truly and in a message that fits? | 2 TaskRuns with 7 lengths around the limits, up to 2 results, 2 faults |

Why the bounds are enough to meet the interesting cases: two lives of a name let a second
request find the first one's run; a second and a third run exist so that a duplicate has a
name to take; two generations and two configs let admission change its mind while a request
runs; two faults let a retry fail too; a restart may fall between any two actions. Requests
share nothing but the worker and the queue; the proofs lift the safety properties and the
refinement to any number of them. The lengths of `outcome` are the ones
where the code's comparison changes its answer (4096 and 4097, alone or as the sum of two), one
that the API server would refuse, and no message at all. Deadlock is not checked: with no
request left to create the system may rest.

Fairness (`live`, `finished_run`): weak on the worker's operations and on the watches,
because the process keeps running; strong on taking a key off the queue, because the queue
hands keys out in the order they came and a key that keeps being queued is taken; weak on
Tekton ending a run (a PipelineRun has a timeout, unless a user has set it to zero: then nothing is
promised) and on the owners of other finalizers.
Nothing is assumed of users and administrators, failures are bounded, and a restart need not
happen. `outcome` assumes that a failed reconcile is repeated and that Tekton ends what it
started; nothing is assumed of the cache of the TaskRuns.

Runs that show a disagreement between the code and what its comments say ("findings" in
`PROJECT.json` quotes them):

| Run | What happens |
|---|---|
| `finished_run` | the answer to the patch that completes the request is lost; the retry stops at the completed request and nobody deletes the run |
| `stale_finalizer` | the request is deleted before the cache shows its run; the finalizer is removed and the run executes on |
| `name_reuse` | a request takes over the run, the outcome and the results of an earlier one of its name |
| `uncompleted` | the end of the run queues a request that a reconcile has just completed; the next one starts from a cached copy without the outcome, passes the completed check and, the config having changed meanwhile, stores Rejected over the outcome |
| `lost_wakeup` | the run ends before the watch has shown it, the watch lists again, and the run arrives as a Create, which is filtered out |
| `service_account` | a request without a service account passes a list that is not empty; the tests agree with the code |

More comes out of the same modules and is not kept as a run. Against a comment or a text:

* With `LaggingCaches` a reconcile repeated after a failed status patch, before the cache shows
  the run it created, creates a second one (`AtMostOneExecution`; `adapter.go:178`).
* With `ExternalDeletes` and one fault, a run that others deleted is replaced while the status
  still names it, and the finalizer, which finds the named run gone, does not look for the other
  (`NoOrphanRun`; `adapter.go:121`).
* A config or spec changed while a request runs makes the next reconcile reject it, although a
  rejected request "is turned down before it starts running" (`metrics/internalrequest.go:93`).
  The run is not cancelled before the request is deleted, its outcome is not reported, and the
  gauge keeps counting it.
* An outcome is counted before its patch; if the patch fails the retry or the deletion counts the
  request again, which "must not be counted twice" (`internalrequest_types.go:183`). A new process
  starts the gauge at zero, and the requests that ran before lower it below.
  `RecountsAreFailures` and `DriftIsBounded` say how much this can come to.
* An empty allow list allows nobody; the comment says "any request will be allowed"
  (`adapter.go:222`), the test expects what the code does (`adapter_test.go:434`).
  `VolumeSizeIsKnown` depends on the code, not on the comment: if the default config allowed
  everybody, its empty volume size would make the builder panic.

Against no text:

* With `ExternalDeletes` a run that others delete before it ends wakes nobody
  (`WakeupIsPending`; `predicates.go:31`).
* `EnsureFinalizerIsAdded` replaces the list of finalizers by the copy's and loses one that another
  controller added since (`adapter.go:69`). `OthersFinalizerIsKept` says that nothing else does:
  when the controller's finalizer is removed the request is being deleted, and nobody can add one.

Every property of a passing run has a mutant: a definition suffixed `_...` beside the one it
replaces, with a bug that code could have, under which TLC finds the property violated.

## 4. Proofs

Assumptions: the named ASSUMEs of the modules (the null values are not members of the sets
they complete, there is a spec, the bounds are natural numbers, the modes are Boolean). No
set is assumed finite but that of a run's TaskRuns, and no bound has a value. The theorems of
`ExecutionProofs` and `LifecycleProofs` assume `Tidy`: caches that follow the clusters, and
nobody else deleting PipelineRuns; without it TLC refutes `AtMostOneExecution`, `NoOrphanRun`
and `WakeupIsPending` (section 3). Failures, restarts and the steps of users stay free.

`TypeCorrect`, `OnlyAdmittedRuns` and `VolumeSizeIsParsed` hold in every mode. The second and
third need one more invariant: when the worker is about to create the run, the loaded config
allows its copy; the default config, whose allow list is empty, allows nothing
(`VolumeAssumption`: any other config has a size, which the CRD's default and pattern ensure).

`RunsLeadBack`, `VerdictsAreRight` and `RunsAreWhatWasJudged` hold for any set of requests, any
labels, and lists and parameters of any length. Their invariant says that the run was built from
the request and the config that the worker still holds, and was allowed. `SystemLabelsWin` is the
fact about labels; `FirstURLIsJudged`, that the loop's first match is the url the rule speaks of,
takes the least index from the well-foundedness of the natural numbers.

`ExecutionCorrect` proves the inductive invariant `ExecutionInv`. `AtMostOneExecution` and
`NoOrphanRun` are not inductive by themselves, for three reasons:

* The worker acts on a copy. `HeldInv` says that once the copy carries the finalizer, the
  stored request is the same one, still carries it and has the same status: nobody else
  writes the status, and nobody else takes the finalizer away. A merge patch of the copy then
  does to the stored request what the worker means it to do (`HeldPatch`).
* The finalizer must cancel the right run. `NamedRunInv` and `OneVisibleRun` say that the
  run named in the status, or else the run found by labels, is the only one that can be
  executing for the name (`OnlyRunToCancel`); `StageInv` carries to `RemoveFinalizer` that
  nothing executes any more.
* A run must not be created after the request's run was deleted. `RunAgeInv` says that if a
  run of the present request is gone, the request has completed, and a completed request
  never reaches the creation.

The proof has a lemma for each kind of write to the clusters (metadata, status, a request
that appears or goes away, a run that is created, written or deleted), one for each operation
and each actor's step, and `ExecutionStep` puts them together. `ExecutesOnce`,
`NoRunIsOrphaned` and `OutcomeIsTrue` follow from the invariant, and `CompletionIsFinal`, an
action property, from the invariant and the list of those who write to requests.

`StaleCorrect`, `CompletionIsStamped` and `StatusReachesItsRequest` need no `Tidy`. A merge patch
carries no uid and no resource version: nothing stops a status computed from an old copy from
being stored in a later request of the same name. What prevents it is the finalizer. The worker
computes a status only from a copy that carries it or after having added it; from then on only
the worker can take it away, so that the request of the copy cannot go and the name cannot be
used again before the worker is done. The invariant says this of the copy, and of the copies a
cache may still hand out. `CompletionHasStart` follows in every mode.

`ProgressCorrect` adds to `ExecutionInv` what makes progress possible: a running request has a run
of its name that exists until the request completes (`RunningInv`); the watch has shown
a run by the time it is done (`SeenInv`); the worker has found it when it is about to leave (`FoundInv`); and
a request whose finalizer is being removed is being deleted, so that no finalizer can be added that
the copy does not have (`RemovingInv`). The steps are sorted by what they write: a request appears,
vanishes, stays or is marked (`RequestWritten`), a run begins or changes (`RunWriters`). Each sort
of write is then shown once to keep the invariant, and once to be a step of `RequestLifecycle`:
`WakeupsAreKept`, `OthersFinalizersAreKept` and `LifecycleIsImplemented`.

`MessagesFit`, `CausesAreTrue` and `ResultsAreTheRuns` are about loops. The values of a fold are out
of reach of the library's induction theorems here, whose parameter is an operator. Each fold is
compared with a closed form instead (the results with the last index of each name, the length of a
message with the number of cells of a table with a column for each TaskRun): the closed form
satisfies the fold's equation, so the equation has a solution; and were the fold different from the
closed form at some set of indices, it would be so at a smallest one (`SmallestSet`), where the
equation denies it. `OutcomeInv` then says that a failed TaskRun stays failed, so that a late cache
shows no false cause, and that a reported run changes no more.

Model-checked only: the liveness properties `EveryRequestCompletes`, `EveryDeletionEnds` and
`EveryEndIsReported` (TLAPS does not do fairness), and the metrics, whose sums run over bags.

## 5. What is not modelled

The wording of conditions and log lines; the values of the metrics' labels and the histogram;
`spec.params` and the name of the workspace, which are copied; leader election; RBAC; flags,
probes and the set-up of clients; manifests; generated code and mocks. `WithPipeline`,
`GetTektonParams`, `IsClusterScoped` and `GetInternalRequestPipeline` have no caller in the
controller. A request is assumed to carry a pipeline (the CRD requires it), and the message of a
PipelineRun's condition to fit the CRD (`GenericAssumption`): it is not cut. Users do not touch
the controller's finalizer or the status.

Some disagreements need no model. `MarkRunning` is said to set the condition to Unknown
(`internalrequest_types.go:154`) and sets it to False.
`InternalRequestPipelineRunSucceededPredicate` is said to pass runs that "have just succeeded"
and passes those that failed as well, which is what `EveryRequestCompletes` and `WakeupIsPending`
need. A test speaks of a message cut at 1024 characters (`adapter_test.go:962`), the code cuts at
4096 bytes. `params`, `serviceAccountName` and `timeouts` inside `spec.pipeline` are accepted by
the CRD and reach no run: the builder reads the fields of the same meaning one level up.
`GetPipelineNameFromGitResolver` looks for `pathInRepo` in those parameters and not in the ones of
the reference, where the resolver's are, so that the `request` label of the metrics is empty for a
request that gives it there only.

## 6. Plan

Done: the core (status, admission, controller), its abstract specification, the metrics, the
builder, the outcome of a run, new lists and refused runs; as theorems, every invariant that a run
checks but those of the metrics, the action properties of the controller, and the refinement.

Next: the metrics' two action properties and two invariants. The controller's part of them (which write ends an
attempt, and that the copy agrees with the request then) follows from `ExecutionInv`; the sums over
the bag of goroutines need the closed form that `RunOutcomeProofs` uses for the length of a message.
