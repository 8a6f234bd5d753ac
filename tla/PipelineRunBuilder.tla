-------------------------- MODULE PipelineRunBuilder --------------------------
(***************************************************************************)
(* The way of one InternalRequest through a reconcile that creates its     *)
(* PipelineRun, data included: the loaded config judges it (Admission), the *)
(* builder makes the run, and the labels and annotations of the run are    *)
(* all that leads back to the request.                                     *)
(*                                                                         *)
(* A request is its name, its namespace, the labels its user gave it and   *)
(* its spec: what Admission knows of it, and the timeouts.  The name of    *)
(* the workspace and spec.params, which are copied, are left out.          *)
(***************************************************************************)
EXTENDS Admission

CONSTANTS
    InternalRequests,   \* the requests there are
    NoRun,              \* no PipelineRun has been built
    Namespaces,         \* entries of the allow list
    URLs,               \* entries of the list of git resolver URLs
    Accounts,           \* entries of the list of service accounts
    MaxEntries          \* longest list of a config

ASSUME ParamsAssumption ==
    \A req \in InternalRequests :
        req.spec.params \in Seq([name : STRING, value : STRING])

VARIABLES
    policy,     \* Adapter.internalServicesConfig
    request,    \* Adapter.internalRequest
    run         \* the PipelineRun built for it, or NoRun

vars == <<policy, request, run>>

-----------------------------------------------------------------------------
(* The labels, and the type that a pipeline of this service has.           *)
InternalRequestNameLabel == "internal-services/name"
InternalRequestNamespaceLabel == "internal-services/namespace"
PipelinesTypeLabel == "pipelines/type"
PipelineTypeRelease == "release"

SystemLabels ==
    {InternalRequestNameLabel, InternalRequestNamespaceLabel, PipelinesTypeLabel}

SystemLabel(req, label) ==
    CASE label = InternalRequestNameLabel -> req.name
      [] label = InternalRequestNamespaceLabel -> req.namespace
      [] label = PipelinesTypeLabel -> PipelineTypeRelease

(* Defect: the labels of the user are copied last.                         *)
LabelsOf_UserLast(req) ==
    [label \in DOMAIN req.labels \cup SystemLabels |->
        IF label \in DOMAIN req.labels THEN req.labels[label]
        ELSE SystemLabel(req, label)]

(* WithInternalRequest: the labels of the user, then those of the system.  *)
LabelsOf(req) ==
    [label \in DOMAIN req.labels \cup SystemLabels |->
        IF label \in SystemLabels THEN SystemLabel(req, label)
        ELSE req.labels[label]]

(* WithOwner.  The type is that of the copy read from the cache, which     *)
(* sets it: the error that SetOwnerAnnotations returns without a type, and *)
(* that WithOwner ignores, does not occur.                                 *)
OwnerType == "InternalRequest.appstudio.redhat.com"
KeyOf(req) == <<req.namespace, req.name>>
Keys == {KeyOf(req) : req \in InternalRequests}
AnnotationsOf(req) == [ type |-> OwnerType, namespacedName |-> KeyOf(req) ]

Param(name, value) == [name |-> name, value |-> value]

ToTektonPipelineRef(spec) == [ resolver |-> spec.resolver, params |-> spec.params ]

(* Defect: a cluster pipeline is looked for where the user says.           *)
PipelineRefOf_AnyNamespace(req) == ToTektonPipelineRef(req.spec)

(* WithPipelineRef: the user's reference, and for the cluster resolver the *)
(* namespace of the request as the place of the pipeline.                  *)
PipelineRefOf(req) ==
    LET ref == ToTektonPipelineRef(req.spec)
    IN  IF ref.resolver = "cluster"
        THEN [ref EXCEPT !.params = @ \o << Param("namespace", req.namespace),
                                            Param("kind", "pipeline") >>]
        ELSE ref

(* The workspace is a volume of the size that the config gives.            *)
VolumeClaimTemplate(cfg) == cfg.volumeSize

(* createInternalRequestPipelineRun up to the Create.  A zero value of the *)
(* timeouts is left out, and Tekton's defaults apply.                      *)
Built(cfg, req) ==
    [ labels         |-> LabelsOf(req),
      annotations    |-> AnnotationsOf(req),
      pipelineRef    |-> PipelineRefOf(req),
      serviceAccount |-> req.spec.serviceAccount,
      timeouts       |-> IF req.spec.timeouts = {} THEN "default"
                         ELSE req.spec.timeouts,
      volumeSize     |-> VolumeClaimTemplate(cfg) ]

-----------------------------------------------------------------------------
(* What leads from a run to its request.                                   *)

Carries(r, label, value) == label \in DOMAIN r.labels /\ r.labels[label] = value

(* The manager's cache holds the PipelineRuns of this type only.           *)
InCache(r) == Carries(r, PipelinesTypeLabel, PipelineTypeRelease)

(* GetInternalRequestPipelineRun's selector.                               *)
MatchingLabels(r, key) ==
    /\ InCache(r)
    /\ Carries(r, InternalRequestNamespaceLabel, key[1])
    /\ Carries(r, InternalRequestNameLabel, key[2])

(* The requests that an event of the run queues, once the run passed the   *)
(* predicate's isInternalRequestsPipelineRun.  The code looks for the kind *)
(* within the annotation; OwnerType is the only one here that contains it. *)
isInternalRequestsPipelineRun(r) == r.annotations.type = OwnerType
EnqueueRequestForAnnotation(r) ==
    IF InCache(r) /\ isInternalRequestsPipelineRun(r)
    THEN {r.annotations.namespacedName} ELSE {}

(* Tekton refuses a reference that gives a parameter twice.                *)
ParamsAreUnique(r) ==
    LET params == r.pipelineRef.params
    IN  \A i, j \in DOMAIN params : params[i].name = params[j].name => i = j

-----------------------------------------------------------------------------
(* There is no config, or one whose lists the administrators fill; the CRD *)
(* gives it the size of a volume.                                          *)
EmptyConfig == [DefaultConfig EXCEPT !.volumeSize = "1Gi"]

Init ==
    /\ policy \in {DefaultConfig, EmptyConfig}
    /\ request \in InternalRequests
    /\ run = NoRun

CanAdd(list, x) ==
    /\ run = NoRun /\ policy # DefaultConfig
    /\ Len(list) < MaxEntries /\ ~IsListed(list, x)

AllowNamespace(n) ==
    /\ CanAdd(policy.allowList, n)
    /\ policy' = [policy EXCEPT !.allowList = Append(@, n)]
    /\ UNCHANGED <<request, run>>

AllowURL(u) ==
    /\ CanAdd(policy.allowedGitResolverURLs, u)
    /\ policy' = [policy EXCEPT !.allowedGitResolverURLs = Append(@, u)]
    /\ UNCHANGED <<request, run>>

AllowServiceAccount(a) ==
    /\ CanAdd(policy.allowedServiceAccounts, a)
    /\ policy' = [policy EXCEPT !.allowedServiceAccounts = Append(@, a)]
    /\ UNCHANGED <<request, run>>

(* The request is allowed and goes on to the creation of its run.          *)
Build ==
    /\ run = NoRun
    /\ RequestIsAllowed(policy, request.namespace, request.spec)
    /\ run' = Built(policy, request)
    /\ UNCHANGED <<policy, request>>

Next ==
    \/ \E n \in Namespaces : AllowNamespace(n)
    \/ \E u \in URLs : AllowURL(u)
    \/ \E a \in Accounts : AllowServiceAccount(a)
    \/ Build

Spec == Init /\ [][Next]_vars

-----------------------------------------------------------------------------
(* The run leads back to its request, whatever labels the user chose: the  *)
(* cache holds it, the selector of this request and of no other finds it,  *)
(* and its end queues this request and no other.                           *)
RunLeadsBack ==
    run # NoRun
    => /\ \A key \in Keys : MatchingLabels(run, key) <=> key = KeyOf(request)
       /\ EnqueueRequestForAnnotation(run) = {KeyOf(request)}

(* What Tekton is asked to fetch and to run as is what was judged: a run   *)
(* that it accepts comes from an allowed repository if it comes from git,  *)
(* from the request's own namespace if it comes from the cluster, and runs *)
(* as an allowed service account or as the default one.                    *)
RunIsWhatWasJudged ==
    run # NoRun /\ ParamsAreUnique(run)
    => LET ref == run.pipelineRef IN
       /\ IsListed(policy.allowList, request.namespace)
       /\ \A i \in DOMAIN ref.params :
            /\ ref.resolver = "git" /\ ref.params[i].name = "url"
               /\ policy.allowedGitResolverURLs # <<>>
               => IsListed(policy.allowedGitResolverURLs, ref.params[i].value)
            /\ ref.resolver = "cluster" /\ ref.params[i].name = "namespace"
               => ref.params[i].value = request.namespace
       /\ run.serviceAccount # "" /\ policy.allowedServiceAccounts # <<>>
          => IsListed(policy.allowedServiceAccounts, run.serviceAccount)

-----------------------------------------------------------------------------
(* Reference: the rules as the tests of EnsureRequestIsAllowed state them. *)
(* A namespace that is not in the allow list breaks a rule, and so does    *)
(* every namespace when the list is empty; a git url breaks one that is    *)
(* not in a list with entries, and so does a service account, but not the  *)
(* lack of one.  The url is the first one of the resolver's parameters.    *)
FirstURL(params, u) ==
    \/ \E i \in DOMAIN params :
         /\ params[i].name = "url" /\ params[i].value = u
         /\ \A j \in 1..(i - 1) : params[j].name # "url"
    \/ u = "" /\ \A i \in DOMAIN params : params[i].name # "url"

Violated ==
    {rule \in {"namespace", "url", "serviceAccount"} :
        CASE rule = "namespace" -> ~IsListed(policy.allowList, request.namespace)
          [] rule = "url" ->
               /\ request.spec.resolver = "git"
               /\ Len(policy.allowedGitResolverURLs) > 0
               /\ \A i \in DOMAIN policy.allowedGitResolverURLs :
                    ~FirstURL(request.spec.params, policy.allowedGitResolverURLs[i])
          [] rule = "serviceAccount" ->
               /\ Len(policy.allowedServiceAccounts) > 0
               /\ request.spec.serviceAccount # ""
               /\ ~IsListed(policy.allowedServiceAccounts, request.spec.serviceAccount)}

(* Through the nested loops of EnsureRequestIsAllowed and its two checks a *)
(* request is turned down exactly when it breaks a rule of the tests, and  *)
(* the rule that is blamed is one that the request does break.             *)
VerdictIsRight ==
    LET verdict == RejectedBy(policy, request.namespace, request.spec)
    IN  IF Violated = {} THEN verdict = "none" ELSE verdict \in Violated

-----------------------------------------------------------------------------
(* What a comment says of one of the lists, and what does not hold.        *)

(* The comment of allowedServiceAccounts: unless the list is empty, only   *)
(* requests that specify an account in it are allowed.                     *)
ListedAccountsOnly ==
    run # NoRun /\ policy.allowedServiceAccounts # <<>>
    => IsListed(policy.allowedServiceAccounts, run.serviceAccount)
=============================================================================
