----------------------- MODULE PipelineRunBuilderProofs -----------------------
(***************************************************************************)
(* The verdict on a request is the one the rules give, and the PipelineRun *)
(* of an allowed request is what was judged and leads back to it: for any  *)
(* request, any labels, and lists of any length.                           *)
(***************************************************************************)
EXTENDS PipelineRunBuilder, WellFoundedInduction, TLAPS

(* The lists of the config are sequences.  The run was built from the      *)
(* request and the config that the worker still holds, and was allowed.    *)
Configs ==
    [ allowList : Seq(Namespaces), allowedGitResolverURLs : Seq(URLs),
      allowedServiceAccounts : Seq(Accounts), debug : BOOLEAN,
      volumeSize : {"", "1Gi"} ]

BuiltInv ==
    run # NoRun => /\ run = Built(policy, request)
                   /\ RequestIsAllowed(policy, request.namespace, request.spec)

BuilderInv == request \in InternalRequests /\ policy \in Configs /\ BuiltInv

LEMMA BuilderInit ==
    ASSUME Init
    PROVE  BuilderInv
<1>1. <<>> \in Seq(Namespaces) /\ <<>> \in Seq(URLs) /\ <<>> \in Seq(Accounts)
  OBVIOUS
<1>2. policy \in Configs
  <2>1. DefaultConfig \in Configs
    BY <1>1 DEF DefaultConfig, Configs
  <2>2. EmptyConfig \in Configs
    BY <2>1 DEF EmptyConfig, Configs
  <2> QED BY <2>1, <2>2 DEF Init
<1> QED BY <1>2 DEF Init, BuilderInv, BuiltInv

LEMMA ListTypes ==
    ASSUME BuilderInv
    PROVE  /\ policy.allowList \in Seq(Namespaces)
           /\ policy.allowedGitResolverURLs \in Seq(URLs)
           /\ policy.allowedServiceAccounts \in Seq(Accounts)
BY DEF BuilderInv, Configs

LEMMA BuilderStep ==
    ASSUME BuilderInv, [Next]_vars
    PROVE  BuilderInv'
<1>1. ASSUME NEW n \in Namespaces, AllowNamespace(n) PROVE BuilderInv'
  <2>1. Append(policy.allowList, n) \in Seq(Namespaces)
    BY ListTypes
  <2> QED BY <1>1, <2>1 DEF AllowNamespace, CanAdd, BuilderInv, Configs, BuiltInv
<1>2. ASSUME NEW u \in URLs, AllowURL(u) PROVE BuilderInv'
  <2>1. Append(policy.allowedGitResolverURLs, u) \in Seq(URLs)
    BY ListTypes
  <2> QED BY <1>2, <2>1 DEF AllowURL, CanAdd, BuilderInv, Configs, BuiltInv
<1>3. ASSUME NEW a \in Accounts, AllowServiceAccount(a) PROVE BuilderInv'
  <2>1. Append(policy.allowedServiceAccounts, a) \in Seq(Accounts)
    BY ListTypes
  <2> QED BY <1>3, <2>1 DEF AllowServiceAccount, CanAdd, BuilderInv, Configs, BuiltInv
<1>4. CASE Build
  BY <1>4 DEF Build, BuilderInv, Configs, BuiltInv
<1>5. CASE UNCHANGED vars
  BY <1>5 DEF vars, BuilderInv, Configs, BuiltInv
<1> QED BY <1>1, <1>2, <1>3, <1>4, <1>5 DEF Next

LEMMA BuilderCorrect == Spec => []BuilderInv
<1>1. Init => BuilderInv
  BY BuilderInit
<1>2. BuilderInv /\ [Next]_vars => BuilderInv'
  BY BuilderStep
<1> QED BY <1>1, <1>2, PTL DEF Spec

-----------------------------------------------------------------------------
(* The labels of the system are there, whatever the labels of the user.    *)
LEMMA SystemLabelsWin ==
    ASSUME NEW cfg, NEW req, NEW value
    PROVE  LET r == Built(cfg, req) IN
           /\ InCache(r)
           /\ Carries(r, InternalRequestNameLabel, value) <=> value = req.name
           /\ Carries(r, InternalRequestNamespaceLabel, value) <=> value = req.namespace
<1>1. /\ InternalRequestNameLabel # InternalRequestNamespaceLabel
      /\ InternalRequestNameLabel # PipelinesTypeLabel
      /\ InternalRequestNamespaceLabel # PipelinesTypeLabel
  BY DEF InternalRequestNameLabel, InternalRequestNamespaceLabel, PipelinesTypeLabel
<1>2. Built(cfg, req).labels = LabelsOf(req)
  BY DEF Built
<1>3. /\ SystemLabel(req, InternalRequestNameLabel) = req.name
      /\ SystemLabel(req, InternalRequestNamespaceLabel) = req.namespace
      /\ SystemLabel(req, PipelinesTypeLabel) = PipelineTypeRelease
  BY <1>1 DEF SystemLabel
<1>4. \A label \in SystemLabels :
        /\ label \in DOMAIN LabelsOf(req)
        /\ LabelsOf(req)[label] = SystemLabel(req, label)
  BY DEF LabelsOf
<1> QED BY <1>2, <1>3, <1>4 DEF InCache, Carries, SystemLabels

(* A PipelineRun is found by its own request and by no other, and its end  *)
(* queues its own request and no other.                                    *)
THEOREM RunsLeadBack == Spec => []RunLeadsBack
<1>1. ASSUME BuilderInv PROVE RunLeadsBack
  <2> SUFFICES ASSUME run # NoRun PROVE
        /\ \A key \in Keys : MatchingLabels(run, key) <=> key = KeyOf(request)
        /\ EnqueueRequestForAnnotation(run) = {KeyOf(request)}
    BY DEF RunLeadsBack
  <2>1. run = Built(policy, request)
    BY <1>1 DEF BuilderInv, BuiltInv
  <2>2. ASSUME NEW key \in Keys PROVE MatchingLabels(run, key) <=> key = KeyOf(request)
    <3>1. PICK other \in InternalRequests : key = <<other.namespace, other.name>>
      BY DEF Keys, KeyOf
    <3>2. MatchingLabels(run, key)
          <=> other.namespace = request.namespace /\ other.name = request.name
      BY <2>1, <3>1, SystemLabelsWin DEF MatchingLabels
    <3> QED BY <3>1, <3>2 DEF KeyOf
  <2>3. run.annotations = AnnotationsOf(request) /\ InCache(run)
    BY <2>1, SystemLabelsWin DEF Built
  <2>4. EnqueueRequestForAnnotation(run) = {KeyOf(request)}
    BY <2>3 DEF EnqueueRequestForAnnotation, isInternalRequestsPipelineRun, AnnotationsOf
  <2> QED BY <2>2, <2>4
<1> QED BY <1>1, BuilderCorrect, PTL

-----------------------------------------------------------------------------
(* The url that is judged is the first one.                                *)
LEMMA FirstURLIsJudged ==
    ASSUME NEW params \in Seq([name : STRING, value : STRING]), NEW u
    PROVE  FirstURL(params, u) <=> u = ResolverURL(params)
<1> DEFINE urls == {i \in DOMAIN params : params[i].name = "url"}
           first == CHOOSE i \in urls : \A j \in urls : i <= j
<1>1. DOMAIN params = 1..Len(params) /\ Len(params) \in Nat
  OBVIOUS
<1>2. urls \subseteq Nat
  BY <1>1
<1>3. CASE urls = {}
  <2>1. \A i \in DOMAIN params : params[i].name # "url"
    BY <1>3
  <2>2. ResolverURL(params) = ""
    BY <1>3 DEF ResolverURL
  <2> QED BY <2>1, <2>2 DEF FirstURL
<1>4. CASE urls # {}
  <2>1. \E i \in urls : \A j \in urls : ~(<<j, i>> \in OpToRel(<, Nat))
    BY <1>2, <1>4, NatLessThanWellFounded, WFMin, Zenon
  <2>2. \E i \in urls : \A j \in urls : i <= j
    <3>1. PICK i \in urls : \A j \in urls : ~(<<j, i>> \in OpToRel(<, Nat))
      BY <2>1
    <3>2. ASSUME NEW j \in urls PROVE i <= j
      <4>1. ~(j < i)
        BY <1>2, <3>1 DEF OpToRel
      <4> QED BY <1>2, <4>1
    <3> QED BY <3>2
  <2>3. first \in urls /\ \A j \in urls : first <= j
    BY <2>2
  <2>4. ResolverURL(params) = params[first].value
    BY <1>4 DEF ResolverURL
  <2> HIDE DEF first
  <2>5. first \in DOMAIN params /\ params[first].name = "url"
    BY <2>3
  <2>6. \A j \in 1..(first - 1) : params[j].name # "url"
    BY <1>1, <2>3
  <2>7. ASSUME NEW i \in DOMAIN params, params[i].name = "url",
               \A j \in 1..(i - 1) : params[j].name # "url"
        PROVE  i = first
    BY <1>1, <2>3, <2>7
  <2>8. ASSUME FirstURL(params, u) PROVE u = params[first].value
    BY <2>5, <2>7, <2>8 DEF FirstURL
  <2>9. FirstURL(params, params[first].value)
    BY <2>5, <2>6 DEF FirstURL
  <2> QED BY <2>4, <2>8, <2>9
<1> QED BY <1>3, <1>4

(* A request is turned down exactly when it breaks a rule of the config.   *)
THEOREM VerdictsAreRight == Spec => []VerdictIsRight
<1>1. ASSUME BuilderInv PROVE VerdictIsRight
  <2> DEFINE spec == request.spec
             ns == request.namespace
  <2>1. spec.params \in Seq([name : STRING, value : STRING])
    BY <1>1, ParamsAssumption DEF BuilderInv
  <2>2. /\ Len(policy.allowedGitResolverURLs) > 0 <=> policy.allowedGitResolverURLs # <<>>
        /\ Len(policy.allowedServiceAccounts) > 0 <=> policy.allowedServiceAccounts # <<>>
    BY <1>1, ListTypes
  <2>3. "namespace" \in Violated <=> ~IsListed(policy.allowList, ns)
    BY DEF Violated
  <2>4. "url" \in Violated <=> ~GitResolverURLIsAllowed(policy, spec)
    BY <2>1, <2>2, FirstURLIsJudged DEF Violated, GitResolverURLIsAllowed, IsListed
  <2>5. "serviceAccount" \in Violated <=> ~ServiceAccountIsAllowed(policy, spec)
    BY <2>2 DEF Violated, ServiceAccountIsAllowed
  <2>6. Violated \subseteq {"namespace", "url", "serviceAccount"}
    BY DEF Violated
  <2> QED BY <2>3, <2>4, <2>5, <2>6 DEF VerdictIsRight, RejectedBy
<1> QED BY <1>1, BuilderCorrect, PTL

-----------------------------------------------------------------------------
(* An accepted run fetches its pipeline from where the config and the      *)
(* namespace of the request allow it, and runs as an allowed account.      *)
THEOREM RunsAreWhatWasJudged == Spec => []RunIsWhatWasJudged
<1>1. ASSUME BuilderInv, run # NoRun, ParamsAreUnique(run)
      PROVE  LET ref == run.pipelineRef IN
             /\ IsListed(policy.allowList, request.namespace)
             /\ \A i \in DOMAIN ref.params :
                  /\ ref.resolver = "git" /\ ref.params[i].name = "url"
                     /\ policy.allowedGitResolverURLs # <<>>
                     => IsListed(policy.allowedGitResolverURLs, ref.params[i].value)
                  /\ ref.resolver = "cluster" /\ ref.params[i].name = "namespace"
                     => ref.params[i].value = request.namespace
             /\ run.serviceAccount # "" /\ policy.allowedServiceAccounts # <<>>
                => IsListed(policy.allowedServiceAccounts, run.serviceAccount)
  <2> DEFINE spec == request.spec
             ref == run.pipelineRef
  <2>1. /\ run = Built(policy, request)
        /\ RequestIsAllowed(policy, request.namespace, spec)
        /\ spec.params \in Seq([name : STRING, value : STRING])
    BY <1>1, ParamsAssumption DEF BuilderInv, BuiltInv
  <2>2. /\ IsListed(policy.allowList, request.namespace)
        /\ GitResolverURLIsAllowed(policy, spec)
        /\ ServiceAccountIsAllowed(policy, spec)
    BY <2>1 DEF RequestIsAllowed, RejectedBy
  <2>3. run.serviceAccount = spec.serviceAccount /\ ref = PipelineRefOf(request)
    BY <2>1 DEF Built
  <2>4. /\ ref.resolver = spec.resolver
        /\ ref.resolver = "git" => ref.params = spec.params
        /\ ref.resolver = "cluster" =>
             ref.params = spec.params \o << Param("namespace", request.namespace),
                                            Param("kind", "pipeline") >>
    BY <2>3 DEF PipelineRefOf, ToTektonPipelineRef
  <2>5. \A i, j \in DOMAIN ref.params : ref.params[i].name = ref.params[j].name => i = j
    BY <1>1 DEF ParamsAreUnique
  <2>6. ASSUME NEW i \in DOMAIN ref.params, ref.resolver = "git", ref.params[i].name = "url"
        PROVE  ref.params[i].value = ResolverURL(spec.params)
    <3>1. ref.params = spec.params /\ i \in DOMAIN spec.params
      BY <2>4, <2>6
    <3>2. \A j \in 1..(i - 1) : spec.params[j].name # "url"
      BY <2>1, <2>5, <2>6, <3>1
    <3>3. spec.params[i].name = "url"
      BY <2>6, <3>1
    <3>4. FirstURL(spec.params, spec.params[i].value)
      BY <3>1, <3>2, <3>3 DEF FirstURL
    <3> QED BY <2>1, <3>1, <3>4, FirstURLIsJudged
  <2>7. ASSUME NEW i \in DOMAIN ref.params, ref.resolver = "cluster",
               ref.params[i].name = "namespace"
        PROVE  ref.params[i].value = request.namespace
    <3> DEFINE n == Len(spec.params) + 1
    <3>1. n \in DOMAIN ref.params /\ ref.params[n] = Param("namespace", request.namespace)
      BY <2>1, <2>4, <2>7
    <3>2. i = n
      BY <2>5, <2>7, <3>1 DEF Param
    <3> QED BY <3>1, <3>2 DEF Param
  <2> HIDE DEF spec, ref
  <2>8. \A i \in DOMAIN ref.params :
          /\ ref.resolver = "git" /\ ref.params[i].name = "url"
             /\ policy.allowedGitResolverURLs # <<>>
             => IsListed(policy.allowedGitResolverURLs, ref.params[i].value)
          /\ ref.resolver = "cluster" /\ ref.params[i].name = "namespace"
             => ref.params[i].value = request.namespace
    BY <2>2, <2>4, <2>6, <2>7 DEF GitResolverURLIsAllowed
  <2>9. run.serviceAccount # "" /\ policy.allowedServiceAccounts # <<>>
        => IsListed(policy.allowedServiceAccounts, run.serviceAccount)
    BY <2>2, <2>3 DEF ServiceAccountIsAllowed
  <2> QED BY <2>2, <2>8, <2>9 DEF ref
<1>2. BuilderInv => RunIsWhatWasJudged
  BY <1>1 DEF RunIsWhatWasJudged
<1> QED BY <1>2, BuilderCorrect, PTL
=============================================================================
