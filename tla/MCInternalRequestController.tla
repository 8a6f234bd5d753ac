-------------------- MODULE MCInternalRequestController --------------------
(* Small instances of InternalRequestController for TLC.                   *)
EXTENDS InternalRequestController, TLC

Param(name, value) == [name |-> name, value |-> value]

(* Two git pipelines, one of them from a repository that is not allowed.   *)
Trusted == [ resolver |-> "git", params |-> <<Param("url", "trusted")>>,
             serviceAccount |-> "" ]
Untrusted == [ Trusted EXCEPT !.params = <<Param("url", "untrusted")>> ]

(* A parameter that is there twice: Tekton refuses the run.                *)
Malformed == [ Trusted EXCEPT !.params = @ \o @ ]

MCSpecs == {Trusted, Untrusted}
MCLiveSpecs == {Trusted, Malformed}
MCRefused == Requests \X {Malformed}
MCTrustedOnly == {Trusted}

(* One config allows the tenant's namespace and the trusted repository;    *)
(* the other one keeps the PipelineRuns.                                   *)
Open == [ allowList |-> <<"tenant">>, allowedGitResolverURLs |-> <<"trusted">>,
          allowedServiceAccounts |-> <<>>, debug |-> FALSE, volumeSize |-> "1Gi" ]
Debug == [ Open EXCEPT !.debug = TRUE ]

MCConfigs == {Open, Debug}
MCOpenOnly == {Open}

MCNamespaceOf == [k \in Requests |-> "tenant"]

RunSymmetry == Permutations(Runs)
=============================================================================
