--------------------------- MODULE MCRequestMetrics ---------------------------
(* Small instances of RequestMetrics for TLC.                              *)
EXTENDS RequestMetrics

(* A pipeline from a repository that is allowed, and one that is not.      *)
Pipeline(url) ==
    [ resolver |-> "git", params |-> <<[name |-> "url", value |-> url]>>,
      serviceAccount |-> "" ]

MCSpecs == {Pipeline("trusted"), Pipeline("untrusted")}

MCConfigs ==
    {[ allowList |-> <<"tenant">>, allowedGitResolverURLs |-> <<"trusted">>,
       allowedServiceAccounts |-> <<>>, debug |-> FALSE, volumeSize |-> "1Gi" ]}

MCNamespaceOf == [k \in Requests |-> "tenant"]
=============================================================================
