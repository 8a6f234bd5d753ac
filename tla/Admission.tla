------------------------------- MODULE Admission -------------------------------
(***************************************************************************)
(* Which InternalRequests an InternalServicesConfig lets through:          *)
(* EnsureRequestIsAllowed and the two checks it calls.                     *)
(*                                                                         *)
(* A config is a record of the lists of its spec, each a sequence as in    *)
(* the resource, of the debug flag, and of the size of its volume claim.   *)
(* A request is its namespace and its spec: the resolver, the resolver's   *)
(* parameters (a sequence of name/value pairs) and the service account, "" *)
(* when none is given.                                                     *)
(***************************************************************************)
EXTENDS Naturals, Sequences

(* What the loops over a list compute: is x one of its elements.           *)
IsListed(list, x) == \E i \in DOMAIN list : list[i] = x

(* The config used when none exists in the manager's namespace: only its   *)
(* name and namespace are set, every field of its spec is the zero value.  *)
DefaultConfig ==
    [ allowList |-> <<>>, allowedGitResolverURLs |-> <<>>,
      allowedServiceAccounts |-> <<>>, debug |-> FALSE, volumeSize |-> "" ]

(* The value of the first parameter called "url", "" when there is none.   *)
ResolverURL(params) ==
    LET urls == {i \in DOMAIN params : params[i].name = "url"}
    IN  IF urls = {} THEN ""
        ELSE params[CHOOSE i \in urls : \A j \in urls : i <= j].value

(* Defect: an empty list allows no URL instead of all of them.             *)
GitResolverURLIsAllowed_EmptyAllowsNone(cfg, spec) ==
    \/ spec.resolver # "git"
    \/ IsListed(cfg.allowedGitResolverURLs, ResolverURL(spec.params))

GitResolverURLIsAllowed(cfg, spec) ==
    \/ spec.resolver # "git"
    \/ cfg.allowedGitResolverURLs = <<>>
    \/ IsListed(cfg.allowedGitResolverURLs, ResolverURL(spec.params))

ServiceAccountIsAllowed(cfg, spec) ==
    \/ cfg.allowedServiceAccounts = <<>>
    \/ spec.serviceAccount = ""
    \/ IsListed(cfg.allowedServiceAccounts, spec.serviceAccount)

(* The first check that turns the request down, "none" when it is allowed. *)
RejectedBy(cfg, namespace, spec) ==
    IF ~IsListed(cfg.allowList, namespace) THEN "namespace"
    ELSE IF ~GitResolverURLIsAllowed(cfg, spec) THEN "url"
    ELSE IF ~ServiceAccountIsAllowed(cfg, spec) THEN "serviceAccount"
    ELSE "none"

RequestIsAllowed(cfg, namespace, spec) ==
    RejectedBy(cfg, namespace, spec) = "none"
=============================================================================
