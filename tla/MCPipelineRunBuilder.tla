------------------------ MODULE MCPipelineRunBuilder ------------------------
(* Small requests and configs for TLC.                                     *)
EXTENDS PipelineRunBuilder

MCNamespaces == {"tenant", "stranger"}
MCURLs == {"", "one", "two"}
MCAccounts == {"builder", "root"}
Names == {"a", "b"}

(* Parameters of a resolver: none, one url, a url after another parameter, *)
(* and two urls, of which only the first one is judged.                    *)
ParamLists ==
    {<<>>} \cup {<<Param("url", u)>> : u \in MCURLs}
           \cup {<<Param("revision", "one"), Param("url", u)>> : u \in MCURLs}
           \cup {<<Param("url", u), Param("url", v)>> : u, v \in MCURLs}

(* A cluster pipeline, in a namespace of the user's choice or not.         *)
ClusterParams ==
    {<<>>, <<Param("namespace", "stranger")>>, <<Param("kind", "task")>>}

NoLabels == [label \in {} |-> ""]

(* Requests that differ in what is judged, ...                             *)
Judged ==
    [ name : {"a"}, namespace : MCNamespaces, labels : {NoLabels},
      spec : [ resolver : {"git", "cluster"}, params : ParamLists,
               serviceAccount : MCAccounts \cup {""}, timeouts : {{}} ] ]

(* ... and in the labels that their users gave them, among them those that *)
(* the controller uses itself.                                             *)
UserLabels ==
    UNION {[labels -> {"b", "stranger"}] :
              labels \in SUBSET (SystemLabels \cup {"team"})}

Labelled ==
    [ name : Names, namespace : MCNamespaces, labels : UserLabels,
      spec : [ resolver : {"cluster"}, params : ClusterParams,
               serviceAccount : {"builder"}, timeouts : {{"1h"}} ] ]

MCInternalRequests == Judged \cup Labelled
=============================================================================
