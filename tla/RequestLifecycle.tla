--------------------------- MODULE RequestLifecycle ---------------------------
(***************************************************************************)
(* What the controller promises about one name of InternalRequest, without *)
(* queues, caches, patches or retries: the phases a request goes through,  *)
(* and when the pipeline it asks for may execute.                          *)
(*                                                                         *)
(* A request executes once at most, and starts to only while it is         *)
(* pending.  It runs and reports an outcome only on the strength of an     *)
(* execution: its own, which is over by the time it reports, or one of an  *)
(* earlier request of its name (Inherit).  It is rejected while it is      *)
(* pending, but also when it already runs (Revoke), and what executes for  *)
(* it then goes on.  It does not go away while it executes.                *)
(***************************************************************************)
CONSTANT Requests

VARIABLES
    phase,       \* where each request is in its life
    execution,   \* what became of the pipeline it asks for
    used         \* the names that an earlier request executed under

vars == <<phase, execution, used>>

Phases == {"absent", "pending", "running", "succeeded", "failed", "rejected"}

Init ==
    /\ phase = [k \in Requests |-> "absent"]
    /\ execution = [k \in Requests |-> "none"]
    /\ used = {}

Moves(k, from, to) ==
    /\ phase[k] \in from
    /\ phase' = [phase EXCEPT ![k] = to]

Executes(k, from, to) ==
    /\ execution[k] = from
    /\ execution' = [execution EXCEPT ![k] = to]

(* A user creates the request; nothing has executed for it yet.            *)
Submit(k) ==
    /\ Moves(k, {"absent"}, "pending")
    /\ execution' = [execution EXCEPT ![k] = "none"]
    /\ used' = IF execution[k] = "none" THEN used ELSE used \cup {k}

(* The PipelineRun is created, and it ends or is cancelled.                *)
Start(k) ==
    /\ phase[k] = "pending"
    /\ Executes(k, "none", "active")
    /\ UNCHANGED <<phase, used>>
End(k) == Executes(k, "active", "over") /\ UNCHANGED <<phase, used>>

(* The request is marked Running once there is a run under its name.       *)
Run(k) ==
    /\ execution[k] # "none" \/ k \in used
    /\ Moves(k, {"pending"}, "running")
    /\ UNCHANGED <<execution, used>>

(* It is turned down before it is marked Running, or afterwards: it is     *)
(* judged again with every reconcile.                                      *)
Reject(k) == Moves(k, {"pending"}, "rejected") /\ UNCHANGED <<execution, used>>
Revoke(k) == Moves(k, {"running"}, "rejected") /\ UNCHANGED <<execution, used>>

(* It reports the outcome of its own execution, or that of an earlier      *)
(* request of its name when it has had none.                               *)
Outcome(k) ==
    /\ \E outcome \in {"succeeded", "failed"} : Moves(k, {"running"}, outcome)
    /\ UNCHANGED <<execution, used>>
Conclude(k) == execution[k] = "over" /\ Outcome(k)
Inherit(k) == execution[k] = "none" /\ k \in used /\ Outcome(k)

(* The request is gone from the cluster.                                   *)
Remove(k) ==
    /\ execution[k] # "active"
    /\ Moves(k, Phases \ {"absent"}, "absent")
    /\ UNCHANGED <<execution, used>>

Next ==
    \E k \in Requests :
        \/ Submit(k) \/ Start(k) \/ End(k) \/ Run(k) \/ Reject(k)
        \/ Revoke(k) \/ Conclude(k) \/ Inherit(k) \/ Remove(k)

Spec == Init /\ [][Next]_vars
=============================================================================
