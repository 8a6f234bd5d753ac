------------------------------ MODULE RunOutcome ------------------------------
(***************************************************************************)
(* What the status of a request tells of a PipelineRun that is done:       *)
(* registerInternalRequestPipelineRunStatus, the results of a run that     *)
(* succeeded and the message of one that failed.                           *)
(*                                                                         *)
(* The message comes from the TaskRuns of the run, which the worker lists  *)
(* from an informer cache of their own: it may show less than the cluster  *)
(* holds when the end of the run is seen.  A text is modelled by its       *)
(* length in bytes, with the limits of the code.                           *)
(***************************************************************************)
EXTENDS Naturals, Sequences, SequencesExt

CONSTANTS
    TaskRuns,       \* names of the run's TaskRuns
    EntrySizes,     \* bytes of "name (reason): message", 0 for no message
    GenericSize,    \* bytes of the message of the PipelineRun's condition
    ResultLists,    \* results that a run may emit
    NoReport,       \* the request has not completed
    MaxFaults       \* how many calls may fail

(* maxLength of a condition's message in the CRD: a longer one is refused. *)
MaxLength == 32768

(* The message of the PipelineRun is a summary; it is not cut.             *)
ASSUME GenericAssumption == GenericSize \in 1..MaxLength

(* A run has finitely many TaskRuns, a text a length; results are a list.  *)
ASSUME TaskRunsAssumption == IsFiniteSet(TaskRuns)
ASSUME EntrySizesAssumption == EntrySizes \subseteq Nat
ASSUME ResultListsAssumption == \A list \in ResultLists : list \in Seq(ToSet(list))

VARIABLES
    run,        \* the PipelineRun: its phase and the results it emitted
    taskRuns,   \* internal cluster: the TaskRuns
    cached,     \* informer cache of the TaskRuns
    report,     \* what the request's status says of the run, or NoReport
    faults      \* calls that failed so far

vars == <<run, taskRuns, cached, report, faults>>

Sum(sizes) == FoldLeft(LAMBDA sum, n : sum + n, 0, sizes)

-----------------------------------------------------------------------------
(* The worker.                                                             *)

(* Defect: the results of any type are copied.                             *)
GetResultsFromPipelineRun_AnyType(list) ==
    [n \in {list[i].name : i \in DOMAIN list} |->
        list[CHOOSE i \in DOMAIN list : list[i].name = n].value]

(* A loop over the results that writes those of type string to a map.      *)
GetResultsFromPipelineRun(list) ==
    FoldLeft(LAMBDA map, result :
                IF result.type = "string"
                THEN [n \in DOMAIN map \cup {result.name} |->
                        IF n = result.name THEN result.value ELSE map[n]]
                ELSE map,
             [n \in {} |-> ""], list)

(* Defect: a TaskRun that has not failed, or not yet, is listed too.       *)
HasFailed_Any(taskRun) == taskRun.state # "none" /\ taskRun.size > 0

(* A Succeeded condition that is False, with a message.                    *)
HasFailed(taskRun) == taskRun.state = "failed" /\ taskRun.size > 0

(* The list has no particular order.                                       *)
FailedTaskRuns == {t \in TaskRuns : HasFailed(cached[t])}
ItemOrders == SetToSeqs(FailedTaskRuns)

(* Where the entry of the i-th failed TaskRun begins, after "; ".          *)
Offset(items, i) ==
    Sum([j \in 1..(i - 1) |-> cached[items[j]].size + 2])

Joined(items) ==
    IF items = <<>> THEN 0
    ELSE Offset(items, Len(items)) + cached[items[Len(items)]].size

Message(source, named, bytes) == [source |-> source, named |-> named, bytes |-> bytes]

(* Defect: the message is not cut.                                         *)
failedTaskRunMessage_Uncut(items) ==
    {Message("TaskRuns", ToSet(items), Joined(items))}

(* Defect: the suffix is added to a message of the full length.            *)
failedTaskRunMessage_SuffixOnTop(items) ==
    IF Joined(items) <= 4096 THEN {Message("TaskRuns", ToSet(items), Joined(items))}
    ELSE {Message("TaskRuns", ToSet(items), 4096 + 15)}

(* failedTaskRunMessage for the items of the list.  A message of more than *)
(* 4096 bytes is cut at byte 4081, and a suffix of 15 bytes says so.  The  *)
(* cut may leave the first bytes, up to 3, of a character: on the way to   *)
(* the API server each becomes a replacement character of 3 bytes.         *)
failedTaskRunMessage(items) ==
    IF Joined(items) <= 4096 THEN {Message("TaskRuns", ToSet(items), Joined(items))}
    ELSE LET kept == {i \in DOMAIN items : Offset(items, i) < 4081}
         IN  {Message("TaskRuns", {items[i] : i \in kept}, 4081 - rest + 3 * rest + 15) :
                rest \in 0..3}

(* The message MarkFailed gets: the one of the PipelineRun's condition if  *)
(* there is none of a TaskRun or if they cannot be listed.                 *)
FailureMessages(items) ==
    IF items = <<>> THEN {Message("PipelineRun", {}, GenericSize)}
    ELSE failedTaskRunMessage(items)

Succeeded(results) == [outcome |-> "succeeded", results |-> results]
Failed(message) == [outcome |-> "failed", message |-> message]

(* The status that the worker may compute; listing the TaskRuns may fail.  *)
Reports(listFails) ==
    IF run.phase = "succeeded"
    THEN {Succeeded(GetResultsFromPipelineRun(run.results))}
    ELSE UNION {{Failed(message) : message \in FailureMessages(items)} :
                   items \in IF listFails THEN {<<>>} ELSE ItemOrders}

(* The API server refuses a message that is too long.                      *)
Accepts(new) == new.outcome = "failed" => new.message.bytes <= MaxLength

Cost(fails) == IF fails THEN 1 ELSE 0

(* The patch may fail before or after it took effect.  After an error the  *)
(* request is reconciled again, unless its completion was stored.          *)
registerInternalRequestPipelineRunStatus ==
    /\ run.phase # "active"
    /\ report = NoReport
    /\ \E listFails \in {FALSE, run.phase = "failed"}, patchFails \in BOOLEAN :
         /\ faults' = faults + Cost(listFails) + Cost(patchFails)
         /\ faults' <= MaxFaults
         /\ \E new \in Reports(listFails) :
              \/ Accepts(new) /\ report' = new
              \/ (~Accepts(new) \/ patchFails) /\ UNCHANGED report
    /\ UNCHANGED <<run, taskRuns, cached>>

-----------------------------------------------------------------------------
(* Tekton, and the watch of the TaskRuns.                                  *)

StartTaskRun(t) ==
    /\ run.phase = "active"
    /\ taskRuns[t].state = "none"
    /\ taskRuns' = [taskRuns EXCEPT ![t].state = "running"]
    /\ UNCHANGED <<run, cached, report, faults>>

(* One that succeeded has a message as well.                               *)
EndTaskRun(t) ==
    /\ taskRuns[t].state = "running"
    /\ \E state \in {"succeeded", "failed"}, size \in EntrySizes :
         taskRuns' = [taskRuns EXCEPT ![t] = [state |-> state, size |-> size]]
    /\ UNCHANGED <<run, cached, report, faults>>

(* The run is done when its TaskRuns are: it has failed if one of them     *)
(* has, and may fail for reasons of its own.                               *)
EndRun ==
    /\ run.phase = "active"
    /\ \A t \in TaskRuns : taskRuns[t].state # "running"
    /\ \/ /\ \A t \in TaskRuns : taskRuns[t].state # "failed"
          /\ \E results \in ResultLists :
               run' = [phase |-> "succeeded", results |-> results]
       \/ run' = [phase |-> "failed", results |-> <<>>]
    /\ UNCHANGED <<taskRuns, cached, report, faults>>

DeliverTaskRun(t) ==
    /\ cached[t] # taskRuns[t]
    /\ cached' = [cached EXCEPT ![t] = taskRuns[t]]
    /\ UNCHANGED <<run, taskRuns, report, faults>>

-----------------------------------------------------------------------------
Init ==
    /\ run = [phase |-> "active", results |-> <<>>]
    /\ taskRuns = [t \in TaskRuns |-> [state |-> "none", size |-> 0]]
    /\ cached = taskRuns
    /\ report = NoReport
    /\ faults = 0

Next ==
    \/ registerInternalRequestPipelineRunStatus
    \/ \E t \in TaskRuns : StartTaskRun(t) \/ EndTaskRun(t) \/ DeliverTaskRun(t)
    \/ EndRun

(* A request whose reconcile failed is queued again, and Tekton ends what  *)
(* it started.                                                             *)
Spec ==
    /\ Init /\ [][Next]_vars
    /\ WF_vars(registerInternalRequestPipelineRunStatus)
    /\ WF_vars(EndRun) /\ \A t \in TaskRuns : WF_vars(EndTaskRun(t))

-----------------------------------------------------------------------------
HasReport(outcome) == report # NoReport /\ report.outcome = outcome

(* The stored message keeps to 4096 bytes, but for the 2 more that each of *)
(* the bytes of a cut character takes.                                     *)
MessageFits ==
    HasReport("failed") => report.message.bytes <= (IF report.message.source = "TaskRuns"
                                                    THEN 4096 + 6 ELSE MaxLength)

(* A message from TaskRuns names one at least, and only TaskRuns that did  *)
(* fail, however late the cache is and wherever the message was cut.       *)
CauseIsTrue ==
    HasReport("failed") /\ report.message.source = "TaskRuns"
    => /\ report.message.named # {}
       /\ \A t \in report.message.named : taskRuns[t].state = "failed"

(* The results of the request are the run's results of type string, and of *)
(* two with one name the last.                                             *)
ResultsAreReported ==
    HasReport("succeeded")
    => LET list == run.results
           Strings(n) == {i \in DOMAIN list : list[i].name = n /\ list[i].type = "string"}
       IN  /\ DOMAIN report.results
                = {list[i].name : i \in {j \in DOMAIN list : list[j].type = "string"}}
           /\ \A n \in DOMAIN report.results :
                \E i \in Strings(n) : /\ report.results[n] = list[i].value
                                      /\ \A j \in Strings(n) : j <= i

(* The end of a run is reported, however much its TaskRuns have to say.    *)
EveryEndIsReported == run.phase # "active" ~> report # NoReport
=============================================================================
