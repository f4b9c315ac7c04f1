--------------------------- MODULE RuntimeContract ---------------------------
(***************************************************************************)
(* The runtime/v1 contract suite (k3smtest/runtimecontract): seven cases   *)
(* run in order against a runtime, each under its own deadline, each       *)
(* deleting the pod it created on the way out.  The runtime is external:   *)
(* it may break the contract in one way, may not answer in time, and may   *)
(* or may not have acted on a call it never answered.                      *)
(***************************************************************************)
EXTENDS Naturals, Sequences, FiniteSets

contractAbsentPodID == "absent"

(* The calls of each case, with the outcome it wants: "answer" any answer,   *)
(* the in-band error of it not looked at; "ok" one without an in-band error; *)
(* "body" a status that names the pod and a phase; "NotFound" an in-band     *)
(* NotFound.                                                                 *)
Op(call, pod, want) == [call |-> call, pod |-> pod, want |-> want]

checkRuntimeInfo == <<Op("GetRuntimeInfo", "", "named")>>
checkCreate == <<Op("CreatePod", "create", "body")>>
checkStatus == <<Op("CreatePod", "status", "ok"), Op("GetPodStatus", "status", "body")>>
checkStatusUnknown == <<Op("GetPodStatus", contractAbsentPodID, "NotFound")>>
checkWatch == <<Op("CreatePod", "watch", "ok"), Op("WatchPodStatus", "watch", "body")>>
checkStats == <<Op("CreatePod", "stats", "ok"), Op("ListPodStats", "stats", "attributed")>>

(* A delete case that does not repeat the delete. *)
checkDelete_Once ==
    <<Op("CreatePod", "delete", "ok"), Op("DeletePod", "delete", "answer"), Op("GetPodStatus", "delete", "NotFound")>>

checkDelete ==
    <<Op("CreatePod", "delete", "ok"), Op("DeletePod", "delete", "answer"), Op("GetPodStatus", "delete", "NotFound"),
      Op("DeletePod", "delete", "answer"), Op("DeletePod", contractAbsentPodID, "answer")>>

runtimeContractCases ==
    <<checkRuntimeInfo, checkCreate, checkStatus, checkStatusUnknown, checkWatch, checkStats, checkDelete>>

(* The ways a runtime may break the contract, one at a time. *)
Faults == {"none", "no name", "create without phase", "create refused", "status of another pod", "status refused",
           "watch without snapshot", "unknown is a transport error", "unknown is an empty status",
           "stats without pod", "delete refused", "delete keeps the pod", "repeated delete fails",
           "repeated delete refused", "never answers"}
KeepsPods == {"delete refused", "delete keeps the pod"}

VARIABLES fault,    \* how the runtime under test breaks the contract
          pods,     \* the pods it holds
          at,       \* the case under way, 1 to 7, then 8
          step,     \* the case's next call; past its last or failed, it returns
          expired,  \* the case's deadline has passed
          cleanup,  \* the pod the deferred cleanup deletes, {} if none
          results,  \* the verdicts so far, "" for nil
          lost      \* the pods whose creation or cleanup got no answer
vars == <<fault, pods, at, step, expired, cleanup, results, lost>>

Init ==
    /\ fault \in Faults
    /\ pods = {} /\ at = 1 /\ step = 1 /\ expired = FALSE /\ cleanup = {} /\ results = <<>> /\ lost = {}

Case == runtimeContractCases[at]
Running == at <= Len(runtimeContractCases) /\ Len(results) < at
op == Case[step]

(* What the runtime does on a call, and what it answers: "error" is a        *)
(* transport error, "refused" an in-band one (DeletePodResponse has one too).*)
Acts(o) == CASE o.call = "CreatePod" /\ fault # "create refused" -> pods \cup {o.pod}
             [] o.call = "DeletePod" /\ fault \notin KeepsPods -> pods \ {o.pod}
             [] OTHER -> pods

Answers(o) ==
    CASE o.call = "GetRuntimeInfo" -> IF fault = "no name" THEN "wrong" ELSE "named"
      [] o.call = "CreatePod" -> IF fault = "create refused" THEN "refused"
                                 ELSE IF fault = "create without phase" THEN "no phase" ELSE "body"
      [] o.call = "GetPodStatus" /\ o.pod \notin pods ->
            IF fault = "unknown is a transport error" THEN "error"
            ELSE IF fault = "unknown is an empty status" THEN "wrong" ELSE "NotFound"
      [] o.call = "GetPodStatus" -> IF fault = "status of another pod" THEN "wrong"
                                    ELSE IF fault = "status refused" THEN "refused" ELSE "body"
      [] o.call = "WatchPodStatus" -> IF fault = "watch without snapshot" THEN "error" ELSE "body"
      [] o.call = "ListPodStats" -> IF fault = "stats without pod" THEN "wrong" ELSE "attributed"
      [] o.call = "DeletePod" -> IF fault = "repeated delete fails" /\ o.pod \notin pods THEN "error"
                                 ELSE IF \/ fault = "delete refused" /\ o.pod \in pods
                                         \/ fault = "repeated delete refused" /\ o.pod \notin pods
                                 THEN "refused" ELSE "deleted"

(* Whether the suite is content with an answer. *)
Wanted(o, answer) ==
    /\ answer # "error"
    /\ \/ o.want = "answer"
       \/ o.want \in {"ok", answer} /\ answer # "refused"

-----------------------------------------------------------------------------
(* The next call of the case is answered.  A creation arms the cleanup       *)
(* unless it failed in transport.                                            *)
Answered ==
    /\ Running /\ step <= Len(Case) /\ fault # "never answers"
    /\ pods' = Acts(op)
    /\ cleanup' = IF op.call = "CreatePod" /\ Answers(op) # "error" THEN {op.pod} ELSE cleanup
    /\ IF Wanted(op, Answers(op))
         THEN step' = step + 1 /\ UNCHANGED results
         ELSE results' = Append(results, "failed") /\ UNCHANGED step
    /\ UNCHANGED <<fault, at, expired, lost>>

(* A case without a deadline. *)
TimedOut_Waits(acted) ==
    /\ Running /\ step <= Len(Case) /\ acted
    /\ UNCHANGED vars

(* The deadline passes with the call unanswered; the runtime may have acted. *)
TimedOut(acted) ==
    /\ Running /\ step <= Len(Case)
    /\ expired' = TRUE
    /\ pods' = IF acted THEN Acts(op) ELSE pods
    /\ results' = Append(results, "timed out")
    /\ lost' = IF op.call = "CreatePod" THEN lost \cup {op.pod} ELSE lost
    /\ UNCHANGED <<fault, at, step, cleanup>>

(* The case ran to its end. *)
Kept ==
    /\ Running /\ step > Len(Case)
    /\ results' = Append(results, "")
    /\ UNCHANGED <<fault, pods, at, step, expired, cleanup, lost>>

(* The deferred cleanup, under a deadline of its own, whatever the case's;   *)
(* its outcome is ignored.  Then the next case begins.                       *)
Cleanup(acted, answered) ==
    /\ Len(results) = at
    /\ answered => fault # "never answers"
    /\ pods' = IF acted /\ fault \notin KeepsPods THEN pods \ cleanup ELSE pods
    /\ lost' = IF answered THEN lost ELSE lost \cup cleanup
    /\ at' = at + 1 /\ step' = 1 /\ expired' = FALSE /\ cleanup' = {}
    /\ UNCHANGED <<fault, results>>

Done == at > Len(runtimeContractCases) /\ UNCHANGED vars

Next ==
    \/ Answered
    \/ \E acted \in BOOLEAN : TimedOut(acted)
    \/ Kept
    \/ Cleanup(TRUE, TRUE) \/ \E acted \in BOOLEAN : Cleanup(acted, FALSE)
    \/ Done

(* A call is answered or its deadline passes; a case that is over is cleaned *)
(* up after, for the cleanup's own deadline passes too.                      *)
Spec == Init /\ [][Next]_vars /\ WF_vars(Next)

-----------------------------------------------------------------------------
(* A fault no case looks for: checkDelete does not read the in-band error of *)
(* a DeletePodResponse, so a runtime that has deleted the pod may refuse the *)
(* same delete again, or that of a pod that never was.                       *)
Unseen == {"repeated delete refused"}

(* The suite's verdict is the runtime's: where every call was answered, all  *)
(* cases are kept exactly when the runtime breaks nothing the suite looks    *)
(* for; a delete that failed but kept the pod is found out by the status     *)
(* after it, a repeated one that fails in transport by its error             *)
(* (CheckRuntimeContract).                                                   *)
VerdictIsTheRuntimes ==
    at > Len(runtimeContractCases) /\ (\A i \in 1..Len(results) : results[i] # "timed out") =>
        ((\A i \in 1..Len(results) : results[i] = "") <=> fault \in {"none"} \cup Unseen)

(* A pod stays behind its case only when its creation or its cleanup got no  *)
(* answer, or the runtime cannot delete: a case that failed, or whose        *)
(* deadline passed on another call, still deletes its pod (createPod).       *)
OnlyUnansweredCallsLeavePods ==
    Running /\ step = 1 /\ fault \notin KeepsPods => pods \subseteq lost

(* The suite judges the runtime: answered calls alone decide between kept and *)
(* broken, and only calls without an answer leave a pod to the next case     *)
(* (CheckRuntimeContract).                                                   *)
SuiteJudgesTheRuntime == VerdictIsTheRuntimes /\ OnlyUnansweredCallsLeavePods

(* A runtime that never answers fails its cases and does not hang the suite: *)
(* one verdict a case, in the end (contractCaseTimeout).                     *)
SuiteEnds == <>(Len(results) = Len(runtimeContractCases))

(* Each case deletes the pods it created before it returns, so that cases    *)
(* are independent of each other.                                            *)
CasesAreIndependent == fault = "none" /\ step = 1 /\ Running => pods = {}
=============================================================================
