------------------------ MODULE PythonRuntimeHealth ------------------------
(***************************************************************************)
(* The Python twin of RuntimeHealth (frontier_protocol.runtime_health),    *)
(* written down from its own source.                                       *)
(*                                                                         *)
(* It gets documents like those of RuntimeHealth, as Python reads them:    *)
(* `malformed` is what this program finds wrong (strip, not trim), `timed` *)
(* and `age` are its own reading of the timestamps (fromisoformat, a time  *)
(* without an offset is UTC), and `float` of a check says that its         *)
(* stale_after_seconds is written like 60.0.                               *)
(***************************************************************************)
EXTENDS Integers

RUNTIME_HEALTH_LAYERS == {"process", "scheduler", "execution", "governance"}

PROPOSE_ONLY_REASONS == {"missing_verifier", "stale_verifier", "unratified_contract"}
HALTED_REASONS       == {"active_override", "no_ack_halt"}
BLOCKED_REASONS      == {"auth_failed", "credit_exhausted", "scheduler_stalled",
                         "worker_unavailable"}
ALLOWED_REASON_CODES == PROPOSE_ONLY_REASONS \cup HALTED_REASONS \cup BLOCKED_REASONS
                           \cup {"governance_gate_failed"}

(* isinstance(stale_after, int) is false of 60.0.                          *)
PositiveInteger(check) == ~check.float /\ check.stale_after >= 1

(* structural_failure: the failures that also count as errors.             *)
StructuralFailure(check) ==
    \/ check.malformed
    \/ check.status \notin {"pass", "fail", "unknown"}
    \/ check.reason \notin ALLOWED_REASON_CODES \cup {"no reason"}
    \/ ~PositiveInteger(check)

Bug_StaleAtBoundary(check) ==
    \/ check.status \in {"fail", "unknown"}
    \/ check.timed /\ PositiveInteger(check)
         /\ (check.age < 0 \/ check.age >= check.stale_after)

(* One of the three calls of classify() for this check.                    *)
Classified(check) ==
    \/ check.status \in {"fail", "unknown"}
    \/ check.timed /\ PositiveInteger(check) /\ check.age < 0
    \/ check.timed /\ PositiveInteger(check) /\ check.age > check.stale_after

(* _classify_issue: the list of the report the message goes to.            *)
ClassifyIssue(check) ==
    CASE check.reason \in HALTED_REASONS       -> "halted"
      [] check.reason \in BLOCKED_REASONS      -> "blockers"
      [] check.reason \in PROPOSE_ONLY_REASONS -> "propose_only"
      [] OTHER -> IF check.critical THEN "blockers" ELSE "degraded"

(* The report has something in this list.                                  *)
Listed(doc, list) == \E l \in RUNTIME_HEALTH_LAYERS :
    \/ list = "blockers" /\ doc.layers[l] = {}
    \/ \E k \in doc.layers[l] : Classified(k) /\ ClassifyIssue(k) = list

(* A null aggregate_policy.status is no error here.                        *)
Errors(doc) ==
    \/ doc.malformed
    \/ \E l \in RUNTIME_HEALTH_LAYERS : \E k \in doc.layers[l] :
          StructuralFailure(k) \/ ~k.timed

EvaluateRuntimeHealth(doc) ==
    IF Errors(doc)                       THEN "invalid"
    ELSE IF Listed(doc, "halted")        THEN "halted"
    ELSE IF Listed(doc, "blockers")      THEN "blocked"
    ELSE IF Listed(doc, "propose_only")  THEN "propose_only"
    ELSE IF Listed(doc, "degraded")      THEN "degraded"
    ELSE "pass"

(* The status of one layer in the report: layer_hard_failure and           *)
(* layer_degraded are kept apart from the lists.                           *)
LayerResult(checks) ==
    LET lists == {ClassifyIssue(k) : k \in {k \in checks : Classified(k)}} IN
    IF checks = {} \/ lists \ {"degraded"} # {}      THEN "fail"
    ELSE IF lists # {}                               THEN "degraded"
    ELSE IF \E k \in checks : StructuralFailure(k)   THEN "fail"
    ELSE "pass"

(* runtime_health_exit_code                                                *)
ExitCode(status) ==
    CASE status \in {"pass", "degraded"}                   -> 0
      [] status \in {"blocked", "propose_only", "halted"}  -> 2
      [] OTHER                                             -> 1
============================================================================
