--------------------------- MODULE RuntimeHealth ---------------------------
(***************************************************************************)
(* The runtime-health verdict of @frontier-infra/protocol                  *)
(* (evaluateRuntimeHealth): from the checks each layer reports to the one  *)
(* status a gate acts on.  It is a pure function, so this module holds     *)
(* operators and no state.                                                 *)
(*                                                                         *)
(* A document is a record of the four layers; a layer is its set of        *)
(* checks, and {} stands for a layer that is missing, is not an object or  *)
(* has no checks (one and the same blocker).  A check keeps what the       *)
(* verdict reads: its status, whether it is critical, its reason code,     *)
(* whether its observed_at and the document's checked_at both parse        *)
(* (`timed`), its age in whole seconds then (checked_at - observed_at),    *)
(* and stale_after_seconds.  The well-formedness of the texts is a flag:   *)
(* `malformed` of a check (id, summary, field types; a check that is no    *)
(* object is a passing malformed one), `malformed` of the document (its    *)
(* own fields, a checked_at that does not parse among them).               *)
(***************************************************************************)
EXTENDS Integers

Layers == {"process", "scheduler", "execution", "governance"}

ProposeOnlyReasons == {"missing_verifier", "stale_verifier", "unratified_contract"}
HaltedReasons      == {"active_override", "no_ack_halt"}
BlockedReasons     == {"auth_failed", "credit_exhausted", "scheduler_stalled",
                       "worker_unavailable"}
AllowedReasons     == ProposeOnlyReasons \cup HaltedReasons \cup BlockedReasons
                         \cup {"governance_gate_failed"}
NoReason           == "no reason"

Buckets  == {"halted", "blockers", "proposeOnly", "degraded"}
Statuses == {"invalid", "halted", "blocked", "propose_only", "degraded", "pass"}

(* structuralFailure: what makes the whole document invalid.               *)
Malformed(check) ==
    \/ check.malformed
    \/ check.status \notin {"pass", "fail", "unknown"}
    \/ check.reason \notin AllowedReasons \cup {NoReason}
    \/ check.stale_after < 1

(* Bug_* definitions here and below are mutants: never part of the model.  *)
Bug_FreshnessOffByOne(check) ==
    /\ check.timed /\ check.stale_after >= 1
    /\ check.age < 0 \/ check.age > check.stale_after + 1

(* ageSeconds < 0 or ageSeconds > stale_after_seconds; the age is looked   *)
(* at only when both timestamps parse and the window itself is a positive  *)
(* integer.                                                                *)
OutOfWindow(check) ==
    /\ check.timed /\ check.stale_after >= 1
    /\ check.age < 0 \/ check.age > check.stale_after

(* The check gives classify() something to classify.                       *)
Failing(check) == check.status \in {"fail", "unknown"} \/ OutOfWindow(check)

(* classifyIssue: the reason code decides first, then criticality.         *)
Bucket(check) ==
    IF check.reason \in HaltedReasons           THEN "halted"
    ELSE IF check.reason \in BlockedReasons     THEN "blockers"
    ELSE IF check.reason \in ProposeOnlyReasons THEN "proposeOnly"
    ELSE IF check.critical                      THEN "blockers"
    ELSE "degraded"

Bug_EmptyLayerIgnored(layers) ==
    {Bucket(check) : check \in {k \in UNION {layers[l] : l \in Layers} : Failing(k)}}

(* Which of the report's four lists are not empty.                         *)
FilledBuckets(layers) ==
    {Bucket(check) : check \in {k \in UNION {layers[l] : l \in Layers} : Failing(k)}}
       \cup (IF \E l \in Layers : layers[l] = {} THEN {"blockers"} ELSE {})

(* A timestamp is an error of the document, not a failure of its layer.    *)
HasErrors(doc) ==
    \/ doc.malformed
    \/ \E l \in Layers : \E check \in doc.layers[l] : Malformed(check) \/ ~check.timed

Bug_BlockersFirst(doc) ==
    LET filled == FilledBuckets(doc.layers) IN
    IF HasErrors(doc)                  THEN "invalid"
    ELSE IF "halted" \in filled        THEN "halted"
    ELSE IF "blockers" \in filled      THEN "blocked"
    ELSE IF "degraded" \in filled      THEN "degraded"
    ELSE IF "proposeOnly" \in filled   THEN "propose_only"
    ELSE "pass"

(* The precedence invalid > halted > blocked > propose_only > degraded.    *)
Status(doc) ==
    LET filled == FilledBuckets(doc.layers) IN
    IF HasErrors(doc)                  THEN "invalid"
    ELSE IF "halted" \in filled        THEN "halted"
    ELSE IF "blockers" \in filled      THEN "blocked"
    ELSE IF "proposeOnly" \in filled   THEN "propose_only"
    ELSE IF "degraded" \in filled      THEN "degraded"
    ELSE "pass"

CanMutate(doc) == Status(doc) \in {"pass", "degraded"}

(* layerResults[layer].status                                              *)
LayerStatus(checks) ==
    LET hard == {k \in checks : Failing(k) /\ Bucket(k) # "degraded"}
        soft == {k \in checks : Failing(k) /\ Bucket(k) = "degraded"}
    IN  IF checks = {} \/ hard # {} THEN "fail"
        ELSE IF soft # {} THEN "degraded"
        ELSE IF \E k \in checks : Malformed(k) THEN "fail"
        ELSE "pass"

(* runtimeHealthExitCode: what the shell of a gate sees.                   *)
ExitCode(status) ==
    IF status \in {"pass", "degraded"} THEN 0
    ELSE IF status \in {"blocked", "propose_only", "halted"} THEN 2
    ELSE 1
============================================================================
