-------------------------- MODULE MCRuntimeHealth --------------------------
(***************************************************************************)
(* Health documents as a monitoring host sees them change: checks are      *)
(* added, the document ages, a layer stops reporting.  Every reachable     *)
(* document is given to the verdict of RuntimeHealth and to its Python     *)
(* twin.                                                                   *)
(***************************************************************************)
EXTENDS RuntimeHealth, FiniteSets

CONSTANTS
    MaxExtraChecks,   \* checks added to the four a healthy document starts with
    MaxWrongChecks,   \* the same for a document whose own fields are wrong
    MaxAge,           \* bound on a check's age
    Reasons,          \* the reason codes an added check may carry
    GrowingLayers     \* the layers checks are added to

ASSUME BoundsAssumption ==
    /\ MaxExtraChecks \in Nat /\ MaxWrongChecks \in Nat
    /\ MaxAge \in Nat
    /\ GrowingLayers \subseteq Layers

VARIABLE document

Python == INSTANCE PythonRuntimeHealth

(* The two programs.  What a text and a timestamp are to them is for their *)
(* libraries to say: `malformed` and `undated` name the programs that find *)
(* one wrong, and `age` has an age for each of them.                       *)
Twins == {"js", "py"}

Ages(js, py) == [twin \in Twins |-> IF twin = "js" THEN js ELSE py]

(* The check as one of them reads it.                                      *)
Read(twin, k) ==
    [malformed |-> twin \in k.malformed, status |-> k.status, critical |-> k.critical,
     reason |-> k.reason, timed |-> twin \notin document.undated \cup k.undated,
     age |-> k.age[twin], stale_after |-> k.stale_after, float |-> k.float]

LayersOf(twin) == [l \in Layers |-> {Read(twin, k) : k \in document.layers[l]}]

(* What JavaScript makes of the document: 60.0 is the integer 60, and an   *)
(* aggregate_policy.status of null is an error.                            *)
doc == [malformed |-> "js" \in document.malformed \cup document.undated
                         \/ document.null_policy,
        layers |-> LayersOf("js")]

(* What Python makes of it: the null is none, the float is.                *)
pyDoc == [malformed |-> "py" \in document.malformed \cup document.undated,
          layers |-> LayersOf("py")]

Fresh(reason) == [malformed |-> {}, status |-> "pass", critical |-> TRUE,
                  reason |-> reason, undated |-> {}, age |-> Ages(0, 0),
                  stale_after |-> 1, float |-> FALSE]

(* Among the checks that are added: a window of 0 or 60.0, a summary or a  *)
(* timestamp that both or one program refuses (2026-02-30T00:00:00Z), and  *)
(* a time without an offset, which is local time to one and UTC to the     *)
(* other.                                                                  *)
AddedChecks ==
    [malformed : {{}}, status : {"pass", "fail", "unknown"}, critical : BOOLEAN,
     reason : Reasons, undated : {{}}, age : {Ages(-1, -1), Ages(0, 0)},
     stale_after : {1}, float : {FALSE}]
      \cup { [Fresh(NoReason) EXCEPT !.stale_after = 0],
             [Fresh(NoReason) EXCEPT !.float = TRUE],
             [Fresh(NoReason) EXCEPT !.age = Ages(0, 2)] }
      \cup { [Fresh(NoReason) EXCEPT !.malformed = who] : who \in SUBSET Twins }
      \cup { [Fresh(NoReason) EXCEPT !.undated = who] : who \in SUBSET Twins }

Extra == Cardinality(UNION {{<<l, k>> : k \in document.layers[l]} : l \in Layers})

Init == document = [malformed |-> {}, undated |-> {}, null_policy |-> FALSE,
                    layers |-> [l \in Layers |-> {Fresh(NoReason)}]]

Sound == document.malformed = {} /\ document.undated = {} /\ ~document.null_policy

(* Checks are collected before the document ages.                          *)
AddCheck(l, check) ==
    /\ \A m \in Layers : Fresh(NoReason) \in document.layers[m]
    /\ Extra < Cardinality(Layers) + (IF Sound THEN MaxExtraChecks ELSE MaxWrongChecks)
    /\ document' = [document EXCEPT !.layers[l] = @ \cup {check}]

(* One second passes without a new observation.                            *)
Elapse ==
    /\ \A l \in Layers : \A k \in document.layers[l] : k.age["js"] < MaxAge
    /\ document' = [document EXCEPT !.layers =
          [l \in Layers |-> {[k EXCEPT !.age = Ages(@["js"] + 1, @["py"] + 1)] :
                              k \in document.layers[l]}]]

LoseLayer(l) ==
    /\ \A m \in Layers : document.layers[m] # {}
    /\ document' = [document EXCEPT !.layers[l] = {}]

(* Something of its own is wrong, to one program or to both.               *)
Garble(who) ==
    /\ Sound
    /\ \A m \in Layers : document.layers[m] # {}
    /\ Extra <= Cardinality(Layers) + MaxWrongChecks
    /\ \/ document' = [document EXCEPT !.malformed = who]
       \/ document' = [document EXCEPT !.undated = who]
       \/ document' = [document EXCEPT !.null_policy = TRUE]

Next ==
    \/ \E l \in GrowingLayers, check \in AddedChecks : AddCheck(l, check)
    \/ Elapse
    \/ \E l \in Layers : LoseLayer(l)
    \/ \E who \in SUBSET Twins : Garble(who)

Spec == Init /\ [][Next]_document

(***************************************************************************)
(* Properties                                                              *)
(***************************************************************************)

(* The verdict allows mutation exactly on the documents the published rule *)
(* describes: all four layers report, nothing is malformed or without a    *)
(* time, every check passes inside its window, save non-critical ones that *)
(* carry no reason to halt, block or only propose.                         *)
FailClosed ==
    CanMutate(doc) <=>
        /\ ~doc.malformed
        /\ \A l \in Layers :
             /\ doc.layers[l] # {}
             /\ \A k \in doc.layers[l] :
                  /\ ~Malformed(k) /\ k.timed
                  /\ \/ k.status = "pass" /\ k.age \in 0..k.stale_after
                     \/ ~k.critical /\ k.reason \in {NoReason, "governance_gate_failed"}

(* The aggregate and the per-layer statuses are computed apart (buckets    *)
(* against layerHardFailure and layerDegraded) and must agree: a valid     *)
(* document can mutate iff no layer fails, and passes iff all layers pass. *)
AggregateMatchesLayers ==
    ~HasErrors(doc) =>
        LET results == {LayerStatus(doc.layers[l]) : l \in Layers}
        IN  /\ CanMutate(doc) <=> "fail" \notin results
            /\ Status(doc) = "pass" <=> results = {"pass"}

(* RUNTIME_HEALTH_STATUS_PRECEDENCE, best first; "invalid" is below all.   *)
Rank(status) == CHOOSE i \in 0..5 :
    status = <<"pass", "degraded", "propose_only", "blocked", "halted", "invalid">>[i + 1]

(* One more check in layers that already report never improves the status, *)
(* whatever the check says: adding evidence cannot open the gate.          *)
MoreChecksNeverHelp ==
    [][ (\A l \in Layers : /\ doc.layers[l] \subseteq doc'.layers[l]
                           /\ doc.layers[l] = {} => doc'.layers[l] = {})
          => Rank(Status(doc)) <= Rank(Status(doc')) ]_doc

(* Only one of the programs finds some text or timestamp wrong.            *)
WrongTo(twin) ==
    \/ {twin} \in {document.malformed, document.undated}
    \/ \E l \in Layers : \E k \in document.layers[l] : {twin} \in {k.malformed, k.undated}

SameAge(k) == k.age["js"] = k.age["py"]

ReadAlike(k) == SameAge(k) /\ ~k.float /\ k.malformed \in {{}, Twins}
                  /\ document.undated \cup k.undated \in {{}, Twins}

(* Both programs are published as the one reference verdict.  They give    *)
(* the same status and exit code on every document but three kinds:        *)
(* JavaScript alone refuses a null aggregate_policy.status, Python alone a *)
(* stale_after_seconds written as a float, and their libraries read some   *)
(* texts and timestamps differently.  One finds invalid what the other     *)
(* does not only where one of these is there, and where neither or both do *)
(* only a time they take for different instants sets their verdicts apart. *)
TwinsAgree ==
    LET js == Status(doc)
        py == Python!EvaluateRuntimeHealth(pyDoc)
        checks == UNION {document.layers[l] : l \in Layers}
    IN  /\ \A l \in Layers : (\A k \in document.layers[l] : ReadAlike(k)) =>
                LayerStatus(doc.layers[l]) = Python!LayerResult(pyDoc.layers[l])
        /\ js = "invalid" /\ py # "invalid" => document.null_policy \/ WrongTo("js")
        /\ js # "invalid" /\ py = "invalid" =>
                (\E k \in checks : k.float) \/ WrongTo("py")
        /\ (js = "invalid" <=> py = "invalid") /\ (\A k \in checks : SameAge(k))
                => js = py /\ ExitCode(js) = Python!ExitCode(py)
============================================================================
