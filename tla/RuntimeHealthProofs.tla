------------------------ MODULE RuntimeHealthProofs ------------------------
(***************************************************************************)
(* What holds of the two verdicts for every number of checks, every age    *)
(* and every set of reason codes.  Each theorem goes the same way: a fact  *)
(* about one check, lifted to the four lists of a document, and the little *)
(* that has to be known of the document (Typed) by induction.  A document  *)
(* is proved about through what each program reads of it (Read).           *)
(***************************************************************************)
EXTENDS MCRuntimeHealth, TLAPS

Marks == SUBSET Twins

CheckType == [malformed : Marks, status : {"pass", "fail", "unknown"},
              critical : BOOLEAN, reason : Reasons \cup {NoReason}, undated : Marks,
              age : [Twins -> Int], stale_after : Int, float : BOOLEAN]

(* A check as one program reads it.                                        *)
ViewType == [malformed : BOOLEAN, status : {"pass", "fail", "unknown"},
             critical : BOOLEAN, reason : Reasons \cup {NoReason}, timed : BOOLEAN,
             age : Int, stale_after : Int, float : BOOLEAN]

DocumentType == [malformed : Marks, undated : Marks, null_policy : BOOLEAN,
                 layers : [Layers -> SUBSET CheckType]]

Typed == document \in DocumentType

LEMMA AgesAre ==
  ASSUME NEW js \in Int, NEW py \in Int
  PROVE  Ages(js, py) \in [Twins -> Int]
  BY DEF Ages

LEMMA FreshIsCheck == Fresh(NoReason) \in CheckType
<1>1. Ages(0, 0) \in [Twins -> Int]
  BY AgesAre
<1> QED BY <1>1 DEF Fresh, CheckType, Marks

LEMMA AddedAreChecks == AddedChecks \subseteq CheckType
<1>1. ASSUME NEW k \in [malformed : {{}}, status : {"pass", "fail", "unknown"},
                        critical : BOOLEAN, reason : Reasons, undated : {{}},
                        age : {Ages(-1, -1), Ages(0, 0)}, stale_after : {1}, float : {FALSE}]
      PROVE  k \in CheckType
  <2>1. /\ {{}} \subseteq Marks /\ {1} \subseteq Int /\ {FALSE} \subseteq BOOLEAN
        /\ Reasons \subseteq Reasons \cup {NoReason}
    BY DEF Marks
  <2>2. {Ages(-1, -1), Ages(0, 0)} \subseteq [Twins -> Int]
    BY AgesAre
  <2> HIDE DEF Marks
  <2> QED BY <2>1, <2>2 DEF CheckType
<1>2. [Fresh(NoReason) EXCEPT !.stale_after = 0] \in CheckType
  BY FreshIsCheck DEF CheckType
<1>3. [Fresh(NoReason) EXCEPT !.float = TRUE] \in CheckType
  BY FreshIsCheck DEF CheckType
<1>4. [Fresh(NoReason) EXCEPT !.age = Ages(0, 2)] \in CheckType
  <2>1. Ages(0, 2) \in [Twins -> Int]
    BY AgesAre
  <2> QED BY <2>1, FreshIsCheck DEF CheckType
<1>5. ASSUME NEW who \in SUBSET Twins
      PROVE  /\ [Fresh(NoReason) EXCEPT !.malformed = who] \in CheckType
             /\ [Fresh(NoReason) EXCEPT !.undated = who] \in CheckType
  BY FreshIsCheck DEF CheckType, Marks
<1> QED BY <1>1, <1>2, <1>3, <1>4, <1>5 DEF AddedChecks

(* The documents are typed: what a monitoring host can do to one keeps it  *)
(* a document.                                                             *)
THEOREM TypedAlways == Spec => []Typed
<1>1. Init => Typed
  BY FreshIsCheck DEF Init, Typed, DocumentType, Marks
<1>2. Typed /\ [Next]_document => Typed'
  <2> SUFFICES ASSUME Typed, [Next]_document PROVE Typed'
    OBVIOUS
  <2>1. CASE UNCHANGED document
    BY <2>1 DEF Typed
  <2>2. ASSUME NEW l \in Layers, NEW check \in AddedChecks, AddCheck(l, check)
        PROVE  Typed'
    <3>1. check \in CheckType
      BY AddedAreChecks
    <3> QED BY <2>2, <3>1 DEF AddCheck, Typed, DocumentType
  <2>3. CASE Elapse
    <3>1. ASSUME NEW k \in CheckType
          PROVE  [k EXCEPT !.age = Ages(@["js"] + 1, @["py"] + 1)] \in CheckType
      <4>1. k.age["js"] \in Int /\ k.age["py"] \in Int
        BY DEF CheckType, Twins
      <4>2. k.age["js"] + 1 \in Int /\ k.age["py"] + 1 \in Int
        BY <4>1
      <4>3. Ages(k.age["js"] + 1, k.age["py"] + 1) \in [Twins -> Int]
        BY <4>2, AgesAre
      <4> QED BY <4>3 DEF CheckType
    <3>2. ASSUME NEW l \in Layers
          PROVE  {[k EXCEPT !.age = Ages(@["js"] + 1, @["py"] + 1)] : k \in document.layers[l]}
                   \subseteq CheckType
      BY <3>1 DEF Typed, DocumentType
    <3> QED BY <2>3, <3>2 DEF Elapse, Typed, DocumentType
  <2>4. ASSUME NEW l \in Layers, LoseLayer(l) PROVE Typed'
    BY <2>4 DEF LoseLayer, Typed, DocumentType
  <2>5. ASSUME NEW who \in SUBSET Twins, Garble(who) PROVE Typed'
    BY <2>5 DEF Garble, Typed, DocumentType, Marks
  <2> QED
    BY <2>1, <2>2, <2>3, <2>4, <2>5, BoundsAssumption DEF Next
<1> QED BY <1>1, <1>2, PTL DEF Spec

(* What a program reads of a typed document is typed.                      *)
LEMMA ReadIsTyped ==
  ASSUME Typed, NEW k \in CheckType, NEW twin \in Twins
  PROVE  Read(twin, k) \in ViewType
<1>1. k.age[twin] \in Int
  BY DEF CheckType
<1> QED BY <1>1 DEF Read, ViewType, CheckType

(* A valid check keeps the gate open: it does not fail, or it only         *)
(* degrades.                                                               *)
Harmless(k) == Failing(k) => Bucket(k) = "degraded"

LEMMA HarmlessCheck ==
  ASSUME NEW k \in ViewType, ~Malformed(k), k.timed
  PROVE  Harmless(k) <=> \/ k.status = "pass" /\ k.age \in 0..k.stale_after
                         \/ ~k.critical /\ k.reason \in {NoReason, "governance_gate_failed"}
<1>1. k.age \in Int /\ k.stale_after \in Int /\ k.stale_after >= 1
  BY DEF ViewType, Malformed
<1>2. Failing(k) <=> ~(k.status = "pass" /\ k.age \in 0..k.stale_after)
  BY <1>1 DEF Failing, OutOfWindow, ViewType
<1>3. Bucket(k) = "degraded" <=>
         ~k.critical /\ k.reason \in {NoReason, "governance_gate_failed"}
  <2>1. k.reason \in AllowedReasons \cup {NoReason}
    BY DEF Malformed
  <2> QED BY <2>1 DEF Bucket, AllowedReasons, HaltedReasons, BlockedReasons,
                      ProposeOnlyReasons, NoReason
<1> QED BY <1>2, <1>3 DEF Harmless

LEMMA BucketIsOne == \A k : Bucket(k) \in Buckets
  BY DEF Bucket, Buckets

LEMMA Filled ==
  ASSUME NEW layers
  PROVE  \A b : b \in FilledBuckets(layers) <=>
           \/ \E l \in Layers : \E k \in layers[l] : Failing(k) /\ Bucket(k) = b
           \/ b = "blockers" /\ \E l \in Layers : layers[l] = {}
  BY DEF FilledBuckets

(* Some of the lists are empty: no layer is missing where "blockers" is    *)
(* one of them, and no failing check belongs to them.                      *)
LEMMA EmptyLists ==
  ASSUME NEW layers, NEW lists, "blockers" \in lists
  PROVE  FilledBuckets(layers) \cap lists = {} <=>
           \A l \in Layers : /\ layers[l] # {}
                             /\ \A k \in layers[l] : Failing(k) => Bucket(k) \notin lists
<1>1. ASSUME FilledBuckets(layers) \cap lists = {}, NEW l \in Layers
      PROVE  layers[l] # {} /\ \A k \in layers[l] : Failing(k) => Bucket(k) \notin lists
  BY <1>1, Filled
<1>2. ASSUME \A l \in Layers : /\ layers[l] # {}
                               /\ \A k \in layers[l] : Failing(k) => Bucket(k) \notin lists,
             NEW b \in FilledBuckets(layers) \cap lists
      PROVE  FALSE
  <2>1. b \in FilledBuckets(layers) /\ b \in lists
    BY <1>2
  <2>2. \/ \E l \in Layers : \E k \in layers[l] : Failing(k) /\ Bucket(k) = b
        \/ b = "blockers" /\ \E l \in Layers : layers[l] = {}
    BY <2>1, Filled
  <2> QED BY <1>2, <2>1, <2>2
<1> QED BY <1>1, <1>2

LEMMA OpenGate ==
  ASSUME NEW d
  PROVE  CanMutate(d) <=> /\ ~HasErrors(d)
                          /\ \A l \in Layers : /\ d.layers[l] # {}
                                               /\ \A k \in d.layers[l] : Harmless(k)
<1>1. CanMutate(d) <=> ~HasErrors(d) /\ FilledBuckets(d.layers) \cap
                          {"halted", "blockers", "proposeOnly"} = {}
  BY DEF CanMutate, Status
<1>2. FilledBuckets(d.layers) \cap {"halted", "blockers", "proposeOnly"} = {} <=>
         \A l \in Layers : d.layers[l] # {} /\ \A k \in d.layers[l] : Harmless(k)
  <2>1. \A k : Bucket(k) \notin {"halted", "blockers", "proposeOnly"} <=> Bucket(k) = "degraded"
    BY BucketIsOne DEF Buckets
  <2>2. "blockers" \in {"halted", "blockers", "proposeOnly"}
    OBVIOUS
  <2> DEFINE lists == {"halted", "blockers", "proposeOnly"}
  <2>3. FilledBuckets(d.layers) \cap lists = {} <=>
           \A l \in Layers : /\ d.layers[l] # {}
                             /\ \A k \in d.layers[l] : Failing(k) => Bucket(k) \notin lists
    BY <2>2, EmptyLists
  <2> QED BY <2>1, <2>3 DEF Harmless
<1> QED BY <1>1, <1>2

LEMMA TypedDoc == Typed => \A l \in Layers : doc.layers[l] \subseteq ViewType
<1>1. ASSUME Typed, NEW l \in Layers, NEW k \in document.layers[l]
      PROVE  Read("js", k) \in ViewType
  <2>1. k \in CheckType
    BY <1>1 DEF Typed, DocumentType
  <2> QED BY <1>1, <2>1, ReadIsTyped DEF Twins
<1> QED BY <1>1 DEF doc, LayersOf

(* The verdict opens exactly on the documents the published rule describes *)
(* (evaluateRuntimeHealth), for any number of checks and any window.       *)
THEOREM FailClosedAlways == Spec => []FailClosed
<1>1. Typed => FailClosed
  <2> SUFFICES ASSUME Typed PROVE FailClosed
    OBVIOUS
  <2>1. \A l \in Layers : \A k \in doc.layers[l] : k \in ViewType
    BY TypedDoc
  <2>2. HasErrors(doc) <=> \/ doc.malformed
                          \/ \E l \in Layers : \E k \in doc.layers[l] : Malformed(k) \/ ~k.timed
    BY DEF HasErrors
  <2> QED BY <2>1, <2>2, OpenGate, HarmlessCheck DEF FailClosed
<1> QED BY <1>1, TypedAlways, PTL

(* The aggregate status and the layers' own agree (evaluateRuntimeHealth,  *)
(* layerResults), for any number of checks.                                *)
THEOREM AggregateMatchesLayersAlways == Spec => []AggregateMatchesLayers
<1>1. AggregateMatchesLayers
  <2> SUFFICES ASSUME ~HasErrors(doc) PROVE
        /\ CanMutate(doc) <=> "fail" \notin {LayerStatus(doc.layers[l]) : l \in Layers}
        /\ Status(doc) = "pass" <=> {LayerStatus(doc.layers[l]) : l \in Layers} = {"pass"}
    BY DEF AggregateMatchesLayers
  <2>1. ASSUME NEW l \in Layers, NEW k \in doc.layers[l] PROVE ~Malformed(k)
    BY DEF HasErrors
  <2>2. ASSUME NEW l \in Layers
        PROVE  LayerStatus(doc.layers[l]) # "fail" <=>
                 doc.layers[l] # {} /\ \A k \in doc.layers[l] : Harmless(k)
    BY <2>1 DEF LayerStatus, Harmless
  <2>3. ASSUME NEW l \in Layers
        PROVE  LayerStatus(doc.layers[l]) = "pass" <=>
                 doc.layers[l] # {} /\ \A k \in doc.layers[l] : ~Failing(k)
    BY <2>1 DEF LayerStatus
  <2>4. Status(doc) = "pass" <=> FilledBuckets(doc.layers) \cap Buckets = {}
    BY DEF Status, Buckets
  <2>5. FilledBuckets(doc.layers) \cap Buckets = {} <=>
          \A l \in Layers : doc.layers[l] # {} /\ \A k \in doc.layers[l] : ~Failing(k)
    <3>1. "blockers" \in Buckets
      BY DEF Buckets
    <3>2. FilledBuckets(doc.layers) \cap Buckets = {} <=>
            \A l \in Layers : /\ doc.layers[l] # {}
                              /\ \A k \in doc.layers[l] : Failing(k) => Bucket(k) \notin Buckets
      BY <3>1, EmptyLists
    <3> QED BY <3>2, BucketIsOne
  <2>6. {LayerStatus(doc.layers[l]) : l \in Layers} = {"pass"} <=>
          \A l \in Layers : LayerStatus(doc.layers[l]) = "pass"
    BY DEF Layers
  <2> QED BY <2>2, <2>3, <2>4, <2>5, <2>6, OpenGate
<1> QED BY <1>1, PTL

----------------------------------------------------------------------------
(* Where the twins read the same age and know the time alike, they find    *)
(* the same checks failing.                                                *)
LEMMA SameFailing ==
  ASSUME Typed, NEW k \in CheckType, SameAge(k), ~k.float,
         Read("js", k).timed = Read("py", k).timed
  PROVE  Python!Classified(Read("py", k)) <=> Failing(Read("js", k))
<1> DEFINE j == Read("js", k)
           p == Read("py", k)
<1>1. j \in ViewType /\ p \in ViewType
  BY ReadIsTyped DEF Twins
<1>2. /\ j.status = p.status /\ j.age = p.age /\ j.stale_after = p.stale_after
      /\ j.timed = p.timed /\ ~p.float
  BY DEF Read, SameAge
<1>3. p.age \in Int /\ p.stale_after \in Int
  BY <1>1 DEF ViewType
<1> HIDE DEF j, p
<1>4. Python!Classified(p) <=> Failing(j)
  BY <1>2, <1>3 DEF Python!Classified, Python!PositiveInteger, Failing, OutOfWindow
<1> QED BY <1>4 DEF j, p

(* A check is structurally wrong to both or to neither, but for its texts  *)
(* and a window written as a float.                                        *)
LEMMA SameStructure ==
  ASSUME Typed, NEW k \in CheckType
  PROVE  /\ Malformed(Read("js", k)) /\ ~Python!StructuralFailure(Read("py", k))
              => k.malformed = {"js"}
         /\ Python!StructuralFailure(Read("py", k)) /\ ~Malformed(Read("js", k))
              => k.float \/ k.malformed = {"py"}
<1> DEFINE j == Read("js", k)
           p == Read("py", k)
<1>1. /\ j.status = p.status /\ j.reason = p.reason /\ j.stale_after = p.stale_after
      /\ p.float = k.float /\ p.stale_after \in Int
      /\ j.malformed <=> "js" \in k.malformed
      /\ p.malformed <=> "py" \in k.malformed
  BY DEF Read, CheckType
<1>2. Python!ALLOWED_REASON_CODES = AllowedReasons
  BY DEF Python!ALLOWED_REASON_CODES, Python!PROPOSE_ONLY_REASONS, Python!HALTED_REASONS,
         Python!BLOCKED_REASONS, AllowedReasons, ProposeOnlyReasons, HaltedReasons,
         BlockedReasons
<1>3. k.malformed \subseteq {"js", "py"}
  BY DEF CheckType, Marks, Twins
<1> HIDE DEF j, p
<1>4. ~Python!PositiveInteger(p) <=> k.float \/ p.stale_after < 1
  BY <1>1 DEF Python!PositiveInteger
<1>5. Malformed(j) /\ ~Python!StructuralFailure(p) => j.malformed /\ ~p.malformed
  BY <1>1, <1>2, <1>4, Zenon DEF Python!StructuralFailure, Malformed, NoReason
<1>6. Python!StructuralFailure(p) /\ ~Malformed(j) => k.float \/ (p.malformed /\ ~j.malformed)
  BY <1>1, <1>2, <1>4, Zenon DEF Python!StructuralFailure, Malformed, NoReason
<1>7. /\ Malformed(j) /\ ~Python!StructuralFailure(p) => k.malformed = {"js"}
      /\ Python!StructuralFailure(p) /\ ~Malformed(j) => k.float \/ k.malformed = {"py"}
  BY <1>1, <1>3, <1>5, <1>6
<1> QED BY <1>7 DEF j, p

(* classifyIssue and _classify_issue name the same list.                   *)
LEMMA SameList ==
  ASSUME NEW k
  PROVE  /\ Bucket(k) = "halted"      <=> Python!ClassifyIssue(k) = "halted"
         /\ Bucket(k) = "blockers"    <=> Python!ClassifyIssue(k) = "blockers"
         /\ Bucket(k) = "proposeOnly" <=> Python!ClassifyIssue(k) = "propose_only"
         /\ Bucket(k) = "degraded"    <=> Python!ClassifyIssue(k) = "degraded"
BY DEF Bucket, Python!ClassifyIssue, Python!PROPOSE_ONLY_REASONS, Python!HALTED_REASONS,
       Python!BLOCKED_REASONS, ProposeOnlyReasons, HaltedReasons, BlockedReasons

LEMMA SameLayers == Python!RUNTIME_HEALTH_LAYERS = Layers
  BY DEF Python!RUNTIME_HEALTH_LAYERS, Layers

(* What either reads leaves the reason and the criticality as they are.    *)
LEMMA SameListRead ==
  ASSUME NEW k
  PROVE  Bucket(Read("js", k)) = Bucket(Read("py", k))
  BY DEF Bucket, Read

LEMMA SameLayerResult ==
  ASSUME Typed, NEW l \in Layers, \A k \in document.layers[l] : ReadAlike(k)
  PROVE  LayerStatus(doc.layers[l]) = Python!LayerResult(pyDoc.layers[l])
<1> DEFINE checks == document.layers[l]
           J == {Read("js", k) : k \in checks}
           P == {Read("py", k) : k \in checks}
<1>1. doc.layers[l] = J /\ pyDoc.layers[l] = P
  BY DEF doc, pyDoc, LayersOf
<1>2. ASSUME NEW k \in checks
      PROVE  /\ Python!Classified(Read("py", k)) <=> Failing(Read("js", k))
             /\ Python!StructuralFailure(Read("py", k)) <=> Malformed(Read("js", k))
  <2>1. k \in CheckType
    BY DEF Typed, DocumentType
  <2>2. SameAge(k) /\ ~k.float /\ k.malformed \in {{}, Twins}
          /\ document.undated \cup k.undated \in {{}, Twins}
    BY DEF ReadAlike
  <2>3. Read("js", k).timed = Read("py", k).timed
    BY <2>2 DEF Read, Twins
  <2>4. k.malformed # {"js"} /\ k.malformed # {"py"}
    BY <2>2 DEF Twins
  <2> QED BY <2>1, <2>2, <2>3, <2>4, SameFailing, SameStructure
<1>3. ASSUME NEW k \in checks
      PROVE  Bucket(Read("js", k)) = "degraded" <=> Python!ClassifyIssue(Read("py", k)) = "degraded"
  BY SameList, SameListRead
<1> DEFINE hard  == {j \in J : Failing(j) /\ Bucket(j) # "degraded"}
           soft  == {j \in J : Failing(j) /\ Bucket(j) = "degraded"}
           lists == {Python!ClassifyIssue(p) : p \in {q \in P : Python!Classified(q)}}
<1>4. lists \ {"degraded"} # {} <=> hard # {}
  BY <1>2, <1>3
<1>5. hard = {} => (lists # {} <=> soft # {})
  BY <1>2, <1>3
<1>6. /\ J = {} <=> P = {}
      /\ (\E j \in J : Malformed(j)) <=> \E p \in P : Python!StructuralFailure(p)
  BY <1>2
<1>7. LayerStatus(J) = Python!LayerResult(P)
  BY <1>4, <1>5, <1>6 DEF LayerStatus, Python!LayerResult
<1> QED BY <1>1, <1>7

(* The twins give the same verdict on every document but the three kinds   *)
(* named in TwinsAgree (evaluateRuntimeHealth, evaluate_runtime_health),   *)
(* whatever texts and timestamps either library accepts.                   *)
THEOREM TwinsAgreeAlways == Spec => []TwinsAgree
<1>1. Typed => TwinsAgree
  <2> SUFFICES ASSUME Typed PROVE TwinsAgree
    OBVIOUS
  <2> DEFINE checks == UNION {document.layers[l] : l \in Layers}
             js == Status(doc)
             py == Python!EvaluateRuntimeHealth(pyDoc)
  <2>1. ASSUME NEW l \in Layers
        PROVE  /\ doc.layers[l] = {Read("js", k) : k \in document.layers[l]}
               /\ pyDoc.layers[l] = {Read("py", k) : k \in document.layers[l]}
               /\ document.layers[l] \subseteq CheckType
    BY DEF doc, pyDoc, LayersOf, Typed, DocumentType
  <2>2. document.malformed \subseteq {"js", "py"} /\ document.undated \subseteq {"js", "py"}
    BY DEF Typed, DocumentType, Marks, Twins
  <2>3. /\ doc.malformed <=> \/ "js" \in document.malformed \cup document.undated
                             \/ document.null_policy
        /\ pyDoc.malformed <=> "py" \in document.malformed \cup document.undated
    BY DEF doc, pyDoc
  <2>4. js = "invalid" <=> HasErrors(doc)
    BY DEF Status
  <2>5. py = "invalid" <=> Python!Errors(pyDoc)
    BY DEF Python!EvaluateRuntimeHealth
  <2>6. ASSUME NEW l \in Layers, NEW k \in document.layers[l],
               Read("js", k).timed # Read("py", k).timed
        PROVE  /\ ~Read("js", k).timed => document.undated = {"js"} \/ k.undated = {"js"}
               /\ ~Read("py", k).timed => document.undated = {"py"} \/ k.undated = {"py"}
    <3>1. k.undated \subseteq {"js", "py"}
      BY <2>1 DEF CheckType, Marks, Twins
    <3>2. /\ Read("js", k).timed <=> "js" \notin document.undated \cup k.undated
          /\ Read("py", k).timed <=> "py" \notin document.undated \cup k.undated
      BY DEF Read
    <3>3. \A S : S \subseteq {"js", "py"} =>
            ("js" \in S /\ "py" \notin S => S = {"js"}) /\ ("py" \in S /\ "js" \notin S => S = {"py"})
      OBVIOUS
    <3>4. Read("js", k).timed \in BOOLEAN /\ Read("py", k).timed \in BOOLEAN
      BY DEF Read
    <3>5. CASE ~Read("js", k).timed
      BY <2>2, <2>6, <3>1, <3>2, <3>3, <3>4, <3>5
    <3>6. CASE Read("js", k).timed
      BY <2>2, <2>6, <3>1, <3>2, <3>3, <3>4, <3>6
    <3> QED BY <3>5, <3>6
  <2>7. HasErrors(doc) /\ ~Python!Errors(pyDoc) => document.null_policy \/ WrongTo("js")
    <3> SUFFICES ASSUME HasErrors(doc), ~Python!Errors(pyDoc)
                 PROVE  document.null_policy \/ WrongTo("js")
      OBVIOUS
    <3>1. CASE doc.malformed
      BY <3>1, <2>2, <2>3 DEF Python!Errors, WrongTo
    <3>2. ASSUME NEW l \in Layers, NEW k \in document.layers[l],
                 Malformed(Read("js", k)) \/ ~Read("js", k).timed
          PROVE  WrongTo("js")
      <4>1. ~Python!StructuralFailure(Read("py", k)) /\ Read("py", k).timed
        BY <2>1, SameLayers DEF Python!Errors
      <4>2. CASE Malformed(Read("js", k))
        BY <4>1, <4>2, <2>1, SameStructure DEF WrongTo
      <4>3. CASE ~Read("js", k).timed
        BY <4>1, <4>3, <2>6 DEF WrongTo
      <4> QED BY <3>2, <4>2, <4>3
    <3> QED BY <3>1, <3>2, <2>1 DEF HasErrors
  <2>8. Python!Errors(pyDoc) /\ ~HasErrors(doc) => (\E k \in checks : k.float) \/ WrongTo("py")
    <3> SUFFICES ASSUME Python!Errors(pyDoc), ~HasErrors(doc)
                 PROVE  (\E k \in checks : k.float) \/ WrongTo("py")
      OBVIOUS
    <3>1. CASE pyDoc.malformed
      BY <3>1, <2>2, <2>3 DEF HasErrors, WrongTo
    <3>2. ASSUME NEW l \in Layers, NEW k \in document.layers[l],
                 Python!StructuralFailure(Read("py", k)) \/ ~Read("py", k).timed
          PROVE  (\E c \in checks : c.float) \/ WrongTo("py")
      <4>1. ~Malformed(Read("js", k)) /\ Read("js", k).timed
        BY <2>1 DEF HasErrors
      <4>2. CASE Python!StructuralFailure(Read("py", k))
        BY <4>1, <4>2, <2>1, SameStructure DEF WrongTo
      <4>3. CASE ~Read("py", k).timed
        BY <4>1, <4>3, <2>6 DEF WrongTo
      <4> QED BY <3>2, <4>2, <4>3
    <3> QED BY <3>1, <3>2, <2>1, SameLayers DEF Python!Errors
  <2>9. ASSUME js # "invalid", py # "invalid", \A k \in checks : SameAge(k)
        PROVE  js = py
    <3>1. ~HasErrors(doc) /\ ~Python!Errors(pyDoc)
      BY <2>4, <2>5, <2>9
    <3>2. ASSUME NEW l \in Layers, NEW k \in document.layers[l]
          PROVE  Python!Classified(Read("py", k)) <=> Failing(Read("js", k))
      <4>1. Read("js", k).timed /\ Read("py", k).timed /\ ~Python!StructuralFailure(Read("py", k))
        BY <3>1, <2>1, SameLayers DEF HasErrors, Python!Errors
      <4>2. ~k.float
        BY <4>1 DEF Python!StructuralFailure, Python!PositiveInteger, Read
      <4>3. SameAge(k) /\ k \in CheckType
        BY <2>1, <2>9
      <4>4. Read("js", k).timed = Read("py", k).timed
        BY <4>1, ReadIsTyped, <4>3 DEF ViewType, Twins
      <4> QED BY <4>2, <4>3, <4>4, SameFailing
    <3>3. ASSUME NEW k
          PROVE  /\ Bucket(Read("js", k)) = "halted"      <=> Python!ClassifyIssue(Read("py", k)) = "halted"
                 /\ Bucket(Read("js", k)) = "blockers"    <=> Python!ClassifyIssue(Read("py", k)) = "blockers"
                 /\ Bucket(Read("js", k)) = "proposeOnly" <=> Python!ClassifyIssue(Read("py", k)) = "propose_only"
                 /\ Bucket(Read("js", k)) = "degraded"    <=> Python!ClassifyIssue(Read("py", k)) = "degraded"
      BY SameList, SameListRead
    <3> DEFINE filled == FilledBuckets(doc.layers)
               Fails(b) == \E l \in Layers : \E k \in document.layers[l] :
                              Failing(Read("js", k)) /\ Bucket(Read("js", k)) = b
    <3>4. \A b : b \in filled <=> Fails(b) \/ (b = "blockers" /\ \E l \in Layers : document.layers[l] = {})
      <4>1. \A b : b \in filled <=>
              \/ \E l \in Layers : \E j \in doc.layers[l] : Failing(j) /\ Bucket(j) = b
              \/ b = "blockers" /\ \E l \in Layers : doc.layers[l] = {}
        BY Filled
      <4>2. ASSUME NEW l \in Layers PROVE doc.layers[l] = {} <=> document.layers[l] = {}
        <5> DEFINE D == document.layers[l]
        <5>1. doc.layers[l] = {Read("js", k) : k \in D}
          BY <2>1
        <5> HIDE DEF D
        <5>2. doc.layers[l] = {} <=> D = {}
          BY <5>1
        <5> QED BY <5>2 DEF D
      <4>3. \A b : Fails(b) <=> \E l \in Layers : \E j \in doc.layers[l] : Failing(j) /\ Bucket(j) = b
        BY <2>1
      <4> HIDE DEF filled, Fails
      <4> QED BY <4>1, <4>2, <4>3
    <3>5. /\ Fails("halted")      <=> Python!Listed(pyDoc, "halted")
          /\ Fails("proposeOnly") <=> Python!Listed(pyDoc, "propose_only")
          /\ Fails("degraded")    <=> Python!Listed(pyDoc, "degraded")
      BY <2>1, <3>2, <3>3, SameLayers DEF Python!Listed
    <3>6. Fails("blockers") \/ (\E l \in Layers : document.layers[l] = {})
            <=> Python!Listed(pyDoc, "blockers")
      BY <2>1, <3>2, <3>3, SameLayers DEF Python!Listed
    <3> HIDE DEF Fails
    <3>7. /\ "halted" \in filled      <=> Python!Listed(pyDoc, "halted")
          /\ "blockers" \in filled    <=> Python!Listed(pyDoc, "blockers")
          /\ "proposeOnly" \in filled <=> Python!Listed(pyDoc, "propose_only")
          /\ "degraded" \in filled    <=> Python!Listed(pyDoc, "degraded")
      BY <3>4, <3>5, <3>6
    <3> QED BY <3>1, <3>7 DEF Status, Python!EvaluateRuntimeHealth
  <2>10. ExitCode(js) = Python!ExitCode(js)
    BY DEF ExitCode, Python!ExitCode
  <2> QED BY <2>4, <2>5, <2>7, <2>8, <2>9, <2>10, SameLayerResult DEF TwinsAgree
<1> QED BY <1>1, TypedAlways, PTL

----------------------------------------------------------------------------
LEMMA Ranks == /\ Rank("pass") = 0 /\ Rank("degraded") = 1 /\ Rank("propose_only") = 2
               /\ Rank("blocked") = 3 /\ Rank("halted") = 4 /\ Rank("invalid") = 5
<1> DEFINE order == <<"pass", "degraded", "propose_only", "blocked", "halted", "invalid">>
<1>1. \A i \in 0..5 : i = 0 \/ i = 1 \/ i = 2 \/ i = 3 \/ i = 4 \/ i = 5
  OBVIOUS
<1>2. /\ order[0 + 1] = "pass" /\ order[1 + 1] = "degraded" /\ order[2 + 1] = "propose_only"
      /\ order[3 + 1] = "blocked" /\ order[4 + 1] = "halted" /\ order[5 + 1] = "invalid"
  OBVIOUS
<1>3. 0 \in 0..5 /\ 1 \in 0..5 /\ 2 \in 0..5 /\ 3 \in 0..5 /\ 4 \in 0..5 /\ 5 \in 0..5
  OBVIOUS
<1>4. Rank("pass") = 0
  BY <1>1, <1>2, <1>3 DEF Rank
<1>5. Rank("degraded") = 1
  BY <1>1, <1>2, <1>3 DEF Rank
<1>6. Rank("propose_only") = 2
  BY <1>1, <1>2, <1>3 DEF Rank
<1>7. Rank("blocked") = 3
  BY <1>1, <1>2, <1>3 DEF Rank
<1>8. Rank("halted") = 4
  BY <1>1, <1>2, <1>3 DEF Rank
<1>9. Rank("invalid") = 5
  BY <1>1, <1>2, <1>3 DEF Rank
<1> QED BY <1>4, <1>5, <1>6, <1>7, <1>8, <1>9

(* No step cleans a garbled document.                                      *)
LEMMA StaysMalformed ==
  ASSUME Typed, Next
  PROVE  doc.malformed => doc'.malformed
<1>1. ASSUME NEW l \in GrowingLayers, NEW check \in AddedChecks, AddCheck(l, check)
      PROVE  doc.malformed => doc'.malformed
  BY <1>1 DEF AddCheck, Typed, DocumentType, doc
<1>2. ASSUME Elapse PROVE doc.malformed => doc'.malformed
  BY <1>2 DEF Elapse, Typed, DocumentType, doc
<1>3. ASSUME NEW l \in Layers, LoseLayer(l) PROVE doc.malformed => doc'.malformed
  BY <1>3 DEF LoseLayer, Typed, DocumentType, doc
<1>4. ASSUME NEW who \in SUBSET Twins, Garble(who) PROVE doc.malformed => doc'.malformed
  BY <1>4 DEF Garble, Sound, Typed, DocumentType, doc
<1> QED BY <1>1, <1>2, <1>3, <1>4 DEF Next

(* More checks in the layers that report never improve the status          *)
(* (RUNTIME_HEALTH_STATUS_PRECEDENCE), for any check of any age.           *)
THEOREM MoreChecksNeverHelpEver == Spec => MoreChecksNeverHelp
<1> DEFINE Grows == \A l \in Layers : /\ doc.layers[l] \subseteq doc'.layers[l]
                                      /\ doc.layers[l] = {} => doc'.layers[l] = {}
<1>1. ASSUME Typed, Next, Grows PROVE Rank(Status(doc)) <= Rank(Status(doc'))
  <2>1. HasErrors(doc) => HasErrors(doc')
    BY <1>1, StaysMalformed DEF HasErrors
  <2>2. FilledBuckets(doc.layers) \subseteq FilledBuckets(doc'.layers)
    <3> SUFFICES ASSUME NEW b \in FilledBuckets(doc.layers)
                 PROVE  b \in FilledBuckets(doc'.layers)
      OBVIOUS
    <3>1. \/ \E l \in Layers : \E k \in doc.layers[l] : Failing(k) /\ Bucket(k) = b
          \/ b = "blockers" /\ \E l \in Layers : doc.layers[l] = {}
      BY Filled
    <3>2. \/ \E l \in Layers : \E k \in doc'.layers[l] : Failing(k) /\ Bucket(k) = b
          \/ b = "blockers" /\ \E l \in Layers : doc'.layers[l] = {}
      BY <1>1, <3>1
    <3> QED BY <3>2, Filled
  <2> HIDE DEF Grows
  <2> QED BY <2>1, <2>2, Ranks DEF Status
<1>2. Typed /\ [Next]_document => [Grows => Rank(Status(doc)) <= Rank(Status(doc'))]_doc
  <2>1. CASE UNCHANGED document
    <3>1. doc' = doc
      BY <2>1 DEF doc, LayersOf, Read
    <3> QED BY <3>1
  <2>2. Typed /\ Next => [Grows => Rank(Status(doc)) <= Rank(Status(doc'))]_doc
    BY <1>1
  <2> QED BY <2>1, <2>2
<1> QED BY <1>2, TypedAlways, PTL DEF Spec, MoreChecksNeverHelp
============================================================================
