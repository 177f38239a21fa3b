------------------------ MODULE HarnessEngineProofs ------------------------
(***************************************************************************)
(* Theorems about HarnessEngine, for any contracts, proposals, identities, *)
(* budget and times.                                                       *)
(***************************************************************************)
EXTENDS HarnessEngine, FiniteSetTheorems, TLAPS

(* A failing check whose bucket is not "degraded" closes the gate.         *)
LEMMA FailingCheckBlocks ==
    ASSUME NEW doc, NEW l \in Layers, NEW check \in doc.layers[l],
           Failing(check), Bucket(check) # "degraded"
    PROVE  ~CanMutate(doc)
<1> DEFINE filled == FilledBuckets(doc.layers)
<1>1. Bucket(check) \in filled
  BY DEF FilledBuckets
<1>2. Bucket(check) \in {"halted", "blockers", "proposeOnly"}
  BY DEF Bucket
<1>3. CASE HasErrors(doc)
  BY <1>3 DEF CanMutate, Status
<1>4. CASE ~HasErrors(doc)
  <2>1. Status(doc) \in {"halted", "blocked", "propose_only"}
    <3> HIDE DEF filled
    <3>1. Status(doc) = IF "halted" \in filled THEN "halted"
                        ELSE IF "blockers" \in filled      THEN "blocked"
                        ELSE IF "proposeOnly" \in filled   THEN "propose_only"
                        ELSE IF "degraded" \in filled      THEN "degraded"
                        ELSE "pass"
      BY <1>4 DEF Status, filled
    <3> QED BY <1>1, <1>2, <3>1
  <2> QED BY <2>1 DEF CanMutate
<1> QED BY <1>3, <1>4

(* What an open gate says of the engine's state (runtimeHealth): nothing   *)
(* halted, no override, no recorded issue, a slot free, and a current      *)
(* contract that is ratified by somebody other than its proposer.          *)
LEMMA OpenGate ==
    ASSUME NEW inUse \in Nat, GateOpen(inUse)
    PROVE  /\ ~halted /\ ~override /\ ~issues
           /\ inUse < Concurrency
           /\ Ratified
           /\ ratifiedBy[current] # ProposedBy[current]
           /\ ratifiedBy[current] \in verifiers \cap CanRun
<1> DEFINE doc == HealthDoc(inUse)
<1>1. ASSUME NEW l \in Layers, NEW ok \in BOOLEAN, NEW code,
             code \in HaltedReasons \cup BlockedReasons \cup ProposeOnlyReasons
                        \cup {"governance_gate_failed"},
             HealthCheck(ok, code) \in doc.layers[l]
      PROVE  ok
  <2> SUFFICES ASSUME ~ok PROVE FALSE
    OBVIOUS
  <2> DEFINE check == HealthCheck(ok, code)
  <2>1. Failing(check)
    BY DEF Failing, HealthCheck
  <2>2. Bucket(check) # "degraded"
    BY DEF Bucket, HealthCheck
  <2> HIDE DEF check, doc
  <2>3. ~CanMutate(doc)
    BY <2>1, <2>2, <1>1, FailingCheckBlocks DEF check
  <2> QED BY <2>3 DEF GateOpen, doc
<1> USE DEF HaltedReasons, BlockedReasons, ProposeOnlyReasons
<1>2. doc.layers["governance"] =
        { HealthCheck(Ratified /\ ratifiedBy[current] # ProposedBy[current],
                      IF current = None THEN "missing_verifier" ELSE "unratified_contract"),
          HealthCheck(RatifierCanRun, "missing_verifier"),
          HealthCheck(~override, "active_override"),
          HealthCheck(~issues, "governance_gate_failed") }
  BY DEF HealthDoc, Layers
<1>3. /\ doc.layers["process"] = {HealthCheck(~halted, "no_ack_halt")}
      /\ doc.layers["scheduler"] = {HealthCheck(inUse < Concurrency, "scheduler_stalled")}
  BY DEF HealthDoc, Layers
<1> HIDE DEF doc
<1>4. ~halted
  BY <1>1, <1>3 DEF Layers
<1>5. inUse < Concurrency
  <2>1. (inUse < Concurrency) \in BOOLEAN
    OBVIOUS
  <2> QED BY <1>1, <1>3, <2>1 DEF Layers
<1>6. ~override
  BY <1>1, <1>2 DEF Layers
<1>7. ~issues
  BY <1>1, <1>2 DEF Layers
<1>8. RatifierCanRun
  BY <1>1, <1>2 DEF Layers, RatifierCanRun
<1>9. Ratified /\ ratifiedBy[current] # ProposedBy[current]
  <2>1. (Ratified /\ ratifiedBy[current] # ProposedBy[current]) \in BOOLEAN
    OBVIOUS
  <2> QED BY <1>1, <1>2, <2>1 DEF Layers
<1> QED BY <1>4, <1>5, <1>6, <1>7, <1>8, <1>9 DEF RatifierCanRun
----------------------------------------------------------------------------
(***************************************************************************)
(* Type correctness and CapabilitySpentOnce are inductive together: what   *)
(* reaping does to a capability is only legal for one that was issued.     *)
(***************************************************************************)
ResStates == {"none", "active", "completed", "failed"}
CapStates == {"none", "issued", "consumed", "failed"}

Spent(s) == IF s = "active" THEN "issued"
            ELSE IF s = "completed" THEN "consumed" ELSE "failed"

(* CapabilitySpentOnce, of any three functions.                            *)
SpentOnce(res, cap, held) ==
    \A r \in Reservations : res[r] # "none" =>
        /\ cap[held[r].capability] = Spent(res[r])
        /\ \A q \in Reservations :
             res[q] # "none" /\ held[q].capability = held[r].capability => q = r

(* CapabilitySpentOnce is SpentOnce of the current state.                  *)
LEMMA SpentOnceIs ==
    ASSUME resState \in [Reservations -> ResStates]
    PROVE  CapabilitySpentOnce <=> SpentOnce(resState, capState, reservation)
BY DEF CapabilitySpentOnce, SpentOnce, Spent, ResStates

(* What reaping does: it ends expired leases only, keeps the types and keeps *)
(* each capability in step with its reservation.                           *)
LEMMA ReapFacts ==
    ASSUME TypeOK, CapabilitySpentOnce
    PROVE  /\ ReapedRes \in [Reservations -> ResStates]
           /\ ReapedCap \in [Capabilities -> CapStates]
           /\ ReapedActive \in Nat
           /\ \A r \in Reservations : ReapedRes[r] = "none" <=> resState[r] = "none"
           /\ \A k \in Capabilities : ReapedCap[k] = "none" <=> capState[k] = "none"
           /\ \A r \in Reservations :
                ReapedRes[r] = "active" => resState[r] = "active" /\ r \notin Over
           /\ \A k \in Capabilities : ReapedCap[k] = "issued" => capState[k] = "issued"
           /\ SpentOnce(ReapedRes, ReapedCap, reservation)
<1> USE DEF ResStates, CapStates
<1>1. ReapedRes \in [Reservations -> ResStates]
  BY DEF ReapedRes, TypeOK
<1>2. ReapedCap \in [Capabilities -> CapStates]
  BY DEF ReapedCap, TypeOK
<1>3. Over \subseteq Overdue /\ Overdue \subseteq Reservations
  BY DEF Over, Overdue
<1>3a. Cardinality(Over) \in Nat
  <2>1. IsFiniteSet(Over)
    BY <1>3, FiniteAssumption, FS_Subset
  <2> QED BY <2>1, FS_CardinalityType
<1>4. ReapedActive \in Nat
  BY <1>3a DEF ReapedActive, Floor, TypeOK
<1>5. \A r \in Reservations : ReapedRes[r] = IF r \in Over THEN "failed" ELSE resState[r]
  BY DEF ReapedRes
<1>6. \A r \in Over : r \in Reservations /\ resState[r] = "active"
  BY <1>3 DEF Overdue, LeaseOver
<1>7. SpentOnce(resState, capState, reservation)
  BY SpentOnceIs DEF TypeOK
<1>8. \A r \in Reservations : resState[r] # "none" => reservation[r].capability \in Capabilities
  BY DEF TypeOK, ReservationType
<1>9. \A r \in Over : capState[reservation[r].capability] = "issued"
  BY <1>6, <1>7 DEF SpentOnce, Spent
<1>10. \A k \in Capabilities : ReapedCap[k] = "none" <=> capState[k] = "none"
  BY <1>9 DEF ReapedCap
<1>11. \A k \in Capabilities : ReapedCap[k] = "issued" => capState[k] = "issued"
  BY DEF ReapedCap
<1>12. SpentOnce(ReapedRes, ReapedCap, reservation)
  <2> SUFFICES ASSUME NEW r \in Reservations, ReapedRes[r] # "none"
               PROVE  /\ ReapedCap[reservation[r].capability] = Spent(ReapedRes[r])
                      /\ \A q \in Reservations :
                           ReapedRes[q] # "none"
                             /\ reservation[q].capability = reservation[r].capability => q = r
    BY DEF SpentOnce
  <2>1. resState[r] # "none"
    BY <1>5, <1>6
  <2>2. \A q \in Reservations :
           resState[q] # "none" /\ reservation[q].capability = reservation[r].capability
             => q = r
    BY <1>7, <2>1 DEF SpentOnce
  <2>3. ASSUME NEW q \in Reservations, ReapedRes[q] # "none",
               reservation[q].capability = reservation[r].capability
        PROVE  q = r
    BY <2>2, <2>3, <1>5, <1>6
  <2>4. ReapedCap[reservation[r].capability] = Spent(ReapedRes[r])
    <3>1. CASE r \in Over
      BY <3>1, <1>5, <1>8, <2>1 DEF ReapedCap, Spent
    <3>2. CASE r \notin Over
      <4>1. ~\E q \in Over : reservation[q].capability = reservation[r].capability
        BY <3>2, <2>2, <1>6
      <4>2. ReapedCap[reservation[r].capability] = capState[reservation[r].capability]
        BY <4>1, <1>8, <2>1 DEF ReapedCap
      <4> QED BY <4>2, <3>2, <1>5, <1>7, <2>1 DEF SpentOnce
    <3> QED BY <3>1, <3>2
  <2> QED BY <2>3, <2>4
<1>13. \A r \in Reservations : ReapedRes[r] = "none" <=> resState[r] = "none"
  BY <1>5, <1>6
<1>14. \A r \in Reservations :
          ReapedRes[r] = "active" => resState[r] = "active" /\ r \notin Over
  BY <1>5
<1> QED BY <1>1, <1>2, <1>4, <1>10, <1>11, <1>12, <1>13, <1>14
----------------------------------------------------------------------------
(* The empty log is well typed and nothing in it is spent.                 *)
LEMMA InitTyped == Init => TypeOK /\ CapabilitySpentOnce
<1> SUFFICES ASSUME Init PROVE TypeOK /\ CapabilitySpentOnce
  OBVIOUS
<1>1. TypeOK
  <2> USE DEF Init
  <2>1. now \in 0..MaxTime
    BY TimeAssumption
  <2>2. \A c \in Contracts : contractStatus[c] = "none"
    OBVIOUS
  <2>3. (\A k \in Capabilities : capState[k] = "none")
          /\ (\A r \in Reservations : resState[r] = "none")
    OBVIOUS
  <2>4. verifiers \subseteq Registry
    OBVIOUS
  <2> QED BY <2>1, <2>2, <2>3, <2>4 DEF TypeOK
<1>2. CapabilitySpentOnce
  BY DEF Init, CapabilitySpentOnce
<1> QED BY <1>1, <1>2

(* One step keeps the types.                                               *)
LEMMA NextTyped ==
    ASSUME TypeOK, CapabilitySpentOnce, [Next]_vars
    PROVE  TypeOK'
<1> USE DEF control, contracts, proposals, leases, inFlight, ResStates, CapStates, Appends
<1>0. Ahead \in Reservations \cup {None}
  BY DEF Ahead, TypeOK
<1>1. CASE OperatorNext
  <2>1. CASE Tick
    BY <2>1, TimeAssumption DEF Tick, TypeOK
  <2>2. ASSUME NEW level \in BOOLEAN, SetOperatorDial(level) PROVE TypeOK'
    BY <2>2 DEF SetOperatorDial, TypeOK
  <2>3. CASE Halt
    BY <2>3 DEF Halt, TypeOK
  <2>4. CASE Override
    BY <2>4 DEF Override, TypeOK
  <2>5. CASE ClearOverride
    BY <2>5 DEF ClearOverride, TypeOK
  <2>6. ASSUME NEW v \in Registry, NEW isActive \in BOOLEAN, RegisterVerifier(v, isActive)
        PROVE  TypeOK'
    BY <2>6 DEF RegisterVerifier, TypeOK
  <2>7. CASE RuntimeHealth
    BY <2>7, ReapFacts DEF RuntimeHealth, Reap, TypeOK
  <2> QED BY <1>1, <2>1, <2>2, <2>3, <2>4, <2>5, <2>6, <2>7 DEF OperatorNext
<1>2. CASE ContractNext
  <2>1. ASSUME NEW c \in Contracts, ProposeContract(c) PROVE TypeOK'
    BY <2>1 DEF ProposeContract, TypeOK
  <2>2. ASSUME NEW c \in Contracts, NEW v \in Identities, RatifyContract(c, v)
        PROVE  TypeOK'
    BY <2>2 DEF RatifyContract, TypeOK
  <2>3. ASSUME NEW c \in Contracts, NEW v \in Identities, NEW altered \in BOOLEAN,
               RejectContract(c, v, altered)
        PROVE  TypeOK'
    BY <2>3 DEF RejectContract, IssueRecorded, TypeOK
  <2> QED BY <1>2, <2>1, <2>2, <2>3 DEF ContractNext
<1>3. CASE ProposalNext
  <2>1. ASSUME NEW p \in Proposals, RecordProposal(p) PROVE TypeOK'
    BY <2>1 DEF RecordProposal, TypeOK
  <2>2. ASSUME NEW p \in Proposals, NEW v \in Identities, NEW f \in Calls, VerifyCall(f, p, v)
        PROVE  TypeOK'
    BY <2>2, TimeAssumption DEF VerifyCall, MayVerify, Ratified, TypeOK, CallType
  <2>3. ASSUME NEW p \in Proposals, NEW v \in Identities, VerifyRefused(p, v)
        PROVE  TypeOK'
    BY <2>3 DEF VerifyRefused, TypeOK
  <2>4. ASSUME NEW f \in Calls, VerdictRefused(f) PROVE TypeOK'
    BY <2>4 DEF VerdictRefused, Answered, TypeOK
  <2>5. ASSUME NEW f \in Calls, NEW ttl \in VerdictTTLs, NEW full \in BOOLEAN,
               VerdictPassed(f, ttl, full)
        PROVE  TypeOK'
    <3> DEFINE call == verifying[f]
               p    == call.proposal
               v    == ratifiedBy[call.contract]
    <3>1. call \in CallType
      BY <2>5 DEF VerdictPassed, TypeOK
    <3>2. verifying' \in [Calls -> CallType \cup {None}]
      BY <2>5 DEF VerdictPassed, Answered, TypeOK
    <3>3. CASE v \notin verifiedBy[p] /\ ReplayAccepts(call)
      <4>1. v \in Identities
        BY <3>1, <3>3 DEF ReplayAccepts, TypeOK, CallType
      <4>2. [contract |-> call.contract, verifier |-> v, expires |-> call.at + ttl,
             full |-> full] \in VerificationType
        BY <3>1, <4>1, TimeAssumption DEF VerificationType, CallType
      <4>3. /\ verification' = [verification EXCEPT ![p] =
                   [contract |-> call.contract, verifier |-> v, expires |-> call.at + ttl,
                    full |-> full]]
            /\ verifiedBy' = [verifiedBy EXCEPT ![p] = @ \cup {v}]
        BY <2>5, <3>3 DEF VerdictPassed
      <4>4. verification' \in [Proposals -> VerificationType \cup {None}]
        BY <4>2, <4>3 DEF TypeOK
      <4>5. verifiedBy' \in [Proposals -> SUBSET Identities]
        BY <3>1, <4>1, <4>3 DEF TypeOK, CallType
      <4> QED BY <2>5, <3>2, <4>4, <4>5 DEF VerdictPassed, TypeOK
    <3>4. CASE ~(v \notin verifiedBy[p] /\ ReplayAccepts(call))
      BY <2>5, <3>2, <3>4 DEF VerdictPassed, TypeOK
    <3> QED BY <3>3, <3>4
  <2> QED BY <1>3, <2>1, <2>2, <2>3, <2>4, <2>5 DEF ProposalNext
<1>4. CASE EffectNext
  <2>1. ASSUME NEW k \in Capabilities, NEW p \in Proposals, NEW ttl \in CapabilityTTLs,
               IssueCapability(k, p, ttl)
        PROVE  TypeOK'
    <3> DEFINE cap == [proposal |-> p, contract |-> current,
                       verified_by |-> verification[p].verifier, expires |-> now + ttl]
    <3>1. verification[p] \in VerificationType /\ current \in Contracts
      BY <2>1 DEF IssueCapability, MayIssue, Verified, Ratified, TypeOK
    <3>2. cap \in CapabilityType
      BY <3>1, TimeAssumption DEF CapabilityType, VerificationType, TypeOK
    <3>3. capability' = [capability EXCEPT ![k] = cap]
      BY <2>1 DEF IssueCapability
    <3> HIDE DEF cap
    <3>4. /\ capability' \in [Capabilities -> CapabilityType \cup {None}]
          /\ capState' \in [Capabilities -> CapStates]
          /\ \A j \in Capabilities : capState'[j] # "none" => capability'[j] \in CapabilityType
      BY <2>1, <3>2, <3>3, ReapFacts DEF IssueCapability, TypeOK
    <3> QED BY <2>1, <3>4, ReapFacts DEF IssueCapability, TypeOK
  <2>2. ASSUME NEW p \in Proposals, NEW ttl \in CapabilityTTLs, IssueRefused(p, ttl)
        PROVE  TypeOK'
    BY <2>2, ReapFacts DEF IssueRefused, Reap, TypeOK
  <2>3. ASSUME NEW k \in Capabilities, NEW r \in Reservations, ExecuteCapability(k, r)
        PROVE  TypeOK'
    <3> DEFINE res == [capability |-> k, lease |-> now + LeaseTTL]
    <3>1. res \in ReservationType
      BY TimeAssumption DEF ReservationType, TypeOK
    <3>2. reservation' = [reservation EXCEPT ![r] = res]
      BY <2>3 DEF ExecuteCapability
    <3> HIDE DEF res
    <3>3. /\ reservation' \in [Reservations -> ReservationType \cup {None}]
          /\ resState' \in [Reservations -> ResStates]
          /\ \A q \in Reservations : resState'[q] # "none" => reservation'[q] \in ReservationType
      BY <2>3, <3>1, <3>2, ReapFacts DEF ExecuteCapability, TypeOK
    <3> QED BY <2>3, <3>3, ReapFacts DEF ExecuteCapability, TypeOK
  <2>4. ASSUME NEW k \in Capabilities, ExecuteRefused(k) PROVE TypeOK'
    BY <2>4, ReapFacts DEF ExecuteRefused, Reap, TypeOK
  <2>5. CASE ExecuteForged
    BY <2>5, ReapFacts DEF ExecuteForged, Reap, TypeOK
  <2>6. ASSUME NEW r \in Reservations, ExecutorActs(r) PROVE TypeOK'
    BY <2>6 DEF ExecutorActs, TypeOK
  <2>7. ASSUME NEW r \in Reservations, NEW answer \in {"committed", "ambiguous"},
               Commit(r, answer)
        PROVE  TypeOK'
    <3> DEFINE k == reservation[r].capability
    <3>1. SlotFreed \in Nat
      BY ReapFacts DEF SlotFreed, Floor
    <3>2. k \in Capabilities /\ capState[k] = "issued"
      BY <2>7, ReapFacts DEF Commit, StillLeased, TypeOK, ReservationType,
         CapabilitySpentOnce
    <3>3. capState' = [ReapedCap EXCEPT ![k] = "consumed"]
      BY <2>7 DEF Commit
    <3>4. resState' = [ReapedRes EXCEPT ![r] = "completed"] /\ ReapedRes[r] = "active"
      BY <2>7 DEF Commit, StillLeased
    <3>5. effects' = [effects EXCEPT ![KeyOf(k)] = r]
      BY <2>7 DEF Commit
    <3> HIDE DEF k
    <3>6. /\ capState' \in [Capabilities -> CapStates]
          /\ \A j \in Capabilities : capState'[j] # "none" => capState[j] # "none"
      BY <3>2, <3>3, ReapFacts
    <3>7. /\ resState' \in [Reservations -> ResStates]
          /\ \A q \in Reservations : resState'[q] # "none" => resState[q] # "none"
      BY <3>4, ReapFacts
    <3>8. effects' \in [OpKeys -> Reservations \cup {None}]
      BY <3>5 DEF TypeOK
    <3> QED BY <2>7, <3>1, <3>6, <3>7, <3>8 DEF Commit, Ends, Returned, TypeOK
  <2>8. ASSUME NEW r \in Reservations, CompleteTooLate(r) PROVE TypeOK'
    BY <2>8, <1>0, ReapFacts DEF CompleteTooLate, Reap, Ends, TypeOK
  <2>9. ASSUME NEW r \in Reservations, ExecutorThrows(r) PROVE TypeOK'
    <3> DEFINE k == reservation[r].capability
    <3>1. CASE StillLeased(r)
      <4>1. SlotFreed \in Nat
        BY ReapFacts DEF SlotFreed, Floor
      <4>2. k \in Capabilities /\ capState[k] = "issued"
        BY <3>1, ReapFacts DEF StillLeased, TypeOK, ReservationType, CapabilitySpentOnce
      <4>3. /\ resState' = [ReapedRes EXCEPT ![r] = "failed"]
            /\ capState' = [ReapedCap EXCEPT ![k] = "failed"]
            /\ active' = SlotFreed /\ unlogged' = None
        BY <2>9, <3>1 DEF ExecutorThrows
      <4>4. ReapedRes[r] = "active"
        BY <3>1 DEF StillLeased
      <4> HIDE DEF k
      <4>5. /\ capState' \in [Capabilities -> CapStates]
            /\ \A j \in Capabilities : capState'[j] # "none" => capState[j] # "none"
        BY <4>2, <4>3, ReapFacts
      <4>6. /\ resState' \in [Reservations -> ResStates]
            /\ \A q \in Reservations : resState'[q] # "none" => resState[q] # "none"
        BY <4>3, <4>4, ReapFacts
      <4> QED BY <2>9, <4>1, <4>3, <4>5, <4>6 DEF ExecutorThrows, Ends, TypeOK
    <3>2. CASE ~StillLeased(r)
      BY <2>9, <3>2, <1>0, ReapFacts DEF ExecutorThrows, Reap, Ends, TypeOK
    <3> QED BY <3>1, <3>2
  <2>10. ASSUME NEW r \in Reservations, StoreUnavailable(r) PROVE TypeOK'
    BY <2>10 DEF StoreUnavailable, Ends, TypeOK
  <2>11. CASE Crash
    BY <2>11 DEF Crash, TypeOK
  <2>12. ASSUME NEW r \in Reservations, CommitUnwritten(r) PROVE TypeOK'
    BY <2>12, ReapFacts DEF CommitUnwritten, Reap, Ends, TypeOK
  <2>13. CASE Reload
    BY <2>13 DEF Reload, TypeOK
  <2> QED BY <1>4, <2>1, <2>2, <2>3, <2>4, <2>5, <2>6, <2>7, <2>8, <2>9, <2>10, <2>11,
             <2>12, <2>13 DEF EffectNext
<1>5. CASE UNCHANGED vars
  BY <1>5 DEF vars, TypeOK
<1> QED BY <1>1, <1>2, <1>3, <1>4, <1>5 DEF Next

(* What a step can do to capabilities and reservations.                    *)
LEMMA LeaseSteps ==
    ASSUME [Next]_vars
    PROVE  \/ UNCHANGED <<leases, effects>>
           \/ Reap /\ UNCHANGED <<capability, reservation, effects>>
           \/ \E k \in Capabilities, p \in Proposals, ttl \in CapabilityTTLs :
                 IssueCapability(k, p, ttl)
           \/ \E k \in Capabilities, r \in Reservations : ExecuteCapability(k, r)
           \/ \E r \in Reservations, answer \in {"committed", "ambiguous"} : Commit(r, answer)
           \/ \E r \in Reservations : ExecutorThrows(r) /\ StillLeased(r)
<1> USE DEF leases
<1>1. CASE OperatorNext
  BY <1>1 DEF OperatorNext, Tick, SetOperatorDial, Halt, Override, ClearOverride,
     RegisterVerifier, RuntimeHealth
<1>2. CASE ContractNext
  BY <1>2 DEF ContractNext, ProposeContract, RatifyContract, RejectContract
<1>3. CASE ProposalNext
  BY <1>3 DEF ProposalNext, RecordProposal, VerifyCall, VerifyRefused, VerdictRefused,
     VerdictPassed
<1>4. CASE EffectNext
  <2>1. ASSUME NEW r \in Reservations, ExecutorThrows(r), ~StillLeased(r)
        PROVE  Reap /\ UNCHANGED <<capability, reservation, effects>>
    BY <2>1 DEF ExecutorThrows
  <2> QED BY <1>4, <2>1 DEF EffectNext, IssueRefused, ExecuteRefused, ExecuteForged,
          ExecutorActs, CommitUnwritten, CompleteTooLate, StoreUnavailable, Crash, Reload
<1>5. CASE UNCHANGED vars
  BY <1>5 DEF vars
<1> QED BY <1>1, <1>2, <1>3, <1>4, <1>5 DEF Next

(* A live lease that ends, for good or for bad, spends its capability.     *)
LEMMA SpentByEnd ==
    ASSUME TypeOK, CapabilitySpentOnce, NEW r \in Reservations, StillLeased(r),
           NEW s \in {"completed", "failed"}
    PROVE  SpentOnce([ReapedRes EXCEPT ![r] = s],
                     [ReapedCap EXCEPT ![reservation[r].capability] = Spent(s)],
                     reservation)
<1> DEFINE k   == reservation[r].capability
           res == [ReapedRes EXCEPT ![r] = s]
           cap == [ReapedCap EXCEPT ![k] = Spent(s)]
<1>1. ReapedRes[r] = "active" /\ resState[r] # "none"
  BY ReapFacts DEF StillLeased
<1>2. k \in Capabilities
  BY <1>1 DEF TypeOK, ReservationType
<1>3. SpentOnce(ReapedRes, ReapedCap, reservation)
  BY ReapFacts
<1>4. /\ res \in [Reservations -> ResStates]
      /\ \A q \in Reservations : res[q] = IF q = r THEN s ELSE ReapedRes[q]
  BY ReapFacts DEF ResStates
<1>5. \A j \in Capabilities : cap[j] = IF j = k THEN Spent(s) ELSE ReapedCap[j]
  BY ReapFacts
<1>6. \A q \in Reservations : ReapedRes[q] # "none" => reservation[q].capability \in Capabilities
  BY ReapFacts DEF TypeOK, ReservationType
<1> HIDE DEF k, res, cap
<1>7. \A q \in Reservations : res[q] # "none" <=> ReapedRes[q] # "none"
  BY <1>1, <1>4
<1>8. \A q \in Reservations :
        ReapedRes[q] # "none" /\ reservation[q].capability = k => q = r
  BY <1>1, <1>3 DEF SpentOnce, k
<1> SUFFICES ASSUME NEW q \in Reservations, res[q] # "none"
             PROVE  /\ cap[reservation[q].capability] = Spent(res[q])
                    /\ \A u \in Reservations :
                         res[u] # "none" /\ reservation[u].capability = reservation[q].capability
                           => u = q
  BY DEF SpentOnce, res, cap, k
<1>9. cap[reservation[q].capability] = Spent(res[q])
  <2>1. CASE q = r
    BY <2>1, <1>2, <1>4, <1>5 DEF k
  <2>2. CASE q # r
    BY <2>2, <1>3, <1>4, <1>5, <1>6, <1>7, <1>8 DEF SpentOnce
  <2> QED BY <2>1, <2>2
<1>10. \A u \in Reservations :
         res[u] # "none" /\ reservation[u].capability = reservation[q].capability => u = q
  BY <1>3, <1>7 DEF SpentOnce
<1> QED BY <1>9, <1>10

(* One step keeps CapabilitySpentOnce.                                     *)
LEMMA NextSpentOnce ==
    ASSUME TypeOK, CapabilitySpentOnce, [Next]_vars
    PROVE  CapabilitySpentOnce'
<1> USE DEF leases
<1>0. SpentOnce(resState', capState', reservation') => CapabilitySpentOnce'
  <2>1. resState' \in [Reservations -> ResStates]
    BY NextTyped DEF TypeOK, ResStates
  <2> QED BY <2>1 DEF CapabilitySpentOnce, SpentOnce, Spent, ResStates
<1>1. CASE UNCHANGED leases
  BY <1>1 DEF CapabilitySpentOnce
<1>2. CASE Reap /\ UNCHANGED reservation
  BY <1>0, <1>2, ReapFacts DEF Reap
<1>3. ASSUME NEW k \in Capabilities, NEW p \in Proposals, NEW ttl \in CapabilityTTLs,
             IssueCapability(k, p, ttl)
      PROVE  CapabilitySpentOnce'
  <2>1. /\ capState[k] = "none" /\ capState' = [ReapedCap EXCEPT ![k] = "issued"]
        /\ resState' = ReapedRes /\ reservation' = reservation
    BY <1>3 DEF IssueCapability
  <2>2. \A q \in Reservations : ReapedRes[q] # "none" => reservation[q].capability # k
    BY <2>1, ReapFacts DEF SpentOnce, Spent
  <2>3. \A q \in Reservations :
          ReapedRes[q] # "none" => capState'[reservation[q].capability]
                                     = ReapedCap[reservation[q].capability]
    BY <2>1, <2>2, ReapFacts DEF TypeOK, ReservationType
  <2>4. SpentOnce(resState', capState', reservation')
    BY <2>1, <2>3, ReapFacts DEF SpentOnce
  <2> QED BY <2>4, <1>0
<1>4. ASSUME NEW k \in Capabilities, NEW r \in Reservations, ExecuteCapability(k, r)
      PROVE  CapabilitySpentOnce'
  <2>1. /\ resState[r] = "none" /\ ReapedCap[k] = "issued" /\ NotReserved(k)
        /\ resState' = [ReapedRes EXCEPT ![r] = "active"]
        /\ reservation' = [reservation EXCEPT ![r] =
                              [capability |-> k, lease |-> now + LeaseTTL]]
        /\ capState' = ReapedCap
    BY <1>4 DEF ExecuteCapability, MayReserve
  <2>2. /\ \A q \in Reservations : resState'[q] = IF q = r THEN "active" ELSE ReapedRes[q]
        /\ \A q \in Reservations : q # r => reservation'[q] = reservation[q]
        /\ reservation'[r].capability = k
    BY <2>1, ReapFacts DEF TypeOK
  <2>3. \A q \in Reservations : ReapedRes[q] # "none" => reservation[q].capability # k
    <3> SUFFICES ASSUME NEW q \in Reservations, ReapedRes[q] # "none",
                        reservation[q].capability = k
                 PROVE  FALSE
      OBVIOUS
    <3>1. Spent(ReapedRes[q]) = "issued"
      BY <2>1, ReapFacts DEF SpentOnce
    <3>2. ReapedRes[q] = "active"
      BY <3>1 DEF Spent
    <3> QED BY <3>2, <2>1 DEF NotReserved
  <2>4. SpentOnce(resState', capState', reservation')
    <3> SUFFICES ASSUME NEW q \in Reservations, resState'[q] # "none"
                 PROVE  /\ capState'[reservation'[q].capability] = Spent(resState'[q])
                        /\ \A u \in Reservations :
                             resState'[u] # "none"
                               /\ reservation'[u].capability = reservation'[q].capability
                               => u = q
      BY DEF SpentOnce
    <3>1. CASE q = r
      BY <3>1, <2>1, <2>2, <2>3 DEF Spent
    <3>2. CASE q # r
      BY <3>2, <2>1, <2>2, <2>3, ReapFacts DEF SpentOnce
    <3> QED BY <3>1, <3>2
  <2> QED BY <2>4, <1>0
<1>5. ASSUME NEW r \in Reservations, NEW answer \in {"committed", "ambiguous"},
             Commit(r, answer)
      PROVE  CapabilitySpentOnce'
  BY <1>0, <1>5, SpentByEnd DEF Commit, Spent
<1>6. ASSUME NEW r \in Reservations, ExecutorThrows(r), StillLeased(r)
      PROVE  CapabilitySpentOnce'
  BY <1>0, <1>6, SpentByEnd DEF ExecutorThrows, Spent
<1> QED BY <1>1, <1>2, <1>3, <1>4, <1>5, <1>6, LeaseSteps

(* Every state of the engine is well typed.                                *)
THEOREM TypeCorrect == Spec => []TypeOK
<1>1. TypeOK /\ CapabilitySpentOnce /\ [Next]_vars => (TypeOK /\ CapabilitySpentOnce)'
  BY NextTyped, NextSpentOnce
<1> QED BY <1>1, InitTyped, PTL DEF Spec

(* However reservations expire, fail, are retried or are cut short by a    *)
(* crash, a capability is spent through one reservation and shares its     *)
(* fate (the reducer's consumed and failed flags).                         *)
THEOREM SpentOnceAlways == Spec => []CapabilitySpentOnce
<1>1. TypeOK /\ CapabilitySpentOnce /\ [Next]_vars => (TypeOK /\ CapabilitySpentOnce)'
  BY NextTyped, NextSpentOnce
<1> QED BY <1>1, InitTyped, PTL DEF Spec
----------------------------------------------------------------------------
(***************************************************************************)
(* Calls, and the completion that is in memory alone                       *)
(***************************************************************************)
(* Which steps change the state of one reservation, and how.               *)
LEMMA ReservationSteps ==
    ASSUME TypeOK, CapabilitySpentOnce, [Next]_vars, NEW r \in Reservations, resState'[r] # resState[r]
    PROVE  \/ resState[r] = "active" /\ resState'[r] = "failed"
           \/ /\ resState[r] = "none" /\ resState'[r] = "active"
              /\ \E k \in Capabilities : ExecuteCapability(k, r)
           \/ /\ resState'[r] = "completed"
              /\ \E answer \in {"committed", "ambiguous"} : Commit(r, answer)
<1>1. CASE UNCHANGED leases
  BY <1>1 DEF leases
<1>2. ASSUME NEW q \in Reservations
      PROVE  ReapedRes[q] # resState[q] => resState[q] = "active" /\ ReapedRes[q] = "failed"
  BY DEF ReapedRes, Over, Overdue, LeaseOver
<1>3. CASE Reap
  BY <1>2, <1>3 DEF Reap
<1>4. ASSUME NEW k \in Capabilities, NEW p \in Proposals, NEW ttl \in CapabilityTTLs,
             IssueCapability(k, p, ttl)
      PROVE  resState[r] = "active" /\ resState'[r] = "failed"
  BY <1>2, <1>4 DEF IssueCapability
<1>5. ASSUME NEW k \in Capabilities, NEW q \in Reservations, ExecuteCapability(k, q)
      PROVE  \/ resState[r] = "active" /\ resState'[r] = "failed"
             \/ resState[r] = "none" /\ resState'[r] = "active" /\ q = r
  BY <1>2, <1>5, ReapFacts DEF ExecuteCapability
<1>6. ASSUME NEW q \in Reservations, NEW answer \in {"committed", "ambiguous"},
             Commit(q, answer)
      PROVE  \/ resState[r] = "active" /\ resState'[r] = "failed"
             \/ resState'[r] = "completed" /\ q = r
  BY <1>2, <1>6, ReapFacts DEF Commit
<1>7. ASSUME NEW q \in Reservations, ExecutorThrows(q), StillLeased(q)
      PROVE  resState[r] = "active" /\ resState'[r] = "failed"
  BY <1>2, <1>7, ReapFacts DEF ExecutorThrows, StillLeased
<1> QED BY <1>1, <1>3, <1>4, <1>5, <1>6, <1>7, LeaseSteps

(* An answer is given once, at the end of a call that is running; only     *)
(* reserved effects run or act; and the completion that is not in the log  *)
(* is one whose caller was told "ambiguous" under a lease that is there.   *)
CallsOpen ==
    /\ \A r \in running : resState[r] \in {"active", "failed"} /\ reply[r] = "none"
    /\ \A r \in acted : resState[r] # "none"
    /\ \A r \in Reservations : resState[r] = "none" => reply[r] = "none"
    /\ unlogged # None => unlogged \in Lost

(* Calls: how one step moves running, acted and reply.                     *)
LEMMA CallSteps ==
    ASSUME TypeOK, CapabilitySpentOnce, [Next]_vars
    PROVE  \/ /\ UNCHANGED <<acted, reply>> /\ running' \subseteq running
           \/ \E k \in Capabilities, r \in Reservations : ExecuteCapability(k, r)
           \/ \E r \in Reservations :
                \/ ExecutorActs(r)
                \/ \E answer \in {"committed", "ambiguous"} : Commit(r, answer)
                \/ CommitUnwritten(r)
                \/ CompleteTooLate(r)
                \/ ExecutorThrows(r)
                \/ StoreUnavailable(r)
<1> USE DEF inFlight
<1>1. CASE OperatorNext
  BY <1>1 DEF OperatorNext, Tick, SetOperatorDial, Halt, Override, ClearOverride,
     RegisterVerifier, RuntimeHealth
<1>2. CASE ContractNext
  BY <1>2 DEF ContractNext, ProposeContract, RatifyContract, RejectContract
<1>3. CASE ProposalNext
  BY <1>3 DEF ProposalNext, RecordProposal, VerifyCall, VerifyRefused, VerdictRefused,
     VerdictPassed
<1>4. CASE EffectNext
  BY <1>4 DEF EffectNext, IssueCapability, IssueRefused, ExecuteRefused, ExecuteForged, Crash,
     Reload
<1>5. CASE UNCHANGED vars
  BY <1>5 DEF vars
<1> QED BY <1>1, <1>2, <1>3, <1>4, <1>5 DEF Next

(* A reply is given when its call ends, by whichever action ends it.       *)
LEMMA RepliesEndCalls ==
    ASSUME TypeOK, CapabilitySpentOnce, [Next]_vars, NEW r \in Reservations
    PROVE  /\ r \in running' => r \in running \/ resState[r] = "none"
           /\ r \in acted' => r \in acted \/ r \in running
           /\ r \in acted => r \in acted'
           /\ r \in running /\ r \in running' => reply'[r] = reply[r]
           /\ reply'[r] # reply[r] => r \in running /\ r \notin running'
           /\ r \in running' /\ resState[r] = "none" => reply'[r] = reply[r]
<1> USE DEF inFlight, Ends, TypeOK, Returned
<1>1. CASE UNCHANGED <<acted, reply>> /\ running' \subseteq running
  BY <1>1
<1>2. ASSUME NEW k \in Capabilities, NEW q \in Reservations, ExecuteCapability(k, q)
      PROVE  /\ UNCHANGED <<acted, reply>> /\ running' = running \cup {q}
             /\ resState[q] = "none"
  BY <1>2 DEF ExecuteCapability
<1>3. ASSUME NEW q \in Reservations, ExecutorActs(q)
      PROVE  /\ UNCHANGED <<running, reply>> /\ acted' = acted \cup {q} /\ q \in running
  BY <1>3 DEF ExecutorActs
<1>4. ASSUME NEW q \in Reservations,
             \/ \E answer \in {"committed", "ambiguous"} : Commit(q, answer)
             \/ CommitUnwritten(q) \/ CompleteTooLate(q) \/ ExecutorThrows(q)
             \/ StoreUnavailable(q)
      PROVE  /\ q \in running /\ running' = running \ {q} /\ acted' = acted
             /\ \A u \in Reservations : u # q => reply'[u] = reply[u]
  BY <1>4 DEF Commit, CommitUnwritten, CompleteTooLate, ExecutorThrows, StoreUnavailable
<1> QED BY <1>1, <1>2, <1>3, <1>4, CallSteps

(* The log and memory: a step reloads memory, leaves it ahead as it was    *)
(* together with the reservations, or loses the line of a completion.      *)
LEMMA UnloggedSteps ==
    ASSUME TypeOK, [Next]_vars
    PROVE  \/ unlogged' = None
           \/ unlogged' = unlogged /\ resState' = resState
           \/ \E r \in Reservations : CommitUnwritten(r)
<1> USE DEF leases, Appends
<1>1. Reap /\ unlogged' = Ahead => unlogged' = None \/ (unlogged' = unlogged /\ resState' = resState)
  <2>1. Over = {} => ReapedRes = resState
    BY DEF ReapedRes, TypeOK
  <2> QED BY <2>1 DEF Ahead, Reap
<1>2. CASE OperatorNext
  BY <1>2 DEF OperatorNext, Tick, SetOperatorDial, Halt, Override, ClearOverride,
     RegisterVerifier, RuntimeHealth
<1>3. CASE ContractNext
  BY <1>3 DEF ContractNext, ProposeContract, RatifyContract, RejectContract
<1>4. CASE ProposalNext
  BY <1>4 DEF ProposalNext, RecordProposal, VerifyCall, VerifyRefused, VerdictRefused,
     VerdictPassed
<1>5. CASE EffectNext
  BY <1>1, <1>5 DEF EffectNext, IssueCapability, IssueRefused, ExecuteCapability,
     ExecuteRefused, ExecuteForged, ExecutorActs, Commit, CompleteTooLate, ExecutorThrows,
     StoreUnavailable, Crash, Reload
<1>6. CASE UNCHANGED vars
  BY <1>6 DEF vars
<1> QED BY <1>2, <1>3, <1>4, <1>5, <1>6 DEF Next

(* A lost lease stays lost until it is over: nothing answers or commits it.*)
LEMMA LostKept ==
    ASSUME TypeOK, CapabilitySpentOnce, CallsOpen, [Next]_vars, NEW r \in Lost
    PROVE  r \notin running /\ resState'[r] # "completed" /\ (resState'[r] = "active" => r \in Lost')
<1>1. r \in Reservations /\ resState[r] = "active" /\ reply[r] = "ambiguous"
  BY DEF Lost, Ids
<1>2. r \notin running
  BY <1>1 DEF CallsOpen
<1>3. reply'[r] = "ambiguous"
  BY <1>1, <1>2, RepliesEndCalls
<1>4. resState'[r] # "completed"
  BY <1>1, <1>2, ReservationSteps DEF Commit, Returned
<1> QED BY <1>1, <1>2, <1>3, <1>4 DEF Lost, Ids

(* One step keeps CallsOpen.                                               *)
LEMMA NextCallsOpen ==
    ASSUME TypeOK, CapabilitySpentOnce, CallsOpen, [Next]_vars
    PROVE  CallsOpen'
<1>1. ASSUME NEW r \in running'
      PROVE  resState'[r] \in {"active", "failed"} /\ reply'[r] = "none"
  <2>1. r \in Reservations
    BY NextTyped DEF TypeOK
  <2>2. ~\E answer \in {"committed", "ambiguous"} : Commit(r, answer)
    BY DEF Commit, Ends
  <2>3. CASE r \in running
    BY <2>1, <2>2, <2>3, ReservationSteps, RepliesEndCalls DEF CallsOpen
  <2>4. CASE r \notin running
    <3>1. resState[r] = "none" /\ reply'[r] = "none"
      BY <2>1, <2>4, RepliesEndCalls DEF CallsOpen
    <3>2. PICK k \in Capabilities, q \in Reservations : ExecuteCapability(k, q) /\ q = r
      <4>1. ~(running' \subseteq running)
        BY <2>4
      <4> QED BY <4>1, <2>4, CallSteps
              DEF ExecutorActs, Commit, CommitUnwritten, CompleteTooLate, ExecutorThrows,
                  StoreUnavailable, Ends, inFlight, ExecuteCapability
    <3>3. resState'[r] = "active"
      BY <3>2, ReapFacts DEF ExecuteCapability
    <3> QED BY <3>1, <3>3
  <2> QED BY <2>3, <2>4
<1>2. ASSUME NEW r \in Reservations, resState'[r] = "none"
      PROVE  resState[r] = "none" /\ r \notin acted' /\ reply'[r] = "none"
  <2>1. resState[r] = "none"
    BY <1>2, ReservationSteps
  <2>2. r \notin running /\ r \notin acted /\ reply[r] = "none"
    BY <2>1 DEF CallsOpen
  <2> QED BY <2>1, <2>2, RepliesEndCalls
<1>3. acted' \subseteq Reservations
  BY NextTyped DEF TypeOK
<1>4. ASSUME unlogged' # None PROVE unlogged' \in Lost'
  <2>1. CASE unlogged' = unlogged /\ resState' = resState
    <3>1. unlogged \in Lost /\ resState[unlogged] = "active"
      BY <1>4, <2>1 DEF CallsOpen, Lost, Ids
    <3> QED BY <2>1, <3>1, LostKept
  <2>2. ASSUME NEW r \in Reservations, CommitUnwritten(r) PROVE unlogged' \in Lost'
    <3>1. unlogged' = r /\ resState'[r] = "active" /\ reply'[r] = "ambiguous"
      BY <2>2 DEF CommitUnwritten, StillLeased, Reap, Ends, TypeOK
    <3> QED BY <3>1 DEF Lost, Ids
  <2> QED BY <1>4, <2>1, <2>2, UnloggedSteps
<1> QED BY <1>1, <1>2, <1>3, <1>4 DEF CallsOpen

----------------------------------------------------------------------------
(***************************************************************************)
(* The counter of active effects                                           *)
(***************************************************************************)
Active(res) == {r \in Reservations : res[r] = "active"}

(* Reaping frees exactly the slots of the leases it ends.                  *)
LEMMA ReapCounts ==
    ASSUME TypeOK, ActiveCountExact
    PROVE  /\ ReapedActive = Cardinality(Active(ReapedRes))
           /\ ReapedActive <= active
           /\ IsFiniteSet(Active(ReapedRes))
           /\ ReapedActive \in Nat
<1>1. IsFiniteSet(Active(resState)) /\ Cardinality(Active(resState)) = active
  BY FiniteAssumption, FS_Subset DEF Active, ActiveCountExact, Ids
<1>2. Active(resState) \cap Over = Over
  BY DEF Active, Over, Overdue, LeaseOver
<1>3. Active(ReapedRes) = Active(resState) \ Over
  BY DEF Active, ReapedRes
<1>4. /\ IsFiniteSet(Active(ReapedRes))
      /\ Cardinality(Active(ReapedRes)) = active - Cardinality(Over)
  BY <1>1, <1>2, <1>3, FS_Difference
<1>5. IsFiniteSet(Over) /\ Cardinality(Over) \in Nat
  BY <1>1, <1>2, FS_Subset, FS_CardinalityType
<1>6. Cardinality(Active(ReapedRes)) \in Nat
  BY <1>4, FS_CardinalityType
<1> QED BY <1>4, <1>5, <1>6 DEF ReapedActive, Floor, TypeOK

(* What a gate that memory shows open leaves room for: the slots in use are *)
(* those of the leases kept, but for the one completed in memory alone.    *)
LEMMA SlotsInUse ==
    ASSUME TypeOK, CapabilitySpentOnce, CallsOpen, ActiveCountExact
    PROVE  /\ InUse \in Nat /\ InUse = Cardinality(Active(ReapedRes) \ {Ahead})
           /\ IsFiniteSet(Active(ReapedRes) \ {Ahead})
           /\ Ahead = None \/ Ahead \in Lost
           /\ ReapedActive = IF Ahead = None THEN InUse ELSE InUse + 1
<1>1. /\ IsFiniteSet(Active(ReapedRes)) /\ ReapedActive \in Nat
      /\ ReapedActive = Cardinality(Active(ReapedRes))
  BY ReapCounts
<1>2. CASE Ahead = None
  <2>1. Active(ReapedRes) \ {Ahead} = Active(ReapedRes)
    BY <1>2, NoneAssumption DEF Active
  <2> QED BY <1>1, <1>2, <2>1 DEF InUse
<1>3. CASE Ahead # None
  <2>1. Over = {} /\ Ahead = unlogged
    BY <1>3 DEF Ahead
  <2>2. Ahead \in Lost
    BY <1>3, <2>1 DEF CallsOpen
  <2>3. Ahead \in Active(ReapedRes)
    BY <2>1, <2>2 DEF Active, ReapedRes, Lost, Ids
  <2>4. /\ Cardinality(Active(ReapedRes) \ {Ahead}) = ReapedActive - 1
        /\ IsFiniteSet(Active(ReapedRes) \ {Ahead})
    BY <1>1, <2>3, FS_RemoveElement
  <2>5. Cardinality(Active(ReapedRes) \ {Ahead}) \in Nat
    BY <2>4, FS_CardinalityType
  <2> QED BY <1>1, <1>3, <2>2, <2>4, <2>5 DEF InUse, Floor
<1> QED BY <1>2, <1>3

(* The leases that still may end in a commit.                              *)
MayCommit == Ids("active") \ Lost

(* Only a new lease joins those that may commit.                           *)
LEMMA MayCommitSteps ==
    ASSUME TypeOK, CapabilitySpentOnce, CallsOpen, [Next]_vars, NEW r \in MayCommit'
    PROVE  r \in MayCommit \/ \E k \in Capabilities : ExecuteCapability(k, r)
<1>1. r \in Reservations /\ resState'[r] = "active" /\ r \notin Lost'
  BY DEF MayCommit, Ids
<1>2. CASE resState[r] = "active"
  BY <1>1, <1>2, LostKept DEF MayCommit, Ids
<1>3. CASE resState[r] # "active"
  BY <1>1, <1>3, ReservationSteps
<1> QED BY <1>2, <1>3

(* One step keeps ActiveCountExact.                                        *)
LEMMA NextCounts ==
    ASSUME TypeOK, CapabilitySpentOnce, CallsOpen, ActiveCountExact, [Next]_vars
    PROVE  ActiveCountExact'
<1> USE DEF leases
<1> USE BudgetAssumption
<1>1. /\ active \in Nat /\ active <= Concurrency + 1
      /\ IsFiniteSet(MayCommit) /\ Cardinality(MayCommit) \in Nat
      /\ Cardinality(MayCommit) <= Concurrency
  <2>1. IsFiniteSet(MayCommit)
    BY FiniteAssumption, FS_Subset DEF MayCommit, Ids
  <2> QED BY <2>1, FS_CardinalityType DEF ActiveCountExact, MayCommit, TypeOK
<1>0. ASSUME active' = Cardinality(Active(resState')), active' <= active,
             \A k \in Capabilities, r \in Reservations : ~ExecuteCapability(k, r)
      PROVE  ActiveCountExact'
  <2>1. MayCommit' \subseteq MayCommit
    BY <1>0, MayCommitSteps DEF MayCommit, Ids
  <2>2. Cardinality(MayCommit') <= Concurrency
    <3>1. /\ IsFiniteSet(MayCommit') /\ Cardinality(MayCommit') <= Cardinality(MayCommit)
      BY <1>1, <2>1, FS_Subset
    <3>2. Cardinality(MayCommit') \in Nat
      BY <3>1, FS_CardinalityType
    <3> QED BY <1>1, <3>1, <3>2
  <2>3. active' \in Nat
    BY NextTyped DEF TypeOK
  <2> QED BY <1>0, <1>1, <2>2, <2>3 DEF ActiveCountExact, MayCommit, Ids, Active
<1>2. CASE UNCHANGED leases
  <2>1. \A k \in Capabilities, r \in Reservations : ~ExecuteCapability(k, r)
    BY <1>2, ReapFacts DEF ExecuteCapability
  <2> QED BY <1>0, <1>1, <1>2, <2>1 DEF ActiveCountExact, Ids, Active
<1>3. ASSUME NEW k \in Capabilities, NEW r \in Reservations, ExecuteCapability(k, r)
      PROVE  ActiveCountExact'
  <2>1. /\ resState[r] = "none" /\ GateOpen(InUse)
        /\ resState' = [ReapedRes EXCEPT ![r] = "active"]
        /\ active' = ReapedActive + 1 /\ reply' = reply
    BY <1>3 DEF ExecuteCapability, MayReserve
  <2>2. InUse < Concurrency /\ InUse \in Nat
    BY <2>1, OpenGate, SlotsInUse
  <2>3. ReapedRes[r] = "none"
    BY <2>1, ReapFacts
  <2>4. Active(resState') = Active(ReapedRes) \cup {r} /\ r \notin Active(ReapedRes)
    BY <2>1, <2>3, ReapFacts DEF Active
  <2>5. Cardinality(Active(resState')) = ReapedActive + 1
    <3>1. IsFiniteSet(Active(ReapedRes)) /\ ReapedActive = Cardinality(Active(ReapedRes))
      BY ReapCounts
    <3>2. Cardinality(Active(ReapedRes) \cup {r}) = Cardinality(Active(ReapedRes)) + 1
      BY <2>4, <3>1, FS_AddElement
    <3> QED BY <2>4, <3>1, <3>2
  <2>6. MayCommit' \subseteq (Active(ReapedRes) \ {Ahead}) \cup {r}
    <3>1. Ahead \in Lost => Ahead \in Reservations /\ Ahead # r /\ reply'[Ahead] = "ambiguous"
      BY <2>1 DEF Lost, Ids
    <3> QED BY <2>4, <3>1, SlotsInUse, NoneAssumption DEF MayCommit, Lost, Ids, Active
  <2>7. Cardinality(MayCommit') <= InUse + 1
    <3>1. /\ IsFiniteSet(Active(ReapedRes) \ {Ahead})
          /\ InUse = Cardinality(Active(ReapedRes) \ {Ahead})
      BY SlotsInUse
    <3>2. r \notin Active(ReapedRes) \ {Ahead}
      BY <2>4
    <3>3. /\ IsFiniteSet((Active(ReapedRes) \ {Ahead}) \cup {r})
          /\ Cardinality((Active(ReapedRes) \ {Ahead}) \cup {r}) = InUse + 1
      BY <3>1, <3>2, FS_AddElement
    <3> QED BY <2>6, <3>3, FS_Subset
  <2>8. Cardinality(MayCommit') \in Nat
    <3>1. IsFiniteSet(MayCommit')
      BY FiniteAssumption, FS_Subset DEF MayCommit, Ids
    <3> QED BY <3>1, FS_CardinalityType
  <2>9. Cardinality(MayCommit') <= Concurrency /\ active' <= Concurrency + 1
    BY <2>1, <2>2, <2>7, <2>8, SlotsInUse
  <2> QED BY <2>1, <2>5, <2>9 DEF ActiveCountExact, MayCommit, Ids, Active
<1> SUFFICES ASSUME \A k \in Capabilities, r \in Reservations : ~ExecuteCapability(k, r)
             PROVE  ActiveCountExact'
  BY <1>3
<1>4. CASE Reap
  BY <1>0, <1>4, ReapCounts DEF Reap
<1>5. ASSUME NEW k \in Capabilities, NEW p \in Proposals, NEW ttl \in CapabilityTTLs,
             IssueCapability(k, p, ttl)
      PROVE  ActiveCountExact'
  BY <1>0, <1>5, ReapCounts DEF IssueCapability
<1>6. ASSUME NEW r \in Reservations, StillLeased(r), active' = SlotFreed,
             NEW st \in {"completed", "failed"}, resState' = [ReapedRes EXCEPT ![r] = st]
      PROVE  ActiveCountExact'
  <2>1. Active(resState') = Active(ReapedRes) \ {r} /\ r \in Active(ReapedRes)
    BY <1>6, ReapFacts DEF Active, StillLeased
  <2>2. Cardinality(Active(resState')) = ReapedActive - 1
    BY <2>1, ReapCounts, FS_RemoveElement
  <2>3. IsFiniteSet(Active(resState'))
    BY <2>1, ReapCounts, FS_RemoveElement
  <2>4. Cardinality(Active(resState')) \in Nat
    BY <2>3, FS_CardinalityType
  <2>5. active' = ReapedActive - 1
    BY <1>6, <2>2, <2>4, ReapCounts DEF SlotFreed, Floor
  <2> QED BY <1>0, <1>1, <2>2, <2>5, ReapCounts
<1>7. ASSUME NEW r \in Reservations, NEW answer \in {"committed", "ambiguous"},
             Commit(r, answer)
      PROVE  ActiveCountExact'
  BY <1>6, <1>7 DEF Commit
<1>8. ASSUME NEW r \in Reservations, ExecutorThrows(r), StillLeased(r)
      PROVE  ActiveCountExact'
  BY <1>6, <1>8 DEF ExecutorThrows
<1> QED BY <1>2, <1>4, <1>5, <1>7, <1>8, LeaseSteps

(* The empty log uses no slot, and no call is open.                        *)
LEMMA InitCounts == Init => ActiveCountExact /\ CallsOpen
<1> SUFFICES ASSUME Init PROVE ActiveCountExact /\ CallsOpen
  OBVIOUS
<1>1. Ids("active") = {} /\ Ids("active") \ Lost = {}
  BY DEF Init, Ids
<1>2. active = 0 /\ 0 <= Concurrency /\ 0 <= Concurrency + 1
  BY BudgetAssumption DEF Init
<1>3. Cardinality({}) = 0
  BY FS_EmptySet
<1>4. CallsOpen
  BY DEF Init, CallsOpen
<1> QED BY <1>1, <1>2, <1>3, <1>4 DEF ActiveCountExact

(* The counter of the concurrency check counts the active reservations;    *)
(* those that still may commit stay within the budget, and completions     *)
(* that could not be written let one lease in beside it, for any budget.   *)
THEOREM ActiveCountAlways == Spec => []ActiveCountExact
<1> DEFINE I == TypeOK /\ CapabilitySpentOnce /\ CallsOpen /\ ActiveCountExact
<1>1. Init => I
  BY InitTyped, InitCounts
<1>2. I /\ [Next]_vars => I'
  BY NextTyped, NextSpentOnce, NextCallsOpen, NextCounts
<1> QED BY <1>1, <1>2, PTL DEF Spec

----------------------------------------------------------------------------
(***************************************************************************)
(* The chain of authority                                                  *)
(***************************************************************************)
(* Who ratified a contract, and that a capability's contract can lose its  *)
(* ratification only together with a recorded issue.                       *)
RatifiersNominated ==
    \A c \in Contracts :
        ratifiedBy[c] \in Identities =>
            ratifiedBy[c] = Nominated[c] /\ ratifiedBy[c] # ProposedBy[c]

RatifiedOrFlagged ==
    \A k \in Capabilities :
        capState[k] # "none" =>
            issues \/ contractStatus[capability[k].contract] = "ratified"

Authority == RatifiersNominated /\ RatifiedOrFlagged /\ AuthorityChain

(* The empty log has ratified and issued nothing.                          *)
LEMMA InitAuthority == Init => Authority
BY NoneAssumption DEF Init, Authority, RatifiersNominated, RatifiedOrFlagged, AuthorityChain

(* An open gate: what IssueCapability and ExecuteCapability rely on.       *)
LEMMA OpenReapedGate ==
    ASSUME TypeOK, CapabilitySpentOnce, GateOpen(InUse)
    PROVE  ~issues /\ InUse < Concurrency
<1>1. InUse \in Nat
  BY ReapFacts DEF InUse, Floor
<1> QED BY <1>1, OpenGate

(* One step keeps RatifiersNominated.                                      *)
LEMMA NextRatifiers ==
    ASSUME TypeOK, RatifiersNominated, [Next]_vars
    PROVE  RatifiersNominated'
<1> USE DEF contracts
<1>1. CASE UNCHANGED ratifiedBy
  BY <1>1 DEF RatifiersNominated
<1>2. ASSUME NEW c \in Contracts, NEW v \in Identities, RatifyContract(c, v)
      PROVE  RatifiersNominated'
  BY <1>2 DEF RatifyContract, MayRatify, CanRatify, RatifiersNominated, TypeOK
<1>3. CASE OperatorNext
  BY <1>1, <1>3 DEF OperatorNext, Tick, SetOperatorDial, Halt, Override, ClearOverride,
     RegisterVerifier, RuntimeHealth
<1>4. CASE ContractNext
  BY <1>1, <1>2, <1>4 DEF ContractNext, ProposeContract, RejectContract
<1>5. CASE ProposalNext
  BY <1>1, <1>5 DEF ProposalNext, RecordProposal, VerifyCall, VerifyRefused, VerdictRefused,
     VerdictPassed
<1>6. CASE EffectNext
  BY <1>1, <1>6 DEF EffectNext, IssueCapability, IssueRefused, ExecuteCapability,
     ExecuteRefused, ExecuteForged, ExecutorActs, Commit, CommitUnwritten, CompleteTooLate,
     ExecutorThrows, StoreUnavailable, Crash, Reload
<1>7. CASE UNCHANGED vars
  BY <1>1, <1>7 DEF vars
<1> QED BY <1>3, <1>4, <1>5, <1>6, <1>7 DEF Next

(* A contract keeps its ratification, or an issue is recorded for good.    *)
LEMMA RatificationKept ==
    ASSUME TypeOK, [Next]_vars
    PROVE  /\ issues => issues'
           /\ \A c \in Contracts :
                contractStatus[c] = "ratified" => issues' \/ contractStatus'[c] = "ratified"
           /\ \A c \in Contracts : ratifiedBy[c] \in Identities => ratifiedBy'[c] \in Identities
<1> USE DEF contracts
<1>1. CASE OperatorNext
  BY <1>1 DEF OperatorNext, Tick, SetOperatorDial, Halt, Override, ClearOverride,
     RegisterVerifier, RuntimeHealth
<1>2. CASE ContractNext
  BY <1>2 DEF ContractNext, ProposeContract, RatifyContract, RejectContract, IssueRecorded,
     TypeOK
<1>3. CASE ProposalNext
  <2>1. (issues' = issues \/ issues' = TRUE) /\ UNCHANGED <<contractStatus, ratifiedBy>>
    BY <1>3 DEF ProposalNext, RecordProposal, VerifyCall, VerifyRefused, VerdictRefused,
       VerdictPassed
  <2> QED BY <2>1 DEF TypeOK
<1>4. CASE EffectNext
  BY <1>4 DEF EffectNext, IssueCapability, IssueRefused, ExecuteCapability,
     ExecuteRefused, ExecuteForged, ExecutorActs, Commit, CommitUnwritten, CompleteTooLate,
     ExecutorThrows, StoreUnavailable, Crash, Reload
<1>5. CASE UNCHANGED vars
  BY <1>5 DEF vars
<1> QED BY <1>1, <1>2, <1>3, <1>4, <1>5 DEF Next

(* A step issues at most the capability it names, and starts at most the   *)
(* reservation it names; all other capabilities and reservations stay.     *)
LEMMA RecordsKept ==
    ASSUME TypeOK, CapabilitySpentOnce, [Next]_vars
    PROVE  /\ \A k \in Capabilities : capState[k] # "none" => capability'[k] = capability[k]
           /\ \A r \in Reservations : resState[r] # "none" => reservation'[r] = reservation[r]
           /\ \A k \in Capabilities : capState[k] = "none" /\ capState'[k] # "none" =>
                 \E p \in Proposals, ttl \in CapabilityTTLs : IssueCapability(k, p, ttl)
           /\ \A r \in Reservations : resState[r] = "none" /\ resState'[r] # "none" =>
                 \E k \in Capabilities : ExecuteCapability(k, r)
<1> USE DEF leases
<1>1. CASE UNCHANGED leases
  BY <1>1
<1>2. CASE Reap /\ UNCHANGED <<capability, reservation>>
  BY <1>2, ReapFacts DEF Reap
<1>3. ASSUME NEW k \in Capabilities, NEW p \in Proposals, NEW ttl \in CapabilityTTLs,
             IssueCapability(k, p, ttl)
      PROVE  /\ \A j \in Capabilities : j # k => capability'[j] = capability[j]
             /\ \A j \in Capabilities : j # k => (capState'[j] = "none" <=> capState[j] = "none")
             /\ capState[k] = "none" /\ reservation' = reservation
             /\ \A r \in Reservations : resState[r] = "none" <=> resState'[r] = "none"
  BY <1>3, ReapFacts DEF IssueCapability, TypeOK
<1>4. ASSUME NEW k \in Capabilities, NEW r \in Reservations, ExecuteCapability(k, r)
      PROVE  /\ \A q \in Reservations : q # r => reservation'[q] = reservation[q]
             /\ \A q \in Reservations : q # r => (resState'[q] = "none" <=> resState[q] = "none")
             /\ resState[r] = "none" /\ capability' = capability
             /\ \A j \in Capabilities : capState[j] = "none" <=> capState'[j] = "none"
  BY <1>4, ReapFacts DEF ExecuteCapability, TypeOK
<1>5. ASSUME NEW r \in Reservations, StillLeased(r), NEW st \in {"completed", "failed"},
             resState' = [ReapedRes EXCEPT ![r] = st],
             capState' = [ReapedCap EXCEPT ![reservation[r].capability] = Spent(st)]
      PROVE  /\ \A j \in Capabilities : capState[j] = "none" <=> capState'[j] = "none"
             /\ \A q \in Reservations : resState[q] = "none" <=> resState'[q] = "none"
  <2>1. ReapedRes[r] = "active"
    BY <1>5 DEF StillLeased
  <2>2. ReapedCap[reservation[r].capability] = "issued"
    BY <2>1, ReapFacts DEF SpentOnce, Spent
  <2>3. Spent(st) # "none"
    BY DEF Spent
  <2> QED BY <1>5, <2>1, <2>2, <2>3, ReapFacts
<1>6. ASSUME NEW r \in Reservations, NEW answer \in {"committed", "ambiguous"},
             Commit(r, answer)
      PROVE  /\ \A j \in Capabilities : capState[j] = "none" <=> capState'[j] = "none"
             /\ \A q \in Reservations : resState[q] = "none" <=> resState'[q] = "none"
             /\ capability' = capability /\ reservation' = reservation
  BY <1>5, <1>6 DEF Commit, Spent
<1>7. ASSUME NEW r \in Reservations, ExecutorThrows(r), StillLeased(r)
      PROVE  /\ \A j \in Capabilities : capState[j] = "none" <=> capState'[j] = "none"
             /\ \A q \in Reservations : resState[q] = "none" <=> resState'[q] = "none"
             /\ capability' = capability /\ reservation' = reservation
  BY <1>5, <1>7 DEF ExecutorThrows, Spent
<1>8. CASE \E k \in Capabilities, p \in Proposals, ttl \in CapabilityTTLs :
             IssueCapability(k, p, ttl)
  BY <1>3, <1>8
<1>9. CASE \E k \in Capabilities, r \in Reservations : ExecuteCapability(k, r)
  BY <1>4, <1>9
<1> QED BY <1>1, <1>2, <1>6, <1>7, <1>8, <1>9, LeaseSteps

(* One step keeps RatifiedOrFlagged.                                       *)
LEMMA NextRatifiedOrFlagged ==
    ASSUME TypeOK, CapabilitySpentOnce, RatifiedOrFlagged, [Next]_vars
    PROVE  RatifiedOrFlagged'
<1> SUFFICES ASSUME NEW k \in Capabilities, capState'[k] # "none"
             PROVE  issues' \/ contractStatus'[capability'[k].contract] = "ratified"
  BY DEF RatifiedOrFlagged
<1>1. CASE capState[k] # "none"
  <2>1. capability'[k] = capability[k] /\ capability[k].contract \in Contracts
    BY <1>1, RecordsKept DEF TypeOK, CapabilityType
  <2> QED BY <1>1, <2>1, RatificationKept DEF RatifiedOrFlagged
<1>2. CASE capState[k] = "none"
  <2>1. PICK p \in Proposals, ttl \in CapabilityTTLs : IssueCapability(k, p, ttl)
    BY <1>2, RecordsKept
  <2>2. capability'[k].contract = current /\ Ratified /\ contractStatus' = contractStatus
    BY <2>1 DEF IssueCapability, MayIssue, TypeOK, contracts
  <2> QED BY <2>2 DEF Ratified
<1> QED BY <1>1, <1>2

(* One step keeps AuthorityChain.                                          *)
LEMMA NextChain ==
    ASSUME TypeOK, CapabilitySpentOnce, Authority, [Next]_vars
    PROVE  AuthorityChain'
<1> SUFFICES ASSUME NEW k \in Capabilities, capState'[k] # "none"
             PROVE  LET cap == capability'[k]
                        c   == cap.contract
                    IN  /\ ratifiedBy'[c] = Nominated[c]
                        /\ cap.verified_by = Nominated[c]
                        /\ cap.verified_by # ProposedBy[c]
                        /\ cap.verified_by # Author[cap.proposal]
                        /\ cap.proposal \in Covers[c] \cap Allowlist[c]
                        /\ cap.expires <= ContractExpiry[c]
                        /\ \A r \in Reservations :
                             resState'[r] # "none" /\ reservation'[r].capability = k
                                => reservation'[r].lease <= cap.expires
  BY DEF AuthorityChain
<1> DEFINE cap == capability'[k]
           c   == cap.contract
<1>1. CASE capState[k] # "none"
  <2>1. cap = capability[k] /\ c \in Contracts
    BY <1>1, RecordsKept DEF TypeOK, CapabilityType
  <2>2. ratifiedBy[c] = Nominated[c] /\ Nominated[c] \in Identities
    BY <1>1, <2>1, ContractAssumption DEF Authority, AuthorityChain
  <2>3. ratifiedBy'[c] = Nominated[c]
    BY <2>1, <2>2, RatificationKept, NextRatifiers DEF Authority, RatifiersNominated
  <2>4. ASSUME NEW r \in Reservations, resState'[r] # "none", reservation'[r].capability = k
        PROVE  reservation'[r].lease <= cap.expires
    <3>1. CASE resState[r] # "none"
      BY <3>1, <2>4, <1>1, <2>1, RecordsKept DEF Authority, AuthorityChain
    <3>2. CASE resState[r] = "none"
      <4>1. PICK j \in Capabilities : ExecuteCapability(j, r)
        BY <3>2, <2>4, RecordsKept
      <4>2. reservation'[r] = [capability |-> j, lease |-> now + LeaseTTL]
        BY <4>1 DEF ExecuteCapability, TypeOK
      <4>3. j = k
        BY <4>2, <2>4
      <4> QED BY <4>1, <4>2, <4>3, <2>1 DEF ExecuteCapability, MayReserve, LeaseFits
    <3> QED BY <3>1, <3>2
  <2>5. /\ cap.verified_by = Nominated[c]
        /\ cap.verified_by # ProposedBy[c]
        /\ cap.verified_by # Author[cap.proposal]
        /\ cap.proposal \in Covers[c] \cap Allowlist[c]
        /\ cap.expires <= ContractExpiry[c]
    BY <1>1, <2>1 DEF Authority, AuthorityChain
  <2> QED BY <2>3, <2>4, <2>5
<1>2. CASE capState[k] = "none"
  <2>1. PICK p \in Proposals, ttl \in CapabilityTTLs : IssueCapability(k, p, ttl)
    BY <1>2, RecordsKept
  <2>2. cap = [proposal |-> p, contract |-> current, verified_by |-> verification[p].verifier,
               expires |-> now + ttl]
    BY <2>1 DEF IssueCapability, TypeOK
  <2>3. MayIssue(p, ttl) /\ ratifiedBy' = ratifiedBy /\ reservation' = reservation
    BY <2>1 DEF IssueCapability, contracts
  <2>4. /\ current \in Contracts
        /\ ratifiedBy[current] = Nominated[current]
        /\ ratifiedBy[current] # ProposedBy[current]
    BY <2>3 DEF MayIssue, Ratified, TypeOK, Authority, RatifiersNominated
  <2>5. /\ verification[p].verifier = ratifiedBy[current]
        /\ verification[p].verifier # Author[p]
        /\ p \in Covers[current] \cap Allowlist[current]
        /\ now + ttl <= ContractExpiry[current]
    BY <2>3 DEF MayIssue, Verified, WithinContract
  <2>6. \A r \in Reservations : resState'[r] # "none" => reservation'[r].capability # k
    <3> SUFFICES ASSUME NEW r \in Reservations, resState'[r] # "none",
                        reservation[r].capability = k
                 PROVE  FALSE
      BY <2>3
    <3>1. resState[r] # "none"
      BY <2>1, ReapFacts DEF IssueCapability
    <3>2. capState[k] = Spent(resState[r])
      BY <3>1, SpentOnceIs DEF TypeOK, SpentOnce, ResStates
    <3> QED BY <3>2, <1>2 DEF Spent
  <2> QED BY <2>2, <2>3, <2>4, <2>5, <2>6
<1> QED BY <1>1, <1>2

(* Every capability the engine issues hangs on an unbroken chain: contract *)
(* ratified by its nominated verifier, proposal verified by the same, who  *)
(* is neither proposer nor author; lease, capability, contract end in that *)
(* order.                                                                  *)
THEOREM AuthorityChainAlways == Spec => []AuthorityChain
<1> DEFINE I == TypeOK /\ CapabilitySpentOnce /\ Authority
<1>1. Init => I
  BY InitTyped, InitAuthority
<1>2. I /\ [Next]_vars => I'
  BY NextTyped, NextSpentOnce, NextRatifiers, NextRatifiedOrFlagged, NextChain DEF Authority
<1>3. I => AuthorityChain
  BY DEF Authority
<1> QED BY <1>1, <1>2, <1>3, PTL DEF Spec
============================================================================
