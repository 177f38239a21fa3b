------------------------- MODULE HarnessEngineSteps -------------------------
(***************************************************************************)
(* What a step of HarnessEngine may never do, and what its receipts and    *)
(* answers mean, for any constants.  Rests on the invariants proved in     *)
(* HarnessEngineProofs.                                                    *)
(***************************************************************************)
EXTENDS HarnessEngineProofs

Inv == TypeOK /\ CapabilitySpentOnce /\ CallsOpen /\ ActiveCountExact /\ Authority

(* The inductive invariant of HarnessEngineProofs holds in every state.    *)
LEMMA InvAlways == Spec => []Inv
<1>1. Init => Inv
  BY InitTyped, InitCounts, InitAuthority DEF Inv
<1>2. Inv /\ [Next]_vars => Inv'
  BY NextTyped, NextSpentOnce, NextCallsOpen, NextCounts, NextRatifiers, NextRatifiedOrFlagged,
     NextChain
     DEF Inv, Authority
<1> QED BY <1>1, <1>2, PTL DEF Spec

(* What reaping leaves active is not overdue, but for a lease that memory  *)
(* shows completed.                                                        *)
LEMMA KeptInTime ==
    ASSUME Inv, NEW r \in Reservations, r # unlogged, ReapedRes[r] = "active"
    PROVE  resState[r] = "active" /\ ~LeaseOver(r)
BY ReapFacts DEF Over, Overdue, Inv

(* An awaited executor's lease is not lost.                                *)
LEMMA RunningNotLost ==
    ASSUME Inv, NEW r \in running
    PROVE  r \in Reservations /\ r \notin Lost /\ r # unlogged
BY NoneAssumption DEF Inv, TypeOK, CallsOpen, Lost

(* What is active after a step that reaps is no more overdue than before.  *)
LEMMA KeptIsNotOver ==
    ASSUME Inv, NEW r \in Reservations, r # unlogged, ReapedRes[r] = "active", now' = now,
           reservation'[r] = reservation[r],
           capability'[reservation[r].capability] = capability[reservation[r].capability]
    PROVE  ~LeaseOver(r)'
BY KeptInTime DEF LeaseOver

(* Every operation that touches capabilities or reservations first ends    *)
(* the overdue ones (#reapExpiredReservations), so whatever comes next     *)
(* after a lease is over, be it refused, gives its slot back, unless       *)
(* memory showed the lease completed: the safety core of LeasesEnd.        *)
THEOREM OverdueNeverKept ==
    Spec => [][UNCHANGED leases \/ Overdue' \subseteq {unlogged}]_vars
<1>1. ASSUME Inv, [Next]_vars, leases' # leases
      PROVE  Overdue' \subseteq {unlogged}
  <2> SUFFICES ASSUME NEW r \in Reservations, resState'[r] = "active", r # unlogged
               PROVE  ~LeaseOver(r)'
    BY DEF Overdue, LeaseOver
  <2>1. CASE Reap /\ UNCHANGED <<capability, reservation, effects>>
    <3>1. now' = now
      BY <1>1, <2>1 DEF Next, OperatorNext, Tick, leases, SetOperatorDial, Halt, Override,
         ClearOverride, RegisterVerifier, RuntimeHealth, ContractNext, ProposeContract,
         RatifyContract, RejectContract, ProposalNext, RecordProposal, VerifyCall,
         VerifyRefused, VerdictRefused, VerdictPassed, EffectNext, IssueCapability,
         IssueRefused, ExecuteCapability, ExecuteRefused, ExecuteForged, ExecutorActs, Commit,
         CommitUnwritten, CompleteTooLate, ExecutorThrows, StoreUnavailable, Crash, Reload, vars
    <3> QED BY <1>1, <2>1, <3>1, KeptIsNotOver DEF Reap
  <2>2. ASSUME NEW k \in Capabilities, NEW p \in Proposals, NEW ttl \in CapabilityTTLs,
               IssueCapability(k, p, ttl)
        PROVE  ~LeaseOver(r)'
    <3>1. /\ resState' = ReapedRes /\ UNCHANGED <<now, reservation>> /\ capState[k] = "none"
          /\ \A j \in Capabilities \ {k} : capability'[j] = capability[j]
      BY <1>1, <2>2 DEF IssueCapability, Inv, TypeOK
    <3>2. resState[r] = "active"
      BY <1>1, <3>1, ReapFacts DEF Inv
    <3>3. capState[reservation[r].capability] = "issued" /\ reservation[r].capability \in Capabilities
      BY <1>1, <3>2 DEF Inv, CapabilitySpentOnce, TypeOK, ReservationType
    <3> QED BY <1>1, <3>1, <3>3, KeptIsNotOver
  <2>3. ASSUME NEW k \in Capabilities, NEW q \in Reservations, ExecuteCapability(k, q)
        PROVE  ~LeaseOver(r)'
    <3>1. /\ resState' = [ReapedRes EXCEPT ![q] = "active"]
          /\ reservation' = [reservation EXCEPT ![q] = [capability |-> k, lease |-> now + LeaseTTL]]
          /\ UNCHANGED <<now, capability>> /\ LeaseFits(k)
      BY <2>3 DEF ExecuteCapability, MayReserve
    <3>2. CASE r = q
      <4>1. reservation'[r] = [capability |-> k, lease |-> now + LeaseTTL]
        BY <1>1, <3>1, <3>2 DEF Inv, TypeOK
      <4>2. now \in Nat /\ LeaseTTL \in Nat \ {0} /\ capability[k].expires \in Nat
        BY <1>1, <2>3, TimeAssumption DEF Inv, TypeOK, CapabilityType, ExecuteCapability
      <4> QED BY <3>1, <4>1, <4>2 DEF LeaseOver, LeaseFits
    <3>3. CASE r # q
      <4>1. ReapedRes[r] = "active" /\ reservation'[r] = reservation[r]
        BY <1>1, <3>1, <3>3 DEF Inv, TypeOK, ReapedRes
      <4> QED BY <1>1, <3>1, <4>1, KeptIsNotOver
    <3> QED BY <3>2, <3>3
  <2>4. ASSUME NEW q \in Reservations, NEW answer \in {"committed", "ambiguous"},
               Commit(q, answer)
        PROVE  ~LeaseOver(r)'
    <3>1. ReapedRes[r] = "active" /\ UNCHANGED <<now, reservation, capability>>
      BY <2>4 DEF Commit, ReapedRes
    <3> QED BY <1>1, <3>1, KeptIsNotOver
  <2>5. ASSUME NEW q \in Reservations, ExecutorThrows(q), StillLeased(q)
        PROVE  ~LeaseOver(r)'
    <3>1. ReapedRes[r] = "active" /\ UNCHANGED <<now, reservation, capability>>
      BY <2>5 DEF ExecutorThrows, ReapedRes
    <3> QED BY <1>1, <3>1, KeptIsNotOver
  <2> QED BY <1>1, <2>1, <2>2, <2>3, <2>4, <2>5, LeaseSteps
<1>2. Inv /\ [Next]_vars => [UNCHANGED leases \/ Overdue' \subseteq {unlogged}]_vars
  BY <1>1
<1> QED BY <1>2, InvAlways, PTL DEF Spec

(* An effect starts only while the contract of its own capability stands,  *)
(* although the reserve step looks at the current contract only.           *)
THEOREM StartsUnderRatified == Spec => StartedUnderRatified
<1>1. ASSUME Inv, [Next]_vars, NEW r \in Reservations,
             resState[r] = "none", resState'[r] = "active"
      PROVE  LET c == capability[reservation'[r].capability].contract IN
             contractStatus[c] = "ratified" /\ now < ContractExpiry[c]
  <2>1. PICK k \in Capabilities : ExecuteCapability(k, r)
    BY <1>1, ReservationSteps DEF Inv
  <2>2. /\ capState[k] # "none" /\ MayReserve(k)
        /\ reservation'[r].capability = k
    BY <2>1, <1>1 DEF ExecuteCapability, Inv, TypeOK
  <2>3. ~issues
    BY <2>2, <1>1, OpenReapedGate DEF MayReserve, Inv
  <2>4. contractStatus[capability[k].contract] = "ratified"
    BY <2>2, <2>3, <1>1 DEF Inv, Authority, RatifiedOrFlagged
  <2>5. capability[k] \in CapabilityType /\ capability[k].expires > now /\ now \in Nat
    BY <2>2, <1>1, TimeAssumption DEF MayReserve, Inv, TypeOK
  <2>6. capability[k].expires <= ContractExpiry[capability[k].contract]
    BY <2>2, <1>1 DEF Inv, Authority, AuthorityChain
  <2>7. ContractExpiry[capability[k].contract] \in Nat
    BY <2>5, ContractAssumption DEF CapabilityType
  <2> QED BY <2>2, <2>4, <2>5, <2>6, <2>7 DEF CapabilityType
<1>2. Inv /\ [Next]_vars =>
        [ \A r \in Reservations : resState[r] = "none" /\ resState'[r] = "active" =>
            LET c == capability[reservation'[r].capability].contract IN
            contractStatus[c] = "ratified" /\ now < ContractExpiry[c] ]_vars
  BY <1>1
<1> QED BY <1>2, InvAlways, PTL DEF Spec, StartedUnderRatified

(* An effect is committed only within its lease, its capability and its    *)
(* contract, however long the executor took.                               *)
THEOREM CommitsInTime == Spec => CommittedInTime
<1>1. ASSUME Inv, [Next]_vars, NEW r \in Reservations,
             resState[r] # "completed", resState'[r] = "completed"
      PROVE  LET k == reservation[r].capability IN
             /\ resState[r] = "active"
             /\ now < reservation[r].lease
             /\ now < capability[k].expires
             /\ now < ContractExpiry[capability[k].contract]
  <2> DEFINE k == reservation[r].capability
  <2>1. PICK answer \in {"committed", "ambiguous"} : Commit(r, answer)
    BY <1>1, ReservationSteps DEF Inv
  <2>2. resState[r] = "active" /\ ~LeaseOver(r)
    BY <2>1, <1>1, KeptInTime, RunningNotLost DEF Commit, StillLeased, Returned
  <2>3. reservation[r] \in ReservationType /\ now \in Nat
    BY <2>2, <1>1, TimeAssumption DEF Inv, TypeOK
  <2>4. k \in Capabilities /\ capState[k] # "none"
    BY <2>2, <2>3, <1>1 DEF ReservationType, Inv, CapabilitySpentOnce
  <2>5. capability[k] \in CapabilityType
    BY <2>4, <1>1 DEF Inv, TypeOK
  <2>6. capability[k].expires <= ContractExpiry[capability[k].contract]
    BY <2>4, <1>1 DEF Inv, Authority, AuthorityChain
  <2>7. ContractExpiry[capability[k].contract] \in Nat
    BY <2>5, ContractAssumption DEF CapabilityType
  <2>8. now < reservation[r].lease /\ now < capability[k].expires
    BY <2>2, <2>3, <2>5 DEF LeaseOver, ReservationType, CapabilityType
  <2> QED BY <2>2, <2>3, <2>5, <2>6, <2>7, <2>8 DEF CapabilityType
<1>2. Inv /\ [Next]_vars =>
        [ \A r \in Reservations : resState[r] # "completed" /\ resState'[r] = "completed" =>
            LET k == reservation[r].capability IN
            /\ resState[r] = "active"
            /\ now < reservation[r].lease
            /\ now < capability[k].expires
            /\ now < ContractExpiry[capability[k].contract] ]_vars
  BY <1>1
<1> QED BY <1>2, InvAlways, PTL DEF Spec, CommittedInTime

(* Fail closed for good: after one recorded issue nothing is issued and    *)
(* nothing starts.                                                         *)
THEOREM RefusalsAreFinal == Spec => RefusalIsFinal
<1>1. ASSUME Inv, [Next]_vars, issues
      PROVE  /\ issues'
             /\ \A k \in Capabilities : capState[k] = "none" => capState'[k] = "none"
             /\ \A r \in Reservations : resState[r] = "none" => resState'[r] = "none"
  <2>1. issues'
    BY <1>1, RatificationKept DEF Inv
  <2>2. ASSUME NEW k \in Capabilities, capState[k] = "none" PROVE capState'[k] = "none"
    <3> SUFFICES ASSUME capState'[k] # "none" PROVE FALSE
      OBVIOUS
    <3>1. PICK p \in Proposals, ttl \in CapabilityTTLs : IssueCapability(k, p, ttl)
      BY <1>1, <2>2, RecordsKept DEF Inv
    <3> QED BY <3>1, <1>1, OpenReapedGate DEF IssueCapability, MayIssue, Inv
  <2>3. ASSUME NEW r \in Reservations, resState[r] = "none" PROVE resState'[r] = "none"
    <3> SUFFICES ASSUME resState'[r] # "none" PROVE FALSE
      OBVIOUS
    <3>1. PICK k \in Capabilities : ExecuteCapability(k, r)
      BY <1>1, <2>3, RecordsKept DEF Inv
    <3> QED BY <3>1, <1>1, OpenReapedGate DEF ExecuteCapability, MayReserve, Inv
  <2> QED BY <2>1, <2>2, <2>3
<1>2. Inv /\ [Next]_vars =>
        [ issues => /\ issues'
                    /\ \A k \in Capabilities : capState[k] = "none" => capState'[k] = "none"
                    /\ \A r \in Reservations : resState[r] = "none" => resState'[r] = "none"
        ]_vars
  BY <1>1
<1> QED BY <1>2, InvAlways, PTL DEF Spec, RefusalIsFinal

(* Across the await of the verifier: only a verification of the recorded   *)
(* proposal, under a contract that is ratified at that moment, is recorded.*)
THEOREM VerifiesLiveState == Spec => VerifiedAgainstLiveState
<1> DEFINE A == \A p \in Proposals : verification'[p] # verification[p] =>
                  /\ recorded[IdOf[p]] = p
                  /\ contractStatus[verification'[p].contract] = "ratified"
                  /\ verification'[p].expires
                       <= ContractExpiry[verification'[p].contract]
<1>1. ASSUME Inv, [Next]_vars PROVE A
  <2>1. CASE UNCHANGED verification
    BY <2>1
  <2>2. ASSUME NEW f \in Calls, NEW ttl \in VerdictTTLs, NEW full \in BOOLEAN,
               VerdictPassed(f, ttl, full)
        PROVE  A
    <3> DEFINE call == verifying[f]
    <3>1. call \in CallType
      BY <1>1, <2>2 DEF VerdictPassed, Inv, TypeOK
    <3> SUFFICES ASSUME NEW p \in Proposals, verification'[p] # verification[p]
                 PROVE  /\ recorded[IdOf[p]] = p
                        /\ contractStatus[verification'[p].contract] = "ratified"
                        /\ verification'[p].expires
                             <= ContractExpiry[verification'[p].contract]
      OBVIOUS
    <3>2. /\ ReplayAccepts(call)
          /\ verification' = [verification EXCEPT ![call.proposal] =
                [contract |-> call.contract, verifier |-> ratifiedBy[call.contract],
                 expires |-> call.at + ttl, full |-> full]]
          /\ call.at + ttl <= ContractExpiry[call.contract]
      BY <2>2 DEF VerdictPassed
    <3>3. p = call.proposal /\ verification'[p].contract = call.contract
            /\ verification'[p].expires = call.at + ttl
      BY <3>1, <3>2, <1>1 DEF Inv, TypeOK
    <3> QED BY <3>2, <3>3 DEF ReplayAccepts
  <2>3. CASE OperatorNext
    BY <2>1, <2>3 DEF OperatorNext, Tick, SetOperatorDial, Halt, Override, ClearOverride,
       RegisterVerifier, RuntimeHealth, proposals
  <2>4. CASE ContractNext
    BY <2>1, <2>4 DEF ContractNext, ProposeContract, RatifyContract, RejectContract, proposals
  <2>5. CASE ProposalNext
    BY <2>1, <2>2, <2>5 DEF ProposalNext, RecordProposal, VerifyCall, VerifyRefused,
       VerdictRefused, proposals
  <2>6. CASE EffectNext
    BY <2>1, <2>6 DEF EffectNext, IssueCapability, IssueRefused, ExecuteCapability,
       ExecuteRefused, ExecuteForged, ExecutorActs, Commit, CommitUnwritten, CompleteTooLate,
       ExecutorThrows, StoreUnavailable, Crash, Reload, proposals
  <2>7. CASE UNCHANGED vars
    BY <2>1, <2>7 DEF vars
  <2> QED BY <1>1, <2>3, <2>4, <2>5, <2>6, <2>7 DEF Next
<1>2. Inv /\ [Next]_vars => [A]_vars
  BY <1>1
<1> QED BY <1>2, InvAlways, PTL DEF Spec, VerifiedAgainstLiveState

----------------------------------------------------------------------------
(***************************************************************************)
(* Receipts and answers                                                    *)
(***************************************************************************)
(* The two halves of NoFalseCommit.                                        *)
AnswersTrue ==
    \A r \in Reservations :
        /\ resState[r] = "completed" => r \in acted
        /\ reply[r] = "committed" => resState[r] = "completed"
        /\ reply[r] = "rejected" => resState[r] = "failed"
        /\ reply[r] = "ambiguous" => \/ resState[r] \in {"completed", "failed"}
                                     \/ resState[r] = "active" /\ r \in acted

EffectsTrue ==
    \A o \in OpKeys : effects[o] # None =>
        /\ resState[effects[o]] = "completed"
        /\ KeyOf(reservation[effects[o]].capability) = o

(* One step keeps the answers true to the log.                             *)
LEMMA NextAnswersTrue ==
    ASSUME Inv, AnswersTrue, [Next]_vars
    PROVE  AnswersTrue'
<1> SUFFICES ASSUME NEW r \in Reservations
             PROVE  /\ resState'[r] = "completed" => r \in acted'
                    /\ reply'[r] = "committed" => resState'[r] = "completed"
                    /\ reply'[r] = "rejected" => resState'[r] = "failed"
                    /\ reply'[r] = "ambiguous" =>
                         \/ resState'[r] \in {"completed", "failed"}
                         \/ resState'[r] = "active" /\ r \in acted'
  BY DEF AnswersTrue
<1>1. CASE \E answer \in {"committed", "ambiguous"} : Commit(r, answer)
  BY <1>1, ReapFacts DEF Commit, Returned, Ends, StillLeased, Inv, TypeOK
<1>2. CASE ~\E answer \in {"committed", "ambiguous"} : Commit(r, answer)
  <2>1. resState'[r] = "completed" => resState[r] = "completed"
    BY <1>2, ReservationSteps DEF Inv
  <2>2. resState[r] \in {"completed", "failed"} => resState'[r] = resState[r]
    BY <1>2, ReservationSteps DEF Inv
  <2>3. CASE reply'[r] = reply[r]
    <3>1. resState[r] = "active" => resState'[r] \in {"active", "failed"}
      BY <1>2, ReservationSteps DEF Inv
    <3>2. r \in acted => r \in acted'
      BY RepliesEndCalls DEF Inv
    <3> QED BY <2>1, <2>2, <2>3, <3>1, <3>2 DEF AnswersTrue
  <2>4. CASE reply'[r] # reply[r]
    <3>1. r \in running /\ r \notin running'
      BY <2>4, RepliesEndCalls DEF Inv
    <3>2. CommitUnwritten(r) \/ CompleteTooLate(r) \/ ExecutorThrows(r) \/ StoreUnavailable(r)
      BY <1>2, <2>4, <3>1, CallSteps
         DEF ExecuteCapability, inFlight, ExecutorActs, Commit, CommitUnwritten,
             CompleteTooLate, ExecutorThrows, StoreUnavailable, Ends, Inv, TypeOK
    <3>3. ~StillLeased(r) => ReapedRes[r] = "failed"
      BY <3>1 DEF CallsOpen, StillLeased, ReapedRes, Inv
    <3>4. CASE CompleteTooLate(r)
      BY <3>3, <3>4 DEF CompleteTooLate, Reap, Ends, Inv, TypeOK
    <3>5. CASE ExecutorThrows(r)
      BY <3>3, <3>5, ReapFacts DEF ExecutorThrows, Reap, Ends, Inv, TypeOK
    <3>6. CASE StoreUnavailable(r)
      BY <2>1, <3>1, <3>6 DEF StoreUnavailable, Ends, Inv, TypeOK, CallsOpen
    <3>7. CASE CommitUnwritten(r)
      BY <3>7 DEF CommitUnwritten, Returned, StillLeased, Reap, Ends, Inv, TypeOK
    <3> QED BY <3>2, <3>4, <3>5, <3>6, <3>7
  <2> QED BY <2>3, <2>4
<1> QED BY <1>1, <1>2

(* One step keeps the committed results true to the log.                   *)
LEMMA NextEffectsTrue ==
    ASSUME Inv, EffectsTrue, [Next]_vars
    PROVE  EffectsTrue'
<1>1. ASSUME NEW o \in OpKeys, effects[o] # None, effects'[o] = effects[o]
      PROVE  /\ resState'[effects'[o]] = "completed"
             /\ OpKey[capability'[reservation'[effects'[o]].capability].proposal] = o
  <2> DEFINE r == effects[o]
             k == reservation[r].capability
  <2>1. r \in Reservations /\ resState[r] = "completed" /\ KeyOf(k) = o
    BY <1>1 DEF EffectsTrue, Inv, TypeOK
  <2>2. resState'[r] = "completed"
    BY <2>1, ReservationSteps DEF Inv
  <2>3. k \in Capabilities /\ capState[k] # "none"
    BY <2>1 DEF Inv, TypeOK, ReservationType, CapabilitySpentOnce
  <2>4. capability'[k] = capability[k] /\ reservation'[r] = reservation[r]
    BY <2>1, <2>3, RecordsKept DEF Inv
  <2> QED BY <1>1, <2>1, <2>2, <2>4 DEF KeyOf
<1>2. ASSUME NEW r \in Reservations, NEW answer \in {"committed", "ambiguous"},
             Commit(r, answer), NEW o \in OpKeys, effects'[o] # effects[o]
      PROVE  /\ resState'[effects'[o]] = "completed"
             /\ OpKey[capability'[reservation'[effects'[o]].capability].proposal] = o
  <2>1. effects' = [effects EXCEPT ![KeyOf(reservation[r].capability)] = r]
    BY <1>2 DEF Commit
  <2>2. effects'[o] = r /\ KeyOf(reservation[r].capability) = o
    BY <1>2, <2>1 DEF Inv, TypeOK
  <2>3. resState'[r] = "completed"
    BY <1>2, ReapFacts DEF Commit, Inv
  <2>4. capability' = capability /\ reservation' = reservation
    BY <1>2 DEF Commit
  <2> QED BY <2>2, <2>3, <2>4 DEF KeyOf
<1>3. ASSUME NEW o \in OpKeys, effects'[o] # effects[o]
      PROVE  \E r \in Reservations, answer \in {"committed", "ambiguous"} : Commit(r, answer)
  BY <1>3, LeaseSteps DEF IssueCapability, ExecuteCapability, ExecutorThrows
<1>4. ASSUME NEW o \in OpKeys, effects'[o] # None
      PROVE  /\ resState'[effects'[o]] = "completed"
             /\ OpKey[capability'[reservation'[effects'[o]].capability].proposal] = o
  BY <1>1, <1>2, <1>3, <1>4
<1> QED BY <1>4 DEF EffectsTrue, KeyOf

(* Receipts never claim an effect that was not performed, and answers never*)
(* contradict them.                                                        *)
THEOREM NoFalseCommitEver == Spec => []NoFalseCommit
<1> DEFINE I == Inv /\ AnswersTrue /\ EffectsTrue
<1>1. Init => AnswersTrue /\ EffectsTrue
  BY DEF Init, AnswersTrue, EffectsTrue
<1>2. Init => I
  BY <1>1, InitTyped, InitCounts, InitAuthority DEF Inv
<1>3. I /\ [Next]_vars => I'
  BY NextTyped, NextSpentOnce, NextCallsOpen, NextCounts, NextRatifiers, NextRatifiedOrFlagged,
     NextChain, NextAnswersTrue, NextEffectsTrue DEF Inv, Authority
<1>4. I => NoFalseCommit
  BY DEF AnswersTrue, EffectsTrue, NoFalseCommit
<1> QED BY <1>2, <1>3, <1>4, PTL DEF Spec

----------------------------------------------------------------------------
(***************************************************************************)
(* Operation keys, with the default budget of one effect at a time: while  *)
(* an effect is in flight, nothing else can commit its key.                *)
(***************************************************************************)
KeyFreeWhileActive ==
    \A r \in Reservations :
        r \in MayCommit => effects[HeldKey(r)] = None

(* With a budget of one effect, two leases that may commit are the same.   *)
LEMMA OneMayCommit ==
    ASSUME Inv, Concurrency = 1, NEW r \in MayCommit, NEW q \in MayCommit
    PROVE  r = q
<1>1. IsFiniteSet(MayCommit) /\ Cardinality(MayCommit) <= 1
  BY FiniteAssumption, FS_Subset DEF MayCommit, Inv, ActiveCountExact, Ids
<1>2. Cardinality(MayCommit) \in Nat /\ Cardinality(MayCommit) # 0
  BY <1>1, FS_CardinalityType, FS_EmptySet
<1>3. Cardinality(MayCommit) = 1
  BY <1>1, <1>2
<1> QED BY <1>1, <1>3, FS_Singleton

(* Only a commit writes the committed result of an operation key.          *)
LEMMA EffectsWritten ==
    ASSUME Inv, [Next]_vars, effects' # effects
    PROVE  \E q \in MayCommit :
              /\ resState'[q] = "completed"
              /\ effects' = [effects EXCEPT ![HeldKey(q)] = q]
<1>1. PICK q \in Reservations, answer \in {"committed", "ambiguous"} : Commit(q, answer)
  BY LeaseSteps DEF IssueCapability, ExecuteCapability, ExecutorThrows
<1>2. resState[q] = "active" /\ resState'[q] = "completed" /\ q \in running
  BY <1>1, ReapFacts DEF Commit, StillLeased, Returned, Inv
<1>3. q \in MayCommit
  BY <1>2, RunningNotLost DEF MayCommit, Ids
<1> QED BY <1>1, <1>2, <1>3 DEF Commit, HeldKey

(* One step keeps the key of every lease that may commit uncommitted.      *)
LEMMA NextKeyFree ==
    ASSUME Inv, KeyFreeWhileActive, Concurrency = 1, [Next]_vars
    PROVE  KeyFreeWhileActive'
<1> SUFFICES ASSUME NEW r \in Reservations, r \in MayCommit'
             PROVE  effects'[OpKey[capability'[reservation'[r].capability].proposal]] = None
  BY DEF KeyFreeWhileActive, HeldKey, KeyOf
<1>1. CASE r \in MayCommit
  <2>1. effects' = effects
    <3> SUFFICES ASSUME effects' # effects PROVE FALSE
      OBVIOUS
    <3>1. PICK q \in MayCommit : resState'[q] = "completed"
      BY EffectsWritten
    <3>2. q = r
      BY <1>1, OneMayCommit
    <3> QED BY <3>1, <3>2 DEF MayCommit, Ids
  <2>2. reservation[r].capability \in Capabilities /\ capState[reservation[r].capability] # "none"
          /\ resState[r] = "active"
    BY <1>1 DEF Inv, TypeOK, ReservationType, CapabilitySpentOnce, MayCommit, Ids
  <2>3. reservation'[r] = reservation[r]
          /\ capability'[reservation[r].capability] = capability[reservation[r].capability]
    BY <2>2, RecordsKept DEF Inv
  <2> QED BY <1>1, <2>1, <2>3 DEF KeyFreeWhileActive, HeldKey, KeyOf
<1>2. CASE r \notin MayCommit
  <2>1. PICK k \in Capabilities : ExecuteCapability(k, r)
    BY <1>2, MayCommitSteps DEF Inv
  <2> QED BY <2>1 DEF ExecuteCapability, MayReserve, KeyFree, KeyDone, KeyOf, Inv, TypeOK
<1> QED BY <1>1, <1>2

(* With one effect at a time, the committed result of an operation key is  *)
(* never replaced, however many capabilities carry the key.                *)
THEOREM KeysCommitOnce ==
    ASSUME Concurrency = 1
    PROVE  Spec => KeyCommittedOnce
<1> DEFINE I == Inv /\ KeyFreeWhileActive
           A == \A o \in OpKeys : effects[o] # None => effects'[o] = effects[o]
<1>1. Init => I
  BY InitTyped, InitCounts, InitAuthority DEF Inv, Init, KeyFreeWhileActive, MayCommit, Ids
<1>2. I /\ [Next]_vars => I'
  BY NextTyped, NextSpentOnce, NextCallsOpen, NextCounts, NextRatifiers, NextRatifiedOrFlagged,
     NextChain, NextKeyFree DEF Inv, Authority
<1>3. ASSUME I, [Next]_vars PROVE A
  <2> SUFFICES ASSUME NEW o \in OpKeys, effects[o] # None PROVE effects'[o] = effects[o]
    OBVIOUS
  <2>1. CASE effects' = effects
    BY <2>1
  <2>2. CASE effects' # effects
    <3>1. PICK q \in MayCommit : effects' = [effects EXCEPT ![HeldKey(q)] = q]
      BY <1>3, <2>2, EffectsWritten
    <3>2. HeldKey(q) # o
      BY <1>3, <3>1 DEF KeyFreeWhileActive, MayCommit, Ids
    <3> QED BY <3>1, <3>2, <1>3 DEF Inv, TypeOK
  <2> QED BY <2>1, <2>2
<1>4. I /\ [Next]_vars => [A]_vars
  BY <1>3
<1> QED BY <1>1, <1>2, <1>4, PTL DEF Spec, KeyCommittedOnce

----------------------------------------------------------------------------
(***************************************************************************)
(* Operation keys under any budget.  RepeatsOverlap is not inductive: it   *)
(* needs that a commit is known to the key check, and it must speak of     *)
(* leases still held, which may commit later.                              *)
(***************************************************************************)
(* Reservations that have committed key o or still may.                    *)
Rivals == Ids("completed") \cup MayCommit
Under(o) == {r \in Rivals : HeldKey(r) = o}

SideBySide(r, q) ==
    /\ reservation[r].lease < reservation[q].lease + LeaseTTL
    /\ reservation[q].lease < reservation[r].lease + LeaseTTL

CommitsKnown ==
    \A r \in Reservations : resState[r] = "completed" => effects[HeldKey(r)] # None

LeasesBounded ==
    \A r \in Reservations : resState[r] = "active" => reservation[r].lease <= now + LeaseTTL

RepeatsBounded ==
    \A o \in OpKeys : CommittedTo(o) # {} => Cardinality(Under(o)) <= Concurrency

RepeatsBeside ==
    \A q \in Ids("completed"), r \in Rivals :
        HeldKey(r) = HeldKey(q) => SideBySide(r, q)

(* A reservation, once taken, keeps its key and its lease.                 *)
LEMMA HeldKeyKept ==
    ASSUME Inv, [Next]_vars, NEW r \in Reservations, resState[r] # "none"
    PROVE  /\ HeldKey(r) \in OpKeys /\ reservation[r].lease \in Nat
           /\ HeldKey(r)' = HeldKey(r) /\ reservation'[r] = reservation[r]
<1> DEFINE k == reservation[r].capability
<1>1. reservation[r] \in ReservationType /\ k \in Capabilities /\ capState[k] # "none"
  BY DEF Inv, TypeOK, ReservationType, CapabilitySpentOnce
<1>2. capability[k] \in CapabilityType
  BY <1>1 DEF Inv, TypeOK
<1>3. OpKey[capability[k].proposal] \in OpKeys
  BY <1>2, ProposalAssumption DEF CapabilityType
<1>4. reservation'[r] = reservation[r] /\ capability'[k] = capability[k]
  BY <1>1, RecordsKept DEF Inv
<1> QED BY <1>1, <1>3, <1>4 DEF HeldKey, KeyOf, ReservationType

(* Reserving: the key is free, and nothing commits in that step.           *)
LEMMA ReserveSteps ==
    ASSUME Inv, NEW k \in Capabilities, NEW r \in Reservations, ExecuteCapability(k, r)
    PROVE  /\ HeldKey(r)' = KeyOf(k) /\ effects[KeyOf(k)] = None
           /\ reservation'[r].lease = now + LeaseTTL /\ now' = now
           /\ \A q \in Reservations :
                resState'[q] = "completed" => q # r /\ resState[q] = "completed"
<1>1. /\ resState' = [ReapedRes EXCEPT ![r] = "active"] /\ capability' = capability
      /\ reservation' = [reservation EXCEPT ![r] = [capability |-> k, lease |-> now + LeaseTTL]]
      /\ effects[KeyOf(k)] = None /\ now' = now
  BY DEF ExecuteCapability, MayReserve, KeyFree, KeyDone
<1>2. reservation'[r] = [capability |-> k, lease |-> now + LeaseTTL]
  BY <1>1 DEF Inv, TypeOK
<1>3. \A q \in Reservations :
         resState'[q] = "completed" => q # r /\ resState[q] = "completed"
  BY <1>1, ReapFacts DEF ReapedRes, Inv
<1> QED BY <1>1, <1>2, <1>3 DEF HeldKey, KeyOf

(* Committing: the lease holds, and so does every other that may commit.   *)
LEMMA CommitSteps ==
    ASSUME Inv, [Next]_vars, NEW q \in Reservations, NEW answer \in {"committed", "ambiguous"},
           Commit(q, answer)
    PROVE  /\ effects' = [effects EXCEPT ![HeldKey(q)] = q] /\ now' = now
           /\ q \in MayCommit /\ now < reservation[q].lease
           /\ \A r \in Reservations :
                /\ r \in MayCommit' => r # q /\ r \in MayCommit /\ now < reservation[r].lease
                /\ resState'[r] = "completed" => r = q \/ resState[r] = "completed"
<1>1. /\ resState' = [ReapedRes EXCEPT ![q] = "completed"] /\ StillLeased(q) /\ q \in running
      /\ effects' = [effects EXCEPT ![HeldKey(q)] = q] /\ now' = now
  BY DEF Commit, HeldKey, Returned
<1>2. \A r \in Reservations : resState'[r] = IF r = q THEN "completed" ELSE ReapedRes[r]
  BY <1>1, ReapFacts DEF Inv
<1>3. \A r \in Reservations : ReapedRes[r] = "completed" => resState[r] = "completed"
  BY DEF ReapedRes
<1>4. ASSUME NEW r \in Reservations, ReapedRes[r] = "active", r # unlogged
      PROVE  resState[r] = "active" /\ now < reservation[r].lease
  <2>1. resState[r] = "active" /\ ~LeaseOver(r)
    BY <1>4, KeptInTime
  <2>2. reservation[r].lease \in Nat /\ now \in Nat
    BY <2>1, TimeAssumption DEF Inv, TypeOK, ReservationType
  <2> QED BY <2>1, <2>2 DEF LeaseOver
<1>5. q \in MayCommit /\ now < reservation[q].lease
  BY <1>1, <1>4, RunningNotLost DEF StillLeased, MayCommit, Ids
<1>6. ASSUME NEW r \in Reservations, r \in MayCommit'
      PROVE  r # q /\ r \in MayCommit /\ now < reservation[r].lease
  <2>1. r # q /\ ReapedRes[r] = "active" /\ resState[r] = "active"
    BY <1>2, <1>6, ReapFacts DEF MayCommit, Ids, Inv
  <2>2. r \in MayCommit
    BY <1>6, <2>1, LostKept DEF MayCommit, Ids, Inv
  <2>3. r # unlogged
    BY <2>2, NoneAssumption DEF MayCommit, Inv, CallsOpen
  <2> QED BY <1>4, <2>1, <2>2, <2>3
<1> QED BY <1>1, <1>2, <1>3, <1>5, <1>6

(* Time moves on, and leases are taken and committed at one moment of it.  *)
LEMMA TimeMoves == ASSUME Inv, [Next]_vars PROVE now' = now \/ now' = now + 1
<1>1. CASE OperatorNext
  BY <1>1 DEF OperatorNext, Tick, SetOperatorDial, Halt, Override, ClearOverride,
     RegisterVerifier, RuntimeHealth
<1>2. CASE ContractNext
  BY <1>2 DEF ContractNext, ProposeContract, RatifyContract, RejectContract
<1>3. CASE ProposalNext
  BY <1>3 DEF ProposalNext, RecordProposal, VerifyCall, VerifyRefused, VerdictRefused,
     VerdictPassed
<1>4. CASE EffectNext
  BY <1>4 DEF EffectNext, IssueCapability, IssueRefused, ExecuteCapability, ExecuteRefused,
     ExecuteForged, ExecutorActs, Commit, CommitUnwritten, CompleteTooLate, ExecutorThrows,
     StoreUnavailable, Crash, Reload
<1>5. CASE UNCHANGED vars
  BY <1>5 DEF vars
<1> QED BY <1>1, <1>2, <1>3, <1>4, <1>5 DEF Next

(* One step keeps every commit known to the key check.                     *)
LEMMA NextCommitsKnown ==
    ASSUME Inv, CommitsKnown, [Next]_vars
    PROVE  CommitsKnown'
<1> SUFFICES ASSUME NEW r \in Reservations, resState'[r] = "completed"
             PROVE  effects'[HeldKey(r)'] # None
  BY DEF CommitsKnown
<1>1. CASE \E answer \in {"committed", "ambiguous"} : Commit(r, answer)
  <2>1. effects' = [effects EXCEPT ![HeldKey(r)] = r] /\ resState[r] = "active"
    BY <1>1, CommitSteps DEF MayCommit, Ids
  <2>2. HeldKey(r)' = HeldKey(r) /\ HeldKey(r) \in OpKeys
    BY <2>1, HeldKeyKept
  <2>3. effects'[HeldKey(r)] = r
    BY <2>1, <2>2 DEF Inv, TypeOK
  <2> QED BY <2>2, <2>3, NoneAssumption
<1>2. CASE ~\E answer \in {"committed", "ambiguous"} : Commit(r, answer)
  <2>1. resState[r] = "completed"
    BY <1>2, ReservationSteps DEF Inv
  <2>2. HeldKey(r)' = HeldKey(r) /\ HeldKey(r) \in OpKeys /\ effects[HeldKey(r)] # None
    BY <2>1, HeldKeyKept DEF CommitsKnown
  <2>3. CASE effects' = effects
    BY <2>2, <2>3
  <2>4. CASE effects' # effects
    <3>1. PICK q \in Reservations : effects' = [effects EXCEPT ![HeldKey(q)] = q]
      BY <2>4, EffectsWritten DEF MayCommit, Ids
    <3>2. effects'[HeldKey(r)] = q \/ effects'[HeldKey(r)] = effects[HeldKey(r)]
      BY <2>2, <3>1 DEF Inv, TypeOK
    <3> QED BY <2>2, <3>2, NoneAssumption
  <2> QED BY <2>3, <2>4
<1> QED BY <1>1, <1>2

(* One step keeps leases within their duration.                            *)
LEMMA NextLeasesBounded ==
    ASSUME Inv, LeasesBounded, [Next]_vars
    PROVE  LeasesBounded'
<1> SUFFICES ASSUME NEW r \in Reservations, resState'[r] = "active"
             PROVE  reservation'[r].lease <= now' + LeaseTTL
  BY DEF LeasesBounded
<1>1. now \in Nat /\ LeaseTTL \in Nat /\ (now' = now \/ now' = now + 1)
  BY TimeMoves, TimeAssumption DEF Inv, TypeOK
<1>2. CASE resState[r] = "active"
  BY <1>1, <1>2, HeldKeyKept DEF LeasesBounded
<1>3. CASE resState[r] # "active"
  <2>1. PICK k \in Capabilities : ExecuteCapability(k, r)
    BY <1>3, ReservationSteps DEF Inv
  <2> QED BY <1>1, <2>1, ReserveSteps
<1> QED BY <1>2, <1>3

(* Who may commit a key after a step: those that could before, or one that *)
(* takes its lease now, while the key is free and stays so.                *)
LEMMA UnderSteps ==
    ASSUME Inv, CommitsKnown, [Next]_vars, NEW o \in OpKeys,
           CommittedTo(o)' # {}
    PROVE  Under(o)' \subseteq Under(o)
<1> SUFFICES ASSUME NEW r \in Reservations, r \in Rivals', HeldKey(r)' = o
             PROVE  r \in Rivals /\ HeldKey(r) = o
  BY DEF Under, Rivals, MayCommit, Ids
<1>1. CASE resState[r] = "none"
  <2>1. PICK k \in Capabilities : ExecuteCapability(k, r)
    BY <1>1, RecordsKept DEF Inv, Rivals, MayCommit, Ids
  <2>2. effects[o] = None
    BY <2>1, ReserveSteps
  <2>3. PICK q \in Reservations : resState'[q] = "completed" /\ HeldKey(q)' = o
    BY DEF CommittedTo, Ids, HeldKey
  <2>4. resState[q] = "completed"
    BY <2>1, <2>3, ReserveSteps
  <2>5. HeldKey(q) = o
    BY <2>3, <2>4, HeldKeyKept
  <2> QED BY <2>2, <2>4, <2>5 DEF CommitsKnown
<1>2. CASE resState[r] # "none"
  <2>1. HeldKey(r)' = HeldKey(r)
    BY <1>2, HeldKeyKept
  <2>2. CASE r \in MayCommit'
    BY <1>2, <2>1, <2>2, MayCommitSteps DEF Rivals, ExecuteCapability, Inv
  <2>3. CASE resState'[r] = "completed"
    <3>1. CASE \E answer \in {"committed", "ambiguous"} : Commit(r, answer)
      BY <2>1, <3>1, CommitSteps DEF Rivals
    <3>2. CASE ~\E answer \in {"committed", "ambiguous"} : Commit(r, answer)
      BY <1>2, <2>1, <2>3, <3>2, ReservationSteps DEF Inv, Rivals, Ids
    <3> QED BY <3>1, <3>2
  <2> QED BY <2>2, <2>3 DEF Rivals, Ids
<1> QED BY <1>1, <1>2

(* One step keeps the effects of a committed key within the budget.        *)
LEMMA NextRepeatsBounded ==
    ASSUME Inv, CommitsKnown, RepeatsBounded, [Next]_vars
    PROVE  RepeatsBounded'
<1> SUFFICES ASSUME NEW o \in OpKeys, CommittedTo(o)' # {}
             PROVE  Cardinality(Under(o)') <= Concurrency
  BY DEF RepeatsBounded
<1>1. Under(o)' \subseteq Under(o)
  BY UnderSteps
<1>2. IsFiniteSet(Under(o)) /\ IsFiniteSet(Under(o)')
  BY <1>1, FiniteAssumption, FS_Subset DEF Under, Rivals, MayCommit, Ids
<1>3. /\ Cardinality(Under(o)) \in Nat /\ Cardinality(Under(o)') \in Nat
      /\ Cardinality(Under(o)') <= Cardinality(Under(o))
  BY <1>1, <1>2, FS_Subset, FS_CardinalityType
<1>4. CASE CommittedTo(o) # {}
  BY <1>3, <1>4, BudgetAssumption DEF RepeatsBounded
<1>5. CASE CommittedTo(o) = {}
  <2>1. Under(o) \subseteq MayCommit
    BY <1>5 DEF Under, Rivals, CommittedTo, Ids
  <2>2. /\ IsFiniteSet(MayCommit) /\ Cardinality(MayCommit) \in Nat
        /\ Cardinality(MayCommit) <= Concurrency
    <3>1. IsFiniteSet(MayCommit)
      BY FiniteAssumption, FS_Subset DEF MayCommit, Ids
    <3> QED BY <3>1, FS_CardinalityType DEF MayCommit, Inv, ActiveCountExact
  <2>3. Cardinality(Under(o)) <= Cardinality(MayCommit)
    BY <2>1, <2>2, FS_Subset
  <2> QED BY <1>3, <2>2, <2>3, BudgetAssumption
<1> QED BY <1>4, <1>5

(* One step keeps the effects of a committed key side by side.             *)
LEMMA NextRepeatsBeside ==
    ASSUME Inv, CommitsKnown, LeasesBounded, RepeatsBeside, [Next]_vars
    PROVE  RepeatsBeside'
<1> SUFFICES ASSUME NEW q \in Reservations, NEW r \in Reservations,
                    resState'[q] = "completed", r \in Rivals',
                    HeldKey(r)' = HeldKey(q)'
             PROVE  /\ reservation'[r].lease < reservation'[q].lease + LeaseTTL
                    /\ reservation'[q].lease < reservation'[r].lease + LeaseTTL
  BY DEF RepeatsBeside, SideBySide, Rivals, MayCommit, Ids
<1>1. resState[q] # "none"
  <2>1. CASE resState'[q] = resState[q]
    BY <2>1
  <2>2. CASE resState'[q] # resState[q]
    BY <2>2, ReservationSteps, CommitSteps DEF Inv, MayCommit, Ids
  <2> QED BY <2>1, <2>2
<1>2. HeldKey(q) \in OpKeys /\ HeldKey(q)' = HeldKey(q) /\ reservation'[q] = reservation[q]
        /\ reservation[q].lease \in Nat
  BY <1>1, HeldKeyKept
<1>3. Under(HeldKey(q))' \subseteq Under(HeldKey(q))
  <2>1. PICK o \in OpKeys : o = HeldKey(q)
    BY <1>2
  <2>2. q \in CommittedTo(o)'
    BY <1>2, <2>1 DEF CommittedTo, Ids, HeldKey
  <2>3. Under(o)' \subseteq Under(o)
    BY <2>2, UnderSteps
  <2> QED BY <2>1, <2>3, <1>2 DEF Under
<1>4. r \in Rivals /\ HeldKey(r) = HeldKey(q) /\ resState[r] # "none"
  <2>1. r \in Under(HeldKey(q))'
    BY <1>2 DEF Under
  <2> QED BY <1>3, <2>1 DEF Under, Rivals, MayCommit, Ids
<1>5. reservation'[r] = reservation[r] /\ reservation[r].lease \in Nat
  BY <1>4, HeldKeyKept
<1>6. CASE resState[q] = "completed"
  BY <1>2, <1>4, <1>5, <1>6 DEF RepeatsBeside, SideBySide, Ids
<1>7. CASE resState[q] # "completed"
  <2>1. PICK answer \in {"committed", "ambiguous"} : Commit(q, answer)
    BY <1>7, ReservationSteps DEF Inv
  <2>2. /\ q \in MayCommit /\ resState[q] = "active" /\ now < reservation[q].lease
        /\ now \in Nat /\ LeaseTTL \in Nat \ {0}
    BY <2>1, CommitSteps, TimeAssumption DEF Inv, TypeOK, MayCommit, Ids
  <2>3. CASE r = q
    BY <2>2, <2>3, <1>2
  <2>4. CASE resState[r] = "completed"
    BY <2>2, <2>4, <1>2, <1>4, <1>5 DEF RepeatsBeside, SideBySide, Rivals, Ids
  <2>5. CASE r # q /\ resState[r] # "completed"
    <3>1. r \in MayCommit'
      BY <2>1, <2>5, CommitSteps DEF Rivals, MayCommit, Ids
    <3>2. resState[r] = "active" /\ now < reservation[r].lease
      BY <2>1, <3>1, CommitSteps DEF MayCommit, Ids
    <3>3. /\ reservation[r].lease <= now + LeaseTTL
          /\ reservation[q].lease <= now + LeaseTTL
      BY <2>2, <3>2 DEF LeasesBounded
    <3> QED BY <2>2, <3>2, <3>3, <1>2, <1>5
  <2> QED BY <2>3, <2>4, <2>5
<1> QED BY <1>6, <1>7

(* Under any budget, an operation key is committed only by effects that    *)
(* were under way side by side, and no more of them than the budget.       *)
THEOREM RepeatsOverlapAlways == Spec => []RepeatsOverlap
<1> DEFINE I == Inv /\ CommitsKnown /\ LeasesBounded /\ RepeatsBounded /\ RepeatsBeside
<1>1. Init => CommitsKnown /\ LeasesBounded /\ RepeatsBounded /\ RepeatsBeside
  BY DEF Init, CommitsKnown, LeasesBounded, RepeatsBounded, RepeatsBeside, CommittedTo, Ids
<1>2. I /\ [Next]_vars => (CommitsKnown /\ LeasesBounded /\ RepeatsBounded /\ RepeatsBeside)'
  BY NextCommitsKnown, NextLeasesBounded, NextRepeatsBounded, NextRepeatsBeside
<1>3. ASSUME I, NEW o \in OpKeys
      PROVE  /\ Cardinality(CommittedTo(o)) <= Concurrency
             /\ \A r, q \in CommittedTo(o) :
                  reservation[r].lease < reservation[q].lease + LeaseTTL
  <2>1. \A r, q \in CommittedTo(o) :
          reservation[r].lease < reservation[q].lease + LeaseTTL
    BY <1>3 DEF RepeatsBeside, SideBySide, CommittedTo, Rivals, Ids
  <2>2. CommittedTo(o) \subseteq Under(o) /\ IsFiniteSet(Under(o))
    BY FiniteAssumption, FS_Subset DEF CommittedTo, Ids, Under, Rivals, MayCommit
  <2>3. /\ Cardinality(CommittedTo(o)) \in Nat /\ Cardinality(Under(o)) \in Nat
        /\ Cardinality(CommittedTo(o)) <= Cardinality(Under(o))
    BY <2>2, FS_Subset, FS_CardinalityType
  <2>4. CASE CommittedTo(o) = {}
    BY <2>4, FS_EmptySet, BudgetAssumption
  <2>5. CASE CommittedTo(o) # {}
    BY <1>3, <2>1, <2>3, <2>5, BudgetAssumption DEF RepeatsBounded
  <2> QED BY <2>1, <2>4, <2>5
<1>4. I => RepeatsOverlap
  BY <1>3 DEF RepeatsOverlap
<1> QED BY <1>1, <1>2, <1>4, InvAlways, PTL DEF Spec
============================================================================
