------------------------ MODULE HarnessEngineRefines ------------------------
(***************************************************************************)
(* HarnessEngine implements OneTimeCapability and GovernedEffects, for any *)
(* constants.                                                              *)
(***************************************************************************)
EXTENDS HarnessEngineSteps

FateMap   == [k \in Capabilities |-> FateOf(k)]
Performed == {reservation[r].capability : r \in acted}

(* The fate of a capability after reaping, and the capabilities it reaps.  *)
ReapedFate(k) ==
    IF \E r \in Active(ReapedRes) : reservation[r].capability = k THEN "leased"
    ELSE IF ReapedCap[k] = "consumed" THEN "committed"
    ELSE ReapedCap[k]

OverCaps == {reservation[r].capability : r \in Over}

(* A reservation decides what its capability looks like from outside.      *)
LEMMA FateOfReserved ==
    ASSUME Inv, NEW r \in Reservations, resState[r] # "none"
    PROVE  /\ reservation[r].capability \in Capabilities
           /\ resState[r] = "active" => FateOf(reservation[r].capability) = "leased"
           /\ resState[r] = "failed" => FateOf(reservation[r].capability) = "failed"
<1> DEFINE k == reservation[r].capability
<1>1. k \in Capabilities
  BY DEF Inv, TypeOK, ReservationType
<1>2. SpentOnce(resState, capState, reservation)
  BY SpentOnceIs DEF Inv, TypeOK, ResStates
<1>3. resState[r] = "active" => FateOf(k) = "leased"
  BY DEF FateOf, Ids
<1>4. resState[r] = "failed" => ~\E q \in Ids("active") : reservation[q].capability = k
  BY <1>2 DEF SpentOnce, Ids
<1>5. resState[r] = "failed" => capState[k] = "failed"
  BY <1>2 DEF SpentOnce, Spent
<1> QED BY <1>1, <1>3, <1>4, <1>5 DEF FateOf

(* Reaping is a Lapse of the capabilities it reaps.                        *)
LEMMA ReapLapses ==
    ASSUME Inv
    PROVE  /\ \A k \in OverCaps : k \in Capabilities /\ FateOf(k) = "leased"
           /\ \A k \in Capabilities :
                ReapedFate(k) = IF k \in OverCaps THEN "failed" ELSE FateOf(k)
<1>1. \A r \in Over : r \in Reservations /\ resState[r] = "active"
  BY DEF Over, Overdue, LeaseOver
<1>2. \A k \in OverCaps : k \in Capabilities /\ FateOf(k) = "leased"
  BY <1>1, FateOfReserved DEF OverCaps
<1>3. SpentOnce(resState, capState, reservation)
  BY SpentOnceIs DEF Inv, TypeOK, ResStates
<1>4. Active(ReapedRes) = Ids("active") \ Over
  BY DEF Active, Ids, ReapedRes, Over
<1>5. ASSUME NEW k \in Capabilities, k \in OverCaps
      PROVE  ReapedFate(k) = "failed"
  <2>1. PICK r \in Over : reservation[r].capability = k
    BY <1>5 DEF OverCaps
  <2>2. ~\E q \in Active(ReapedRes) : reservation[q].capability = k
    BY <2>1, <1>1, <1>3, <1>4 DEF SpentOnce, Ids
  <2>3. ReapedCap[k] = "failed"
    BY <2>1 DEF ReapedCap
  <2> QED BY <2>2, <2>3 DEF ReapedFate
<1>6. ASSUME NEW k \in Capabilities, k \notin OverCaps
      PROVE  ReapedFate(k) = FateOf(k)
  <2>1. (\E q \in Active(ReapedRes) : reservation[q].capability = k)
          <=> (\E q \in Ids("active") : reservation[q].capability = k)
    BY <1>4, <1>6 DEF OverCaps
  <2>2. ReapedCap[k] = capState[k]
    BY <1>6 DEF ReapedCap, OverCaps
  <2> QED BY <2>1, <2>2 DEF ReapedFate, FateOf
<1> QED BY <1>2, <1>5, <1>6

LapsedMap(over) == [k \in Capabilities |-> IF k \in over THEN "failed" ELSE FateMap[k]]

(* An abstract operation, spelled out.                                     *)
Operates(over) ==
    /\ \/ FateMap' = LapsedMap(over)
       \/ \E k \in Capabilities :
            /\ k \notin over
            /\ \/ FateMap[k] = "none" /\ FateMap' = [LapsedMap(over) EXCEPT ![k] = "issued"]
               \/ FateMap[k] = "issued" /\ FateMap' = [LapsedMap(over) EXCEPT ![k] = "leased"]
               \/ /\ k \in Performed /\ FateMap[k] = "leased"
                  /\ FateMap' = [LapsedMap(over) EXCEPT ![k] = "committed"]
    /\ Performed' = Performed

(* A Lapse, with or without one change of fate, is a step of the promise.  *)
LEMMA OperationIs ==
    ASSUME NEW over \in SUBSET {k \in Capabilities : FateMap[k] = "leased"}, Operates(over)
    PROVE  Promise!Next
<1>1. Promise!Operation(over)
  BY DEF Operates, Promise!Operation, Promise!Becomes, Promise!Lapse, LapsedMap, FateMap,
     Performed
<1> QED BY <1>1 DEF Promise!Next, FateMap

(* The leases a step reaps are leased in the eyes of the promise.          *)
LEMMA OverIsLeased ==
    ASSUME Inv
    PROVE  /\ OverCaps \in SUBSET {k \in Capabilities : FateMap[k] = "leased"}
           /\ [k \in Capabilities |-> ReapedFate(k)] = LapsedMap(OverCaps)
BY ReapLapses DEF FateMap, LapsedMap

(* Whatever is not an executor's act leaves what was performed alone.      *)
LEMMA PerformedKept ==
    ASSUME Inv, [Next]_vars, acted' = acted
    PROVE  Performed' = Performed
<1>1. \A r \in acted : reservation'[r] = reservation[r]
  BY RecordsKept DEF Inv, TypeOK, CallsOpen
<1> QED BY <1>1 DEF Performed

(* An operation that only reaps refines a Lapse.                           *)
LEMMA ReapRefines ==
    ASSUME Inv, [Next]_vars, acted' = acted, Reap, UNCHANGED reservation
    PROVE  Promise!Next
<1>1. \A k \in Capabilities : FateOf(k)' = ReapedFate(k)
  BY DEF Reap, FateOf, ReapedFate, Ids, Active
<1>2. FateMap' = LapsedMap(OverCaps)
  BY <1>1, OverIsLeased DEF FateMap, Inv
<1> QED BY <1>2, PerformedKept, OverIsLeased, OperationIs DEF Operates, Inv

(* Issuing refines the step from "none" to "issued".                       *)
LEMMA IssueRefines ==
    ASSUME Inv, [Next]_vars, NEW k \in Capabilities, NEW p \in Proposals,
           NEW ttl \in CapabilityTTLs, IssueCapability(k, p, ttl)
    PROVE  Promise!Next
<1>1. /\ capState[k] = "none" /\ resState' = ReapedRes /\ reservation' = reservation
      /\ capState' = [ReapedCap EXCEPT ![k] = "issued"] /\ acted' = acted
  BY DEF IssueCapability, inFlight
<1>2. ~\E r \in Reservations : resState[r] # "none" /\ reservation[r].capability = k
  BY <1>1, SpentOnceIs DEF Inv, TypeOK, ResStates, SpentOnce, Spent
<1>3. FateMap[k] = "none" /\ k \notin OverCaps
  BY <1>1, <1>2 DEF FateMap, FateOf, Ids, OverCaps, Over, Overdue, LeaseOver
<1>4. ~\E r \in Active(ReapedRes) : reservation[r].capability = k
  BY <1>2, ReapFacts DEF Active, Inv
<1>5. \A j \in Capabilities : FateOf(j)' = IF j = k THEN "issued" ELSE ReapedFate(j)
  BY <1>1, <1>4, ReapFacts DEF FateOf, ReapedFate, Ids, Active, Inv
<1>6. FateMap' = [LapsedMap(OverCaps) EXCEPT ![k] = "issued"]
  BY <1>5, OverIsLeased DEF FateMap, Inv
<1> QED BY <1>1, <1>3, <1>6, PerformedKept, OverIsLeased, OperationIs DEF Operates, Inv

(* Reserving refines the step from "issued" to "leased".                   *)
LEMMA ReserveRefines ==
    ASSUME Inv, [Next]_vars, NEW k \in Capabilities, NEW r \in Reservations,
           ExecuteCapability(k, r)
    PROVE  Promise!Next
<1>1. /\ resState[r] = "none" /\ ReapedCap[k] = "issued" /\ NotReserved(k)
      /\ resState' = [ReapedRes EXCEPT ![r] = "active"]
      /\ reservation' = [reservation EXCEPT ![r] = [capability |-> k, lease |-> now + LeaseTTL]]
      /\ capState' = ReapedCap /\ acted' = acted
  BY DEF ExecuteCapability, MayReserve
<1>2. k \notin OverCaps
  BY <1>1 DEF OverCaps, ReapedCap
<1>3. ReapedFate(k) = "issued"
  BY <1>1 DEF ReapedFate, NotReserved, Active
<1>4. FateMap[k] = "issued"
  BY <1>2, <1>3, ReapLapses DEF FateMap, Inv
<1>5. Active(resState') = Active(ReapedRes) \cup {r} /\ r \notin Active(ReapedRes)
  BY <1>1, ReapFacts DEF Active, Inv
<1>6. /\ reservation'[r].capability = k
      /\ \A q \in Reservations : q # r => reservation'[q] = reservation[q]
  BY <1>1 DEF Inv, TypeOK
<1>7. \A j \in Capabilities : FateOf(j)' = IF j = k THEN "leased" ELSE ReapedFate(j)
  <2>1. Ids("active")' = Active(resState')
    BY DEF Ids, Active
  <2>2. \A j \in Capabilities :
          (\E q \in Active(resState') : reservation'[q].capability = j)
            <=> j = k \/ \E q \in Active(ReapedRes) : reservation[q].capability = j
    BY <1>5, <1>6 DEF Active
  <2>3. \A j \in Capabilities :
          FateOf(j)' = IF \E q \in Active(resState') : reservation'[q].capability = j
                       THEN "leased"
                       ELSE IF ReapedCap[j] = "consumed" THEN "committed" ELSE ReapedCap[j]
    BY <1>1, <2>1 DEF FateOf
  <2> QED BY <2>2, <2>3 DEF ReapedFate
<1>8. FateMap' = [LapsedMap(OverCaps) EXCEPT ![k] = "leased"]
  BY <1>7, OverIsLeased DEF FateMap, Inv
<1> QED BY <1>1, <1>2, <1>4, <1>8, PerformedKept, OverIsLeased, OperationIs DEF Operates, Inv

(* The end of a live lease: only its capability changes its fate.          *)
LEMMA EndOfLease ==
    ASSUME Inv, NEW r \in Reservations, StillLeased(r), NEW st \in {"completed", "failed"},
           resState' = [ReapedRes EXCEPT ![r] = st],
           capState' = [ReapedCap EXCEPT ![reservation[r].capability] = Spent(st)],
           reservation' = reservation
    PROVE  LET k == reservation[r].capability IN
           /\ k \in Capabilities /\ k \notin OverCaps /\ FateMap[k] = "leased"
           /\ \A j \in Capabilities :
                FateOf(j)' = IF j = k THEN (IF st = "completed" THEN "committed" ELSE "failed")
                             ELSE ReapedFate(j)
<1> DEFINE k == reservation[r].capability
<1>1. r \in Active(ReapedRes) /\ resState[r] = "active" /\ r \notin Over
  BY ReapFacts DEF StillLeased, Active, Inv
<1>2. k \in Capabilities /\ FateMap[k] = "leased"
  BY <1>1, FateOfReserved DEF Inv, FateMap
<1>3. SpentOnce(ReapedRes, ReapedCap, reservation)
  BY ReapFacts DEF Inv
<1>4. \A q \in Active(ReapedRes) : reservation[q].capability = k => q = r
  BY <1>1, <1>3 DEF SpentOnce, Active
<1>5. k \notin OverCaps
  <2>1. ReapedCap[k] = "issued"
    BY <1>1, <1>3 DEF SpentOnce, Active, Spent
  <2> QED BY <2>1, <1>2 DEF ReapedCap, OverCaps
<1>6. Ids("active")' = Active(ReapedRes) \ {r}
  BY ReapFacts DEF Ids, Active, Inv
<1>7. \A j \in Capabilities :
        (\E q \in Ids("active")' : reservation'[q].capability = j)
          <=> j # k /\ \E q \in Active(ReapedRes) : reservation[q].capability = j
  BY <1>4, <1>6
<1>8. \A j \in Capabilities : capState'[j] = IF j = k THEN Spent(st) ELSE ReapedCap[j]
  BY <1>2, ReapFacts DEF Inv
<1>9. \A j \in Capabilities :
        FateOf(j)' = IF \E q \in Ids("active")' : reservation'[q].capability = j THEN "leased"
                     ELSE IF capState'[j] = "consumed" THEN "committed" ELSE capState'[j]
  BY DEF FateOf
<1>10. \A j \in Capabilities :
         FateOf(j)' = IF j = k THEN (IF st = "completed" THEN "committed" ELSE "failed")
                      ELSE ReapedFate(j)
  BY <1>7, <1>8, <1>9 DEF ReapedFate, Spent
<1> QED BY <1>2, <1>5, <1>10

(* Committing refines the step from "leased" to "committed".               *)
LEMMA CommitRefines ==
    ASSUME Inv, [Next]_vars, NEW r \in Reservations, NEW answer \in {"committed", "ambiguous"},
           Commit(r, answer)
    PROVE  Promise!Next
<1> DEFINE k == reservation[r].capability
<1>1. /\ StillLeased(r) /\ r \in acted /\ acted' = acted /\ reservation' = reservation
      /\ resState' = [ReapedRes EXCEPT ![r] = "completed"]
      /\ capState' = [ReapedCap EXCEPT ![k] = Spent("completed")]
  BY DEF Commit, Returned, Spent
<1>2. /\ k \in Capabilities /\ k \notin OverCaps /\ FateMap[k] = "leased"
      /\ \A j \in Capabilities : FateOf(j)' = IF j = k THEN "committed" ELSE ReapedFate(j)
  BY <1>1, EndOfLease
<1>3. k \in Performed
  BY <1>1 DEF Performed
<1>4. FateMap' = [LapsedMap(OverCaps) EXCEPT ![k] = "committed"]
  BY <1>2, OverIsLeased DEF FateMap, Inv
<1> QED BY <1>1, <1>2, <1>3, <1>4, PerformedKept, OverIsLeased, OperationIs DEF Operates, Inv

(* An executor that throws refines a Lapse.                                *)
LEMMA ThrowRefines ==
    ASSUME Inv, [Next]_vars, NEW r \in Reservations, ExecutorThrows(r), StillLeased(r)
    PROVE  Promise!Next
<1> DEFINE k == reservation[r].capability
           over == OverCaps \cup {k}
<1>1. /\ acted' = acted /\ reservation' = reservation
      /\ resState' = [ReapedRes EXCEPT ![r] = "failed"]
      /\ capState' = [ReapedCap EXCEPT ![k] = Spent("failed")]
  BY DEF ExecutorThrows, Spent
<1>2. /\ k \in Capabilities /\ FateMap[k] = "leased"
      /\ \A j \in Capabilities : FateOf(j)' = IF j = k THEN "failed" ELSE ReapedFate(j)
  BY <1>1, EndOfLease
<1>3. over \in SUBSET {j \in Capabilities : FateMap[j] = "leased"}
  BY <1>2, OverIsLeased DEF Inv
<1>4. FateMap' = LapsedMap(over)
  BY <1>2, ReapLapses DEF FateMap, LapsedMap, Inv
<1> HIDE DEF over
<1> QED BY <1>1, <1>3, <1>4, PerformedKept, OperationIs DEF Operates

(* An executor's act refines Perform.                                      *)
LEMMA ActRefines ==
    ASSUME Inv, NEW r \in Reservations, ExecutorActs(r)
    PROVE  Promise!Next
<1>1. /\ r \in running /\ acted' = acted \cup {r}
      /\ UNCHANGED <<capState, resState, reservation>>
  BY DEF ExecutorActs, leases
<1>2. resState[r] \in {"active", "failed"}
  BY <1>1 DEF Inv, CallsOpen
<1>3. PICK k \in Capabilities : k = reservation[r].capability
  BY <1>2, FateOfReserved DEF Inv
<1>4. FateOf(k) \in {"leased", "failed"}
  BY <1>2, <1>3, FateOfReserved DEF Inv
<1>5. FateMap' = FateMap
  BY <1>1 DEF FateMap, FateOf, Ids
<1>6. Performed' = Performed \cup {k}
  BY <1>1, <1>3 DEF Performed
<1>7. Promise!Perform(k)
  BY <1>4, <1>5, <1>6 DEF Promise!Perform, FateMap, Performed
<1> QED BY <1>7 DEF Promise!Next

(* Every step of the engine is a step of the promise, or none.             *)
LEMMA StepRefines ==
    ASSUME Inv, [Next]_vars
    PROVE  Promise!Next \/ UNCHANGED <<FateMap, Performed>>
<1>1. CASE \E r \in Reservations : ExecutorActs(r)
  BY <1>1, ActRefines
<1>2. CASE ~\E r \in Reservations : ExecutorActs(r)
  <2>1. acted' = acted
    BY <1>2, CallSteps DEF Inv, ExecuteCapability, Commit, CommitUnwritten, CompleteTooLate,
       ExecutorThrows, StoreUnavailable
  <2>2. CASE UNCHANGED <<leases, effects>>
    <3>1. FateMap' = FateMap
      BY <2>2 DEF FateMap, FateOf, Ids, leases
    <3> QED BY <2>1, <3>1, PerformedKept
  <2>3. CASE Reap /\ UNCHANGED <<capability, reservation, effects>>
    BY <2>1, <2>3, ReapRefines
  <2> QED BY <2>2, <2>3, IssueRefines, ReserveRefines, CommitRefines, ThrowRefines, LeaseSteps
<1> QED BY <1>1, <1>2

(* HarnessEngine implements OneTimeCapability: at most one lease per       *)
(* capability, terminal fates, and commits only of what was performed.     *)
THEOREM KeepsPromise == Spec => OneTimeCapabilities
<1>1. Init => Promise!Init
  BY DEF Init, Promise!Init, FateOf, Ids
<1>2. Inv /\ [Next]_vars => [Promise!Next]_<<FateMap, Performed>>
  BY StepRefines
<1> QED BY <1>1, <1>2, InvAlways, PTL
        DEF Spec, OneTimeCapabilities, Promise!Spec, FateMap, Performed

----------------------------------------------------------------------------
(***************************************************************************)
(* GovernedEffects                                                         *)
(***************************************************************************)
WorkMap == [r \in Reservations |-> WorkOf(r)]
EndMap  == [r \in Reservations |-> EndOf(r)]
LostMap == {r \in Lost : EndOf(r) # 0}
gview   == <<now, issues, CommittedKeys, WorkMap, LostMap, EndMap>>

(* GovernedEffects counts with the Cardinality of this module.             *)
LEMMA GovernedCounts == \A S : Governed!Cardinality(S) = Cardinality(S)
BY DEF Governed!Cardinality, Cardinality

(* A lease has an end while it is not over, and reaping keeps it; what     *)
(* reaping keeps has an end, but for a lease that memory shows completed.  *)
(* The capability never ends before the lease.                             *)
LEMMA EndsAre ==
    ASSUME Inv, NEW r \in Reservations
    PROVE  /\ EndOf(r) # 0 => r \in Active(ReapedRes) /\ ~LeaseOver(r)
           /\ r \in Active(ReapedRes) /\ r # unlogged => resState[r] = "active" /\ EndOf(r) # 0
           /\ resState[r] = "active" =>
                /\ reservation[r].lease \in Nat /\ now \in Nat
                /\ capability[reservation[r].capability].expires \in Nat
                /\ reservation[r].lease <= capability[reservation[r].capability].expires
<1> DEFINE k == reservation[r].capability
<1>1. /\ resState[r] = "active" /\ ~LeaseOver(r) => r \in Active(ReapedRes)
      /\ r \in Active(ReapedRes) /\ r # unlogged => resState[r] = "active" /\ ~LeaseOver(r)
  BY KeptInTime DEF Active, ReapedRes, Over, Overdue
<1>2. ASSUME resState[r] = "active"
      PROVE  /\ reservation[r].lease \in Nat /\ now \in Nat /\ capability[k].expires \in Nat
             /\ reservation[r].lease <= capability[k].expires
  <2>1. reservation[r] \in ReservationType /\ k \in Capabilities /\ capState[k] # "none"
    BY <1>2 DEF Inv, TypeOK, ReservationType, CapabilitySpentOnce
  <2>2. capability[k] \in CapabilityType
    BY <2>1 DEF Inv, TypeOK
  <2>3. reservation[r].lease <= capability[k].expires
    BY <1>2, <2>1 DEF Inv, Authority, AuthorityChain
  <2> QED BY <2>1, <2>2, <2>3, TimeAssumption DEF Inv, TypeOK, ReservationType, CapabilityType
<1>3. ASSUME resState[r] = "active", ~LeaseOver(r) PROVE EndOf(r) # 0
  BY <1>2, <1>3 DEF EndOf, LeaseOver
<1> QED BY <1>1, <1>2, <1>3 DEF EndOf

(* Within one moment, a lease that is not ended keeps its end, and reaping *)
(* one that is over changes nothing.                                       *)
LEMMA EndsKept ==
    ASSUME Inv, [Next]_vars, now' = now, NEW r \in Reservations,
           resState'[r] \in {resState[r], ReapedRes[r]}
    PROVE  EndOf(r)' = EndOf(r)
<1>1. CASE resState[r] = "none"
  <2>1. resState'[r] = "none"
    BY <1>1, ReapFacts DEF Inv
  <2> QED BY <1>1, <2>1 DEF EndOf
<1>2. CASE resState[r] # "none"
  <2>1. reservation'[r] = reservation[r]
          /\ capability'[reservation[r].capability] = capability[reservation[r].capability]
    <3>1. capState[reservation[r].capability] # "none" /\ reservation[r].capability \in Capabilities
      BY <1>2 DEF Inv, TypeOK, ReservationType, CapabilitySpentOnce
    <3> QED BY <1>2, <3>1, RecordsKept DEF Inv
  <2>2. resState'[r] = "active" => (LeaseOver(r)' <=> LeaseOver(r))
    <3>1. resState'[r] = "active" => resState[r] = "active"
      BY ReapFacts DEF Inv
    <3> QED BY <2>1, <3>1 DEF LeaseOver
  <2>3. resState'[r] = "active" => resState[r] = "active"
    BY ReapFacts DEF Inv
  <2>4. resState[r] = "active" /\ resState'[r] # "active" => LeaseOver(r)
    BY DEF ReapedRes, Over, Overdue
  <2> QED BY <2>1, <2>2, <2>3, <2>4 DEF EndOf
<1> QED BY <1>1, <1>2

(* An effect under way keeps its key.                                      *)
LEMMA WorkKept ==
    ASSUME Inv, [Next]_vars, NEW r \in Reservations, r \in running
    PROVE  /\ WorkOf(r) \in OpKeys /\ WorkOf(r) = HeldKey(r) /\ WorkOf(r) # None
           /\ WorkOf(r)' = IF r \in running' THEN WorkOf(r) ELSE None
<1>1. resState[r] # "none"
  BY DEF Inv, CallsOpen
<1>2. HeldKey(r) \in OpKeys /\ HeldKey(r)' = HeldKey(r)
  BY <1>1, HeldKeyKept DEF Inv
<1> QED BY <1>2, NoneAssumption DEF WorkOf, HeldKey

(* Whose work a step ends.                                                 *)
LEMMA WorkEnds ==
    ASSUME Inv, [Next]_vars, NEW r \in Reservations, running' = running \ {r}
    PROVE  WorkMap' = [WorkMap EXCEPT ![r] = None]
<1>1. \A q \in Reservations : WorkOf(q)' = IF q = r THEN None ELSE WorkOf(q)
  BY WorkKept DEF WorkOf
<1> QED BY <1>1 DEF WorkMap

(* Only the end of a call, or the end of the lease, makes a lease lost or  *)
(* no longer so.                                                           *)
LEMMA LostStays ==
    ASSUME Inv, [Next]_vars, NEW r \in Reservations, EndOf(r)' = EndOf(r),
           r \in running => r \in running'
    PROVE  r \in LostMap' <=> r \in LostMap
<1>1. reply'[r] = reply[r]
  BY RepliesEndCalls DEF Inv
<1>2. EndOf(r) # 0 => resState[r] = "active" /\ resState'[r] = "active"
  BY DEF EndOf
<1> QED BY <1>1, <1>2 DEF LostMap, Lost, Ids

(* A call that ends with its lease, or with another answer, loses nothing. *)
LEMMA NothingLost ==
    ASSUME Inv, [Next]_vars, NEW r \in running,
           \A q \in Reservations : q # r => EndOf(q)' = EndOf(q) /\ (q \in running => q \in running'),
           EndOf(r)' = 0 \/ reply'[r] # "ambiguous"
    PROVE  LostMap' = LostMap
<1>1. r \notin LostMap /\ r \notin LostMap'
  BY RunningNotLost DEF LostMap, Lost
<1>2. \A q \in Reservations : q # r => (q \in LostMap' <=> q \in LostMap)
  BY LostStays
<1>3. LostMap \subseteq Reservations /\ LostMap' \subseteq Reservations
  BY DEF LostMap, Lost, Ids
<1> QED BY <1>1, <1>2, <1>3

(* What a step of the engine is to GovernedEffects.                        *)
LEMMA GovernedSteps ==
    ASSUME Inv, [Next]_vars
    PROVE  \/ /\ now' = now /\ running' = running /\ effects' = effects
              /\ \A r \in Reservations : resState'[r] \in {resState[r], ReapedRes[r]}
           \/ Tick
           \/ \E k \in Capabilities, r \in Reservations : ExecuteCapability(k, r)
           \/ \E r \in Reservations :
                \/ \E answer \in {"committed", "ambiguous"} : Commit(r, answer)
                \/ CommitUnwritten(r)
                \/ CompleteTooLate(r)
                \/ ExecutorThrows(r)
                \/ StoreUnavailable(r)
           \/ Crash
<1> USE DEF leases, inFlight, Reap
<1>1. CASE OperatorNext
  BY <1>1 DEF OperatorNext, SetOperatorDial, Halt, Override, ClearOverride, RegisterVerifier,
     RuntimeHealth
<1>2. CASE ContractNext
  BY <1>2 DEF ContractNext, ProposeContract, RatifyContract, RejectContract
<1>3. CASE ProposalNext
  BY <1>3 DEF ProposalNext, RecordProposal, VerifyCall, VerifyRefused, VerdictRefused,
     VerdictPassed
<1>4. CASE EffectNext
  BY <1>4 DEF EffectNext, IssueCapability, IssueRefused, ExecuteRefused, ExecuteForged,
     ExecutorActs, Reload
<1>5. CASE UNCHANGED vars
  BY <1>5 DEF vars
<1> QED BY <1>1, <1>2, <1>3, <1>4, <1>5 DEF Next

(* Operations that neither begin nor end an effect: the gate may close.    *)
LEMMA QuietGoverned ==
    ASSUME Inv, [Next]_vars, now' = now, running' = running, effects' = effects,
           \A r \in Reservations : resState'[r] \in {resState[r], ReapedRes[r]}
    PROVE  Governed!Next \/ UNCHANGED gview
<1>1. EndMap' = EndMap
  BY EndsKept DEF EndMap, Inv
<1>2. WorkMap' = WorkMap
  BY WorkKept DEF WorkMap, WorkOf
<1>3. CommittedKeys' = CommittedKeys
  BY DEF CommittedKeys
<1>4. LostMap' = LostMap
  <2>1. \A r \in Reservations : r \in LostMap' <=> r \in LostMap
    BY EndsKept, LostStays
  <2>2. LostMap \subseteq Reservations /\ LostMap' \subseteq Reservations
    BY DEF LostMap, Lost, Ids
  <2> QED BY <2>1, <2>2
<1>5. issues' = issues \/ issues' = TRUE
  BY RatificationKept, NextTyped DEF Inv, TypeOK
<1>6. CASE issues' = TRUE
  <2>1. Governed!Close
    BY <1>1, <1>2, <1>3, <1>6, <1>4 DEF Governed!Close, EndMap, WorkMap, LostMap
  <2> QED BY <2>1 DEF Governed!Next
<1> QED BY <1>1, <1>2, <1>3, <1>5, <1>6, <1>4 DEF gview

(* The clock: leases drop out of the view when they are over, not when the *)
(* next operation reaps them.                                              *)
LEMMA TickGoverned ==
    ASSUME Inv, [Next]_vars, Tick
    PROVE  Governed!Next
<1>1. /\ now' = now + 1 /\ now \in Nat
      /\ UNCHANGED <<capability, resState, reservation, running, effects, issues, reply>>
  BY TimeAssumption DEF Tick, leases, inFlight, Inv, TypeOK
<1>2. ASSUME NEW r \in Reservations
      PROVE  EndOf(r)' = IF EndOf(r) > now' THEN EndOf(r) ELSE 0
  <2>1. CASE resState[r] # "active"
    BY <1>1, <2>1 DEF EndOf
  <2>2. CASE resState[r] = "active"
    <3>1. /\ reservation[r].lease \in Nat
          /\ capability[reservation[r].capability].expires \in Nat
          /\ reservation[r].lease <= capability[reservation[r].capability].expires
      BY <2>2, EndsAre DEF Inv
    <3> QED BY <1>1, <2>2, <3>1 DEF EndOf, LeaseOver
  <2> QED BY <2>1, <2>2
<1>3. EndMap' = [r \in Reservations |-> IF EndMap[r] > now' THEN EndMap[r] ELSE 0]
  BY <1>2 DEF EndMap
<1>4. WorkMap' = WorkMap /\ CommittedKeys' = CommittedKeys
  BY <1>1 DEF WorkMap, WorkOf, HeldKey, KeyOf, CommittedKeys
<1>5. LostMap' = {r \in LostMap : EndMap'[r] # 0}
  <2>1. Lost' = Lost /\ \A r \in Lost : r \in Reservations /\ (EndOf(r)' # 0 => EndOf(r) # 0)
    BY <1>1, <1>2 DEF Lost, Ids
  <2>2. \A r \in Lost : EndMap'[r] = EndOf(r)'
    BY <2>1 DEF EndMap
  <2> QED BY <2>1, <2>2 DEF LostMap
<1>6. Governed!Tick
  BY <1>1, <1>3, <1>4, <1>5 DEF Governed!Tick, EndMap, WorkMap, LostMap
<1> QED BY <1>6 DEF Governed!Next

(* Reserving a capability begins the effect.                               *)
LEMMA ReserveGoverned ==
    ASSUME Inv, [Next]_vars, NEW k \in Capabilities, NEW r \in Reservations,
           ExecuteCapability(k, r)
    PROVE  Governed!Next
<1> DEFINE o == KeyOf(k)
<1>1. /\ resState[r] = "none" /\ capState[k] # "none" /\ MayReserve(k)
      /\ resState' = [ReapedRes EXCEPT ![r] = "active"]
      /\ running' = running \cup {r} /\ r \notin running
      /\ now' = now /\ effects' = effects /\ issues' = issues /\ capability' = capability
      /\ reservation' = [reservation EXCEPT ![r] = [capability |-> k, lease |-> now + LeaseTTL]]
  BY DEF ExecuteCapability, Inv, CallsOpen
<1>2. capability[k] \in CapabilityType /\ now \in Nat
  BY <1>1, TimeAssumption DEF Inv, TypeOK
<1>3. o \in OpKeys /\ effects[o] = None
  BY <1>1, <1>2, ProposalAssumption DEF KeyOf, CapabilityType, MayReserve, KeyFree, KeyDone
<1>4. ~issues /\ InUse < Concurrency /\ now + LeaseTTL <= capability[k].expires
  BY <1>1, OpenReapedGate DEF MayReserve, LeaseFits, Inv
<1>5. WorkOf(r) = None /\ EndOf(r) = 0
  BY <1>1 DEF WorkOf, EndOf
<1>6. reservation'[r] = [capability |-> k, lease |-> now + LeaseTTL]
  BY <1>1 DEF Inv, TypeOK
<1>7. WorkOf(r)' = o
  BY <1>1, <1>6 DEF WorkOf, HeldKey, KeyOf
<1>8. EndOf(r)' = now + LeaseTTL
  <2>1. resState'[r] = "active"
    BY <1>1, ReapFacts DEF Inv
  <2>2. ~LeaseOver(r)'
    BY <1>1, <1>2, <1>4, <1>6, TimeAssumption DEF LeaseOver, CapabilityType
  <2> QED BY <1>6, <2>1, <2>2 DEF EndOf
<1>9. \A q \in Reservations : q # r => WorkOf(q)' = WorkOf(q) /\ EndOf(q)' = EndOf(q)
  <2> SUFFICES ASSUME NEW q \in Reservations, q # r
               PROVE  WorkOf(q)' = WorkOf(q) /\ EndOf(q)' = EndOf(q)
    OBVIOUS
  <2>1. resState'[q] = ReapedRes[q]
    BY <1>1, ReapFacts DEF Inv
  <2>2. EndOf(q)' = EndOf(q)
    BY <1>1, <2>1, EndsKept DEF Inv
  <2>3. WorkOf(q)' = WorkOf(q)
    BY <1>1, WorkKept DEF WorkOf
  <2> QED BY <2>2, <2>3
<1>10. /\ WorkMap' = [WorkMap EXCEPT ![r] = o]
       /\ EndMap' = [EndMap EXCEPT ![r] = now + LeaseTTL]
       /\ WorkMap[r] = None /\ EndMap[r] = 0
  BY <1>5, <1>7, <1>8, <1>9 DEF WorkMap, EndMap
<1>11. CommittedKeys' = CommittedKeys /\ o \notin CommittedKeys
  BY <1>1, <1>3 DEF CommittedKeys
<1> DEFINE held  == {q \in Reservations : EndMap[q] # 0}
           inUse == Active(ReapedRes) \ {Ahead}
           slots == IF LostMap = {} THEN Concurrency ELSE Concurrency + 1
<1>12. Cardinality(held) < slots
  <2>1. /\ InUse = Cardinality(inUse) /\ InUse \in Nat /\ IsFiniteSet(inUse)
        /\ Ahead = None \/ Ahead \in Lost
    BY SlotsInUse DEF Inv
  <2>2. held \subseteq Active(ReapedRes)
    BY EndsAre DEF EndMap
  <2>3. CASE Ahead \in held
    <3>1. Ahead \in LostMap
      BY <2>1, <2>3, NoneAssumption DEF EndMap, LostMap
    <3>2. held \subseteq inUse \cup {Ahead} /\ Ahead \notin inUse
      BY <2>2
    <3>3. /\ IsFiniteSet(inUse \cup {Ahead})
          /\ Cardinality(inUse \cup {Ahead}) = InUse + 1
      BY <2>1, <3>2, FS_AddElement
    <3>4. Cardinality(held) <= InUse + 1 /\ Cardinality(held) \in Nat
      BY <3>2, <3>3, FS_Subset, FS_CardinalityType
    <3> QED BY <1>4, <2>1, <3>1, <3>4, BudgetAssumption
  <2>4. CASE Ahead \notin held
    <3>1. held \subseteq inUse
      BY <2>2, <2>4
    <3>2. Cardinality(held) <= InUse /\ Cardinality(held) \in Nat
      BY <2>1, <3>1, FS_Subset, FS_CardinalityType
    <3> QED BY <1>4, <2>1, <3>2, BudgetAssumption
  <2> QED BY <2>3, <2>4
<1>13. LostMap' = LostMap
  <2>1. reply'[r] = reply[r] /\ reply[r] = "none"
    BY <1>1 DEF ExecuteCapability, Inv, CallsOpen
  <2>2. \A q \in Reservations : q # r => (q \in LostMap' <=> q \in LostMap)
    BY <1>1, <1>9, LostStays
  <2>3. LostMap \subseteq Reservations /\ LostMap' \subseteq Reservations
    BY DEF LostMap, Lost, Ids
  <2> QED BY <2>1, <2>2, <2>3 DEF LostMap, Lost
<1> HIDE DEF o
<1>14. Governed!Begin(r, o)
  BY <1>1, <1>4, <1>10, <1>11, <1>12, <1>13, GovernedCounts
     DEF Governed!Begin, Governed!Held, Governed!Slots, EndMap, WorkMap, LostMap
<1> QED BY <1>3, <1>14 DEF Governed!Next

(* A call that ends: its lease, if it still holds, is ended with it or is  *)
(* left as it is; every other lease goes on.                               *)
LEMMA EndsEnd ==
    ASSUME Inv, [Next]_vars, NEW r \in Reservations, now' = now, resState'[r] # "active",
           \A q \in Reservations : q # r => resState'[q] \in {resState[q], ReapedRes[q]}
    PROVE  EndMap' = [EndMap EXCEPT ![r] = 0]
<1>1. EndOf(r)' = 0
  BY DEF EndOf
<1>2. \A q \in Reservations : q # r => EndOf(q)' = EndOf(q)
  BY EndsKept DEF Inv
<1> QED BY <1>1, <1>2 DEF EndMap

(* The completion append commits the effect.                               *)
LEMMA CommitGoverned ==
    ASSUME Inv, [Next]_vars, NEW r \in Reservations,
           NEW answer \in {"committed", "ambiguous"}, Commit(r, answer)
    PROVE  Governed!Next
<1>1. /\ r \in running /\ running' = running \ {r} /\ StillLeased(r)
      /\ resState' = [ReapedRes EXCEPT ![r] = "completed"]
      /\ effects' = [effects EXCEPT ![HeldKey(r)] = r]
      /\ now' = now /\ issues' = issues
  BY DEF Commit, Returned, Ends, HeldKey
<1>2. WorkMap[r] = HeldKey(r) /\ HeldKey(r) \in OpKeys /\ WorkMap[r] # None
  BY <1>1, WorkKept DEF WorkMap
<1>3. WorkMap' = [WorkMap EXCEPT ![r] = None]
  BY <1>1, WorkEnds
<1>4. EndMap' = [EndMap EXCEPT ![r] = 0]
  <2>1. resState'[r] = "completed" /\ \A q \in Reservations : q # r => resState'[q] = ReapedRes[q]
    BY <1>1, ReapFacts DEF Inv
  <2> QED BY <1>1, <2>1, EndsEnd
<1>5. EndMap[r] # 0
  BY <1>1, EndsAre, RunningNotLost DEF EndMap, StillLeased, Active
<1>6. LostMap' = LostMap
  <2>1. \A q \in Reservations : EndMap'[q] = IF q = r THEN 0 ELSE EndMap[q]
    BY <1>4 DEF EndMap
  <2>2. \A q \in Reservations : EndMap'[q] = EndOf(q)' /\ EndMap[q] = EndOf(q)
    BY DEF EndMap
  <2> QED BY <1>1, <2>1, <2>2, NothingLost
<1>7. CommittedKeys' = CommittedKeys \cup {WorkMap[r]}
  <2>1. r # None
    BY NoneAssumption
  <2> QED BY <1>1, <1>2, <2>1 DEF CommittedKeys, Inv, TypeOK
<1>8. Governed!Commit(r)
  BY <1>1, <1>2, <1>3, <1>4, <1>5, <1>7, <1>6 DEF Governed!Commit, EndMap, WorkMap, LostMap
<1> QED BY <1>8 DEF Governed!Next

(* Every other end of a call is a failure: with the lease it still has,    *)
(* beside a lease that is left to its end, or with a lease that is lost.   *)
LEMMA FailGoverned ==
    ASSUME Inv, [Next]_vars, NEW r \in Reservations,
           CommitUnwritten(r) \/ CompleteTooLate(r) \/ ExecutorThrows(r) \/ StoreUnavailable(r)
    PROVE  Governed!Next
<1>1. /\ r \in running /\ running' = running \ {r}
      /\ now' = now /\ issues' = issues /\ effects' = effects
  BY DEF CommitUnwritten, CompleteTooLate, ExecutorThrows, StoreUnavailable, Returned, Ends
<1>2. WorkMap[r] # None /\ WorkMap' = [WorkMap EXCEPT ![r] = None]
  BY <1>1, WorkKept, WorkEnds DEF WorkMap
<1>3. CommittedKeys' = CommittedKeys
  BY <1>1 DEF CommittedKeys
<1>4. \A q \in Reservations : EndMap'[q] = EndOf(q)' /\ EndMap[q] = EndOf(q)
  BY DEF EndMap
<1>5. CASE ExecutorThrows(r) /\ StillLeased(r)
  <2>1. /\ resState'[r] # "active"
        /\ \A q \in Reservations : q # r => resState'[q] \in {resState[q], ReapedRes[q]}
    BY <1>5, ReapFacts DEF ExecutorThrows, Inv
  <2>2. EndMap' = [EndMap EXCEPT ![r] = 0]
    BY <1>1, <2>1, EndsEnd
  <2>3. \A q \in Reservations : EndMap'[q] = IF q = r THEN 0 ELSE EndMap[q]
    BY <2>2 DEF EndMap
  <2>4. LostMap' = LostMap
    BY <1>1, <1>4, <2>3, NothingLost
  <2>5. Governed!Fail(r)
    BY <1>1, <1>2, <1>3, <2>2, <2>4 DEF Governed!Fail, EndMap, WorkMap, LostMap
  <2> QED BY <2>5 DEF Governed!Next
<1>6. CASE ~(ExecutorThrows(r) /\ StillLeased(r))
  <2>1. \A q \in Reservations : resState'[q] \in {resState[q], ReapedRes[q]}
    BY <1>6 DEF CommitUnwritten, CompleteTooLate, StoreUnavailable, ExecutorThrows, Reap, leases
  <2>2. EndMap' = EndMap /\ \A q \in Reservations : EndOf(q)' = EndOf(q)
    BY <1>1, <2>1, EndsKept DEF EndMap
  <2>3. CASE CommitUnwritten(r)
    <3>1. r \in LostMap'
      <4>1. ReapedRes[r] = "active" /\ resState' = ReapedRes /\ reply'[r] = "ambiguous"
        BY <2>3 DEF CommitUnwritten, StillLeased, Reap, Ends, Inv, TypeOK
      <4>2. EndOf(r)' # 0
        BY <1>1, <2>2, <4>1, EndsAre, RunningNotLost DEF Active
      <4> QED BY <4>1, <4>2 DEF LostMap, Lost, Ids
    <3>2. \A q \in Reservations : q # r => (q \in LostMap' <=> q \in LostMap)
      BY <1>1, <2>2, LostStays
    <3>3. LostMap \subseteq Reservations /\ LostMap' \subseteq Reservations
      BY DEF LostMap, Lost, Ids
    <3>4. LostMap' = LostMap \cup {r}
      BY <3>1, <3>2, <3>3
    <3>5. Governed!Fail(r)
      BY <1>1, <1>2, <1>3, <2>2, <3>4 DEF Governed!Fail, EndMap, WorkMap, LostMap
    <3> QED BY <3>5 DEF Governed!Next
  <2>4. CASE ~CommitUnwritten(r)
    <3>1. EndOf(r)' = 0 \/ reply'[r] # "ambiguous"
      <4>1. CASE ExecutorThrows(r) /\ ~StillLeased(r)
        <5>1. resState'[r] # "active"
          BY <4>1 DEF ExecutorThrows, StillLeased, Reap
        <5> QED BY <5>1 DEF EndOf
      <4>2. CASE CompleteTooLate(r) \/ StoreUnavailable(r)
        BY <4>2 DEF CompleteTooLate, StoreUnavailable, Ends, Inv, TypeOK
      <4> QED BY <1>6, <2>4, <4>1, <4>2
    <3>2. LostMap' = LostMap
      BY <1>1, <2>2, <3>1, NothingLost
    <3>3. Governed!Fail(r)
      BY <1>1, <1>2, <1>3, <2>2, <3>2 DEF Governed!Fail, EndMap, WorkMap, LostMap
    <3> QED BY <3>3 DEF Governed!Next
  <2> QED BY <2>3, <2>4
<1> QED BY <1>5, <1>6

(* A crash forgets what was under way; leases and keys are in the log.     *)
LEMMA CrashGoverned ==
    ASSUME Inv, [Next]_vars, Crash
    PROVE  Governed!Next
<1>1. /\ running' = {} /\ now' = now /\ issues' = issues
      /\ UNCHANGED <<resState, effects, reply>>
  BY DEF Crash, leases
<1>2. WorkMap' = [r \in Reservations |-> None]
  BY <1>1 DEF WorkMap, WorkOf
<1>3. EndMap' = EndMap /\ CommittedKeys' = CommittedKeys
  BY <1>1, EndsKept DEF EndMap, CommittedKeys, Inv
<1>4. LostMap' = LostMap
  <2>1. \A r \in Reservations : EndOf(r)' = EndOf(r)
    BY <1>1, EndsKept
  <2>2. Lost' = Lost /\ Lost \subseteq Reservations
    BY <1>1 DEF Lost, Ids
  <2> QED BY <2>1, <2>2 DEF LostMap
<1>5. Governed!Forget
  BY <1>1, <1>2, <1>3, <1>4 DEF Governed!Forget, EndMap, WorkMap, LostMap
<1> QED BY <1>5 DEF Governed!Next

(* HarnessEngine implements GovernedEffects: the lazy reaping of leases is *)
(* invisible, effects begin and commit only as promised.                   *)
THEOREM KeepsEffectsGoverned == Spec => EffectsGoverned
<1>1. Init => Governed!Init
  BY DEF Init, Governed!Init, CommittedKeys, WorkOf, EndOf, Lost
<1>2. Inv /\ [Next]_vars => [Governed!Next]_gview
  BY GovernedSteps, QuietGoverned, TickGoverned, ReserveGoverned, CommitGoverned,
     FailGoverned, CrashGoverned DEF Inv
<1> QED BY <1>1, <1>2, InvAlways, PTL
        DEF Spec, EffectsGoverned, Governed!Spec, Governed!gvars, gview, WorkMap, EndMap, LostMap
============================================================================
