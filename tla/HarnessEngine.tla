--------------------------- MODULE HarnessEngine ---------------------------
(***************************************************************************)
(* The governed effect path of @frontier-infra/harness-kit: contracts are  *)
(* proposed and ratified, worker proposals recorded and verified, one-time *)
(* capabilities issued, and effects executed under a leased reservation.   *)
(*                                                                         *)
(* Every operation of HarnessEngine folds the event log into a state,      *)
(* decides, and appends one event.  The variables are that fold, restricted*)
(* to what decisions read; an action is the whole handler, the reaping of  *)
(* expired reservations it starts with included.  A handler runs to its    *)
(* next await without interruption, so the asynchronous operations         *)
(* (recordProposalVerification, executeCapability) are split exactly at    *)
(* their one await, and `verifying` and `running` hold what is in flight.  *)
(* runOnce, the event store and several processes on one log are left to   *)
(* other modules.                                                          *)
(*                                                                         *)
(* The variables are the durable log's fold.  Decisions are taken on the   *)
(* store's memory, which every append reloads from the log and then pushes *)
(* the event to before the line is written: a completion whose line cannot *)
(* be written stays in memory alone (`unlogged`) while executeCapability   *)
(* goes on and answers.  Any other append that fails throws out of its     *)
(* operation; what it leaves in memory is not modelled.                    *)
(***************************************************************************)
EXTENDS RuntimeHealth, FiniteSets

CONSTANTS
    Contracts, Proposals, ProposalIds, OpKeys, Identities,
    Capabilities,     \* capability ids that can be issued (bound)
    Reservations,     \* reservation ids that can be drawn (bound)
    Calls,            \* recordProposalVerification calls in flight at once (bound)
    None,
    ProposedBy,       \* [Contracts -> Identities]
    Nominated,        \* [Contracts -> Identities], contract.verifier_id
    ContractExpiry,   \* [Contracts -> Nat]
    FullCeiling,      \* contracts whose autonomy_ceiling is 1
    Covers,           \* [Contracts -> SUBSET Proposals], by contract scope
    Allowlist,        \* [Contracts -> SUBSET Proposals], by effect_allowlist
    IdOf,             \* [Proposals -> ProposalIds]; a proposal is its content hash
    Author,           \* [Proposals -> Identities], worker_id
    OpKey,            \* [Proposals -> OpKeys], operation idempotency key
    Trusts,           \* [Identities -> SUBSET (Proposals \cup Contracts)], verifier.scopes
    Registry,         \* identities that are ever registered as verifiers
    CanRun,           \* those with a verify or verifyAttestation port
    FullTrust,        \* identities whose trust_ceiling is 1
    Concurrency,      \* budgets.concurrency
    LeaseTTL,         \* 30 s in the code
    CapabilityTTLs,   \* 60 s in the code, or the caller's expires_at
    VerdictTTLs,      \* 60 s in the code, or the verdict's expires_at
    MaxTime           \* bound on the clock

ASSUME BudgetAssumption  == Concurrency \in Nat \ {0}
ASSUME TimeAssumption    == /\ LeaseTTL \in Nat \ {0}
                            /\ CapabilityTTLs \subseteq Nat
                            /\ VerdictTTLs \subseteq Nat \ {0}
                            /\ MaxTime \in Nat
ASSUME FiniteAssumption  == IsFiniteSet(Reservations)
ASSUME ContractAssumption ==
    /\ ProposedBy \in [Contracts -> Identities]
    /\ Nominated \in [Contracts -> Identities]
    /\ ContractExpiry \in [Contracts -> Nat]
    /\ Covers \in [Contracts -> SUBSET Proposals]
    /\ Allowlist \in [Contracts -> SUBSET Proposals]
ASSUME ProposalAssumption ==
    /\ IdOf \in [Proposals -> ProposalIds]
    /\ Author \in [Proposals -> Identities]
    /\ OpKey \in [Proposals -> OpKeys]
ASSUME NoneAssumption ==
    None \notin Contracts \cup Proposals \cup Identities \cup Reservations \cup OpKeys

VARIABLES
    now,             \* the engine's clock
    dial,            \* the operator dial is at 1
    halted, override,
    verifiers,       \* registered and active verifiers (configuration, not in the log)
    contractStatus, ratifiedBy, current,
    recorded,        \* the proposal last recorded under each id
    verification,    \* the verification recorded for each proposal hash
    verifiedBy,      \* idempotency keys proposal-verified:<hash>:<verifier>
    capState, capability,
    resState, reservation,
    active,          \* active_effects
    effects,         \* committed result per operation key: the reservation it came from
    unlogged,        \* the reservation whose completion memory has and the log has not
    issues,          \* some health issue is recorded; nothing ever removes one
    verifying,       \* verifier calls awaited
    running,         \* executor calls awaited
    acted,           \* executors that have acted on the outside world
    reply            \* what executeCapability returned, per reservation

vars == <<now, dial, halted, override, verifiers, contractStatus, ratifiedBy, current,
          recorded, verification, verifiedBy, capState, capability, resState,
          reservation, active, effects, unlogged, issues, verifying, running, acted, reply>>

control   == <<dial, halted, override>>
contracts == <<contractStatus, ratifiedBy, current>>
proposals == <<recorded, verification, verifiedBy>>
leases    == <<capState, capability, resState, reservation, active>>
inFlight  == <<verifying, running, acted, reply>>

VerificationType == [contract : Contracts, verifier : Identities, expires : Nat,
                     full : BOOLEAN]
CapabilityType   == [proposal : Proposals, contract : Contracts, verified_by : Identities,
                     expires : Nat]
ReservationType  == [capability : Capabilities, lease : Nat]
CallType         == [proposal : Proposals, contract : Contracts, at : Nat]

(* Types of the variables; what an event records is there once the state   *)
(* it puts a contract, a capability or a reservation in says so.           *)
TypeOK ==
    /\ now \in 0..MaxTime
    /\ dial \in BOOLEAN /\ halted \in BOOLEAN /\ override \in BOOLEAN /\ issues \in BOOLEAN
    /\ verifiers \subseteq Registry
    /\ contractStatus \in [Contracts -> {"none", "proposed", "ratified", "rejected"}]
    /\ ratifiedBy \in [Contracts -> Identities \cup {None}]
    /\ current \in Contracts \cup {None}
    /\ recorded \in [ProposalIds -> Proposals \cup {None}]
    /\ verification \in [Proposals -> VerificationType \cup {None}]
    /\ verifiedBy \in [Proposals -> SUBSET Identities]
    /\ capState \in [Capabilities -> {"none", "issued", "consumed", "failed"}]
    /\ capability \in [Capabilities -> CapabilityType \cup {None}]
    /\ resState \in [Reservations -> {"none", "active", "completed", "failed"}]
    /\ reservation \in [Reservations -> ReservationType \cup {None}]
    /\ active \in Nat
    /\ effects \in [OpKeys -> Reservations \cup {None}]
    /\ unlogged \in Reservations \cup {None}
    /\ verifying \in [Calls -> CallType \cup {None}]
    /\ running \subseteq Reservations
    /\ acted \subseteq Reservations
    /\ reply \in [Reservations -> {"none", "committed", "rejected", "ambiguous", "threw"}]
    /\ \A c \in Contracts : contractStatus[c] = "ratified" => ratifiedBy[c] \in Identities
    /\ \A k \in Capabilities : capState[k] # "none" => capability[k] \in CapabilityType
    /\ \A r \in Reservations : resState[r] # "none" => reservation[r] \in ReservationType

Init ==
    /\ now = 0
    /\ dial = FALSE /\ halted = FALSE /\ override = FALSE /\ issues = FALSE
    /\ verifiers \in SUBSET Registry
    /\ contractStatus = [c \in Contracts |-> "none"]
    /\ ratifiedBy = [c \in Contracts |-> None]
    /\ current = None
    /\ recorded = [i \in ProposalIds |-> None]
    /\ verification = [p \in Proposals |-> None]
    /\ verifiedBy = [p \in Proposals |-> {}]
    /\ capState = [k \in Capabilities |-> "none"]
    /\ capability = [k \in Capabilities |-> None]
    /\ resState = [r \in Reservations |-> "none"]
    /\ reservation = [r \in Reservations |-> None]
    /\ active = 0
    /\ effects = [o \in OpKeys |-> None]
    /\ unlogged = None
    /\ verifying = [f \in Calls |-> None]
    /\ running = {} /\ acted = {}
    /\ reply = [r \in Reservations |-> "none"]

----------------------------------------------------------------------------
(***************************************************************************)
(* What every gated operation starts with: #reapExpiredReservations turns  *)
(* active reservations whose lease or capability is over into failed ones, *)
(* and spends their capabilities.  It finds them in memory: one that is    *)
(* completed there alone is not found, unless another one is reaped, which *)
(* appends and so reloads the log.  The gate is only ever read after a     *)
(* second reaping, in runtimeHealth; the two are taken together here.      *)
(***************************************************************************)
Bug_HungNeverReaped(r) ==
    /\ resState[r] = "active" /\ r \notin running
    /\ reservation[r].lease <= now

LeaseOver(r) ==
    /\ resState[r] = "active"
    /\ \/ reservation[r].lease <= now
       \/ capability[reservation[r].capability].expires <= now

Overdue == {r \in Reservations : LeaseOver(r)}

Over == IF Overdue \subseteq {unlogged} THEN {} ELSE Overdue

ReapedRes == [r \in Reservations |-> IF r \in Over THEN "failed" ELSE resState[r]]

Bug_ReapLeavesCapability == capState
ReapedCap == [k \in Capabilities |->
                IF \E r \in Over : reservation[r].capability = k THEN "failed"
                ELSE capState[k]]

(* Math.max(0, active_effects - 1), once per expired reservation.          *)
Floor(n) == IF n < 0 THEN 0 ELSE n

Bug_ReapLeavesCount == active
ReapedActive == Floor(active - Cardinality(Over))

Reap == /\ resState' = ReapedRes
        /\ capState' = ReapedCap
        /\ active' = ReapedActive

(* JsonlEventStore.append: memory is reloaded from the log first.          *)
Appends == unlogged' = None

(* After reaping: the completion memory is still ahead of the log by, and  *)
(* the slots that memory shows in use.                                     *)
Ahead == IF Over = {} THEN unlogged ELSE None
InUse == IF Ahead = None THEN ReapedActive ELSE Floor(ReapedActive - 1)

----------------------------------------------------------------------------
(* The current contract as the handlers test it. *)
Ratified   == current \in Contracts /\ contractStatus[current] = "ratified"
Unexpired  == current \in Contracts /\ ContractExpiry[current] > now

HealthCheck(ok, code) ==
    [malformed |-> FALSE, status |-> IF ok THEN "pass" ELSE "fail", critical |-> TRUE,
     reason |-> code, timed |-> TRUE, age |-> 0, stale_after |-> 60]

RatifierCanRun == /\ current \in Contracts
                  /\ ratifiedBy[current] \in verifiers \cap CanRun

(* runtimeHealth: the document a gate evaluates, given active_effects.     *)
(* Quarantine only ever comes with a recorded issue, which stands for it.  *)
HealthDoc(inUse) ==
    [malformed |-> FALSE,
     layers |-> [l \in Layers |->
        IF l = "process" THEN {HealthCheck(~halted, "no_ack_halt")}
        ELSE IF l = "scheduler" THEN {HealthCheck(inUse < Concurrency, "scheduler_stalled")}
        ELSE IF l = "execution" THEN {HealthCheck(TRUE, "scheduler_stalled")}
        ELSE { HealthCheck(Ratified /\ ratifiedBy[current] # ProposedBy[current],
                           IF current = None THEN "missing_verifier"
                           ELSE "unratified_contract"),
               HealthCheck(RatifierCanRun, "missing_verifier"),
               HealthCheck(~override, "active_override"),
               HealthCheck(~issues, "governance_gate_failed") }]]

Bug_IgnoresHealth(inUse) == Ratified /\ inUse < Concurrency
Bug_BudgetOffByOne(inUse) == CanMutate(HealthDoc(inUse - 1))
GateOpen(inUse) == CanMutate(HealthDoc(inUse))

----------------------------------------------------------------------------
(***************************************************************************)
(* Operator controls                                                       *)
(***************************************************************************)
Tick == /\ now < MaxTime
        /\ now' = now + 1
        /\ UNCHANGED <<control, verifiers, contracts, proposals, leases, effects,
                       unlogged, issues, inFlight>>

SetOperatorDial(level) ==
    /\ dial # level
    /\ dial' = level
    /\ Appends
    /\ UNCHANGED <<now, halted, override, verifiers, contracts, proposals, leases, effects,
                   issues, inFlight>>

Halt == /\ ~halted
        /\ halted' = TRUE
        /\ Appends
        /\ UNCHANGED <<now, dial, override, verifiers, contracts, proposals, leases, effects,
                       issues, inFlight>>

(* override_set also clears a halt, and clearing the override does not     *)
(* bring the halt back.                                                    *)
Override == /\ ~override \/ halted
            /\ override' = TRUE
            /\ halted' = FALSE
            /\ Appends
            /\ UNCHANGED <<now, dial, verifiers, contracts, proposals, leases, effects,
                           issues, inFlight>>

ClearOverride == /\ override
                 /\ override' = FALSE
                 /\ Appends
                 /\ UNCHANGED <<now, dial, halted, verifiers, contracts, proposals, leases,
                                effects, issues, inFlight>>

(* VerifierRegistry.register replaces an entry, active or not.             *)
RegisterVerifier(v, isActive) ==
    /\ isActive # (v \in verifiers)
    /\ verifiers' = IF isActive THEN verifiers \cup {v} ELSE verifiers \ {v}
    /\ UNCHANGED <<now, control, contracts, proposals, leases, effects, unlogged, issues,
                   inFlight>>

(* runtimeHealth on its own: a status poll, or an executeCapability that   *)
(* is answered "duplicate".                                                *)
RuntimeHealth ==
    /\ Over # {}
    /\ Reap
    /\ Appends
    /\ UNCHANGED <<now, control, verifiers, contracts, proposals, capability, reservation,
                   effects, issues, inFlight>>

----------------------------------------------------------------------------
(***************************************************************************)
(* Contracts                                                               *)
(***************************************************************************)
(* A contract id can be proposed once: the second event is input_duplicate *)
(* and leaves the older contract, and the current one, as they are.        *)
ProposeContract(c) ==
    /\ contractStatus[c] = "none"
    /\ contractStatus' = [contractStatus EXCEPT ![c] = "proposed"]
    /\ current' = c
    /\ Appends
    /\ UNCHANGED <<now, control, verifiers, ratifiedBy, proposals, leases, effects, issues,
                   inFlight>>

CanRatify(c, v) == /\ v \in verifiers
                   /\ v # ProposedBy[c]
                   /\ c \in Trusts[v]

MayRatify(c, v) == /\ ContractExpiry[c] > now
                   /\ v = Nominated[c]
                   /\ CanRatify(c, v)

Bug_RatifierForgotten(c, v) ==
    /\ contractStatus[c] = "proposed"
    /\ MayRatify(c, v)
    /\ contractStatus' = [contractStatus EXCEPT ![c] = "ratified"]
    /\ Appends
    /\ UNCHANGED <<now, control, verifiers, ratifiedBy, current, proposals, leases, effects,
                   issues, inFlight>>

(* Accepted, the append succeeds for a contract that is still proposed; a  *)
(* contract ratified before answers input_duplicate, and one rejected      *)
(* before ratification fails semantic replay: neither changes the state.   *)
RatifyContract(c, v) ==
    /\ contractStatus[c] = "proposed"
    /\ MayRatify(c, v)
    /\ contractStatus' = [contractStatus EXCEPT ![c] = "ratified"]
    /\ ratifiedBy' = [ratifiedBy EXCEPT ![c] = v]
    /\ Appends
    /\ UNCHANGED <<now, control, verifiers, current, proposals, leases, effects, issues,
                   inFlight>>

(* A rejection is also a health issue (state.health_issues.push).          *)
Bug_RejectIsSilent == issues
IssueRecorded == TRUE

(* contract_rejected, also for a contract that was already ratified.       *)
(* `altered`: the caller's snapshot hashes to something else.              *)
RejectContract(c, v, altered) ==
    /\ contractStatus[c] # "none"
    /\ altered \/ ~MayRatify(c, v)
    /\ contractStatus' = [contractStatus EXCEPT ![c] = "rejected"]
    /\ issues' = IssueRecorded
    /\ Appends
    /\ UNCHANGED <<now, control, verifiers, ratifiedBy, current, proposals, leases, effects,
                   inFlight>>

----------------------------------------------------------------------------
(***************************************************************************)
(* Proposals and their verification                                        *)
(***************************************************************************)
(* worker_proposed, the one event the public store API accepts: it         *)
(* replaces whatever was recorded under the same proposal id.              *)
RecordProposal(p) ==
    /\ recorded[IdOf[p]] # p
    /\ recorded' = [recorded EXCEPT ![IdOf[p]] = p]
    /\ Appends
    /\ UNCHANGED <<now, control, verifiers, contracts, verification, verifiedBy, leases,
                   effects, issues, inFlight>>

(* recordProposalVerification before its await.                            *)
MayVerify(p, v) ==
    /\ Ratified
    /\ Unexpired
    /\ p \in Covers[current]
    /\ v = ratifiedBy[current]
    /\ v \in verifiers
    /\ recorded[IdOf[p]] = p
    /\ v # Author[p]
    /\ p \in Trusts[v]

VerifyCall(f, p, v) ==
    /\ verifying[f] = None
    /\ MayVerify(p, v)
    /\ verifying' = [verifying EXCEPT ![f] = [proposal |-> p, contract |-> current,
                                              at |-> now]]
    /\ UNCHANGED <<now, control, verifiers, contracts, proposals, leases, effects,
                   unlogged, issues, running, acted, reply>>

VerifyRefused(p, v) ==
    /\ ~MayVerify(p, v)
    /\ issues' = TRUE
    /\ Appends
    /\ UNCHANGED <<now, control, verifiers, contracts, proposals, leases, effects, inFlight>>

Answered(f) == verifying' = [verifying EXCEPT ![f] = None]

(* The verifier threw, answered no, or gave a verdict whose hashes, trust, *)
(* evidence or window are refused.                                         *)
VerdictRefused(f) ==
    /\ verifying[f] # None
    /\ Answered(f)
    /\ issues' = TRUE
    /\ Appends
    /\ UNCHANGED <<now, control, verifiers, contracts, proposals, leases, effects, running,
                   acted, reply>>

(* The semantic replay inside append re-reads the log after the await: the *)
(* proposal must still be the recorded one and the contract that was read  *)
(* before the await still ratified.                                        *)
Bug_NoReplay(call) == TRUE
ReplayAccepts(call) ==
    /\ recorded[IdOf[call.proposal]] = call.proposal
    /\ contractStatus[call.contract] = "ratified"

(* A passing verdict.  The window is checked against the time and contract *)
(* captured before the await.  A second verification of the same proposal  *)
(* by the same verifier is input_duplicate: the old one stays, expired or  *)
(* not; a replay failure throws out of the call.                           *)
VerdictPassed(f, ttl, full) ==
    /\ verifying[f] # None
    /\ LET call == verifying[f]
           p    == call.proposal
           v    == ratifiedBy[call.contract]
       IN  /\ call.at + ttl <= ContractExpiry[call.contract]
           /\ IF v \notin verifiedBy[p] /\ ReplayAccepts(call)
              THEN /\ verification' = [verification EXCEPT ![p] =
                         [contract |-> call.contract, verifier |-> v,
                          expires |-> call.at + ttl, full |-> full]]
                   /\ verifiedBy' = [verifiedBy EXCEPT ![p] = @ \cup {v}]
              ELSE UNCHANGED <<verification, verifiedBy>>
    /\ Answered(f)
    /\ Appends
    /\ UNCHANGED <<now, control, verifiers, contracts, recorded, leases, effects, issues,
                   running, acted, reply>>

----------------------------------------------------------------------------
(***************************************************************************)
(* Capabilities                                                            *)
(***************************************************************************)
(* min(operator_dial, autonomy_ceiling, trust, trust_ceiling) = 1          *)
FullAuthority(p) ==
    /\ dial
    /\ current \in FullCeiling
    /\ verification[p].full
    /\ verification[p].verifier \in FullTrust

Verified(p) ==
    /\ verification[p] # None
    /\ verification[p].contract = current
    /\ verification[p].verifier = ratifiedBy[current]
    /\ verification[p].verifier \in verifiers
    /\ verification[p].verifier # Author[p]
    /\ verification[p].expires > now
    /\ p \in Trusts[verification[p].verifier]

Bug_CapabilityOutlivesContract(ttl) == TRUE
WithinContract(ttl) == now + ttl <= ContractExpiry[current]

MayIssue(p, ttl) ==
    /\ Ratified
    /\ Unexpired
    /\ GateOpen(InUse)
    /\ p \in Covers[current] \cap Allowlist[current]
    /\ recorded[IdOf[p]] = p
    /\ Verified(p)
    /\ FullAuthority(p)
    /\ WithinContract(ttl)

IssueCapability(k, p, ttl) ==
    /\ capState[k] = "none"
    /\ MayIssue(p, ttl)
    /\ capState' = [ReapedCap EXCEPT ![k] = "issued"]
    /\ capability' = [capability EXCEPT ![k] =
          [proposal |-> p, contract |-> current, verified_by |-> verification[p].verifier,
           expires |-> now + ttl]]
    /\ resState' = ReapedRes
    /\ active' = ReapedActive
    /\ Appends
    /\ UNCHANGED <<now, control, verifiers, contracts, proposals, reservation, effects,
                   issues, inFlight>>

IssueRefused(p, ttl) ==
    /\ ~MayIssue(p, ttl)
    /\ Reap
    /\ issues' = TRUE
    /\ Appends
    /\ UNCHANGED <<now, control, verifiers, contracts, proposals, capability, reservation,
                   effects, inFlight>>

----------------------------------------------------------------------------
(***************************************************************************)
(* Effects: executeCapability up to its await, the executor, and the two   *)
(* ways the call ends.                                                     *)
(***************************************************************************)
KeyOf(k) == OpKey[capability[k].proposal]

HeldKey(r) == KeyOf(reservation[r].capability)

(* The key has a committed result, in the log or in memory alone.          *)
KeyDone(o) == effects[o] # None \/ (Ahead # None /\ o = HeldKey(Ahead))

(* A committed result under the same key is answered "duplicate".          *)
Duplicate(k) == /\ capability[k].expires > now
                /\ KeyDone(KeyOf(k))

Bug_KeyNotChecked(k) == TRUE
KeyFree(k) == ~KeyDone(KeyOf(k))

Bug_ReservedTwice(k) == TRUE
NotReserved(k) ==
    ~\E r \in Reservations : ReapedRes[r] = "active" /\ reservation[r].capability = k

LeaseFits(k) == now + LeaseTTL <= capability[k].expires

(* #reserveCapability for a genuine capability (token, proposal hash,      *)
(* effect, scope, key and one_time all match).  The dial, the capability's *)
(* own contract and its verifier are not looked at again: only the health  *)
(* of the current contract is.                                             *)
MayReserve(k) ==
    /\ ReapedCap[k] = "issued"
    /\ capability[k].expires > now
    /\ KeyFree(k)
    /\ NotReserved(k)
    /\ GateOpen(InUse)
    /\ LeaseFits(k)

ExecuteCapability(k, r) ==
    /\ capState[k] # "none"
    /\ resState[r] = "none"
    /\ MayReserve(k)
    /\ resState' = [ReapedRes EXCEPT ![r] = "active"]
    /\ reservation' = [reservation EXCEPT ![r] = [capability |-> k,
                                                  lease |-> now + LeaseTTL]]
    /\ capState' = ReapedCap
    /\ active' = ReapedActive + 1
    /\ running' = running \cup {r}
    /\ Appends
    /\ UNCHANGED <<now, control, verifiers, contracts, proposals, capability, effects,
                   issues, verifying, acted, reply>>

ExecuteRefused(k) ==
    /\ capState[k] # "none"
    /\ ~Duplicate(k)
    /\ ~MayReserve(k)
    /\ Reap
    /\ issues' = TRUE
    /\ Appends
    /\ UNCHANGED <<now, control, verifiers, contracts, proposals, capability, reservation,
                   effects, inFlight>>

(* A forged, unknown or mismatched capability.                             *)
ExecuteForged ==
    /\ Reap
    /\ issues' = TRUE
    /\ Appends
    /\ UNCHANGED <<now, control, verifiers, contracts, proposals, capability, reservation,
                   effects, inFlight>>

(* The executor acts on the outside world, at any moment of its call.      *)
ExecutorActs(r) ==
    /\ r \in running \ acted
    /\ acted' = acted \cup {r}
    /\ UNCHANGED <<now, control, verifiers, contracts, proposals, leases, effects,
                   unlogged, issues, verifying, running, reply>>

Ends(r, answer) == /\ running' = running \ {r}
                   /\ reply' = [reply EXCEPT ![r] = answer]

(* #completeCapabilityReservation while the lease still holds.  The answer *)
(* is "ambiguous" when the append wrote its line and then failed.          *)
Bug_CommitWithoutReap(r) == resState[r] = "active"
StillLeased(r) == ReapedRes[r] = "active"

(* `await execute(...)` resolved: the executor has done its work.          *)
Bug_ReturnedEarly(r) == r \in running
Returned(r) == r \in running \cap acted

SlotFreed == Floor(ReapedActive - 1)

Commit(r, answer) ==
    LET k == reservation[r].capability IN
    /\ Returned(r)
    /\ StillLeased(r)
    /\ resState' = [ReapedRes EXCEPT ![r] = "completed"]
    /\ capState' = [ReapedCap EXCEPT ![k] = "consumed"]
    /\ active' = SlotFreed
    /\ effects' = [effects EXCEPT ![KeyOf(k)] = r]
    /\ Ends(r, answer)
    /\ Appends
    /\ UNCHANGED <<now, control, verifiers, contracts, proposals, capability, reservation,
                   issues, verifying, acted>>

(* The completion is in memory and its line could not be written: the      *)
(* failure handler finds the reservation completed there and appends       *)
(* nothing.  The caller is told "ambiguous", the log has the lease active. *)
CommitUnwritten(r) ==
    /\ Returned(r)
    /\ StillLeased(r)
    /\ Reap
    /\ Ends(r, "ambiguous")
    /\ unlogged' = r
    /\ UNCHANGED <<now, control, verifiers, contracts, proposals, capability, reservation,
                   effects, issues, verifying, acted>>

(* The executor returned, but the lease ended first.                       *)
CompleteTooLate(r) ==
    /\ Returned(r)
    /\ ~StillLeased(r)
    /\ Reap
    /\ Ends(r, "rejected")
    /\ unlogged' = Ahead
    /\ UNCHANGED <<now, control, verifiers, contracts, proposals, capability, reservation,
                   effects, issues, verifying, acted>>

(* The executor threw, before or after acting, or the completion append    *)
(* could not get the store's lock: #failCapabilityReservation.             *)
ExecutorThrows(r) ==
    /\ r \in running
    /\ IF StillLeased(r)
       THEN /\ resState' = [ReapedRes EXCEPT ![r] = "failed"]
            /\ capState' = [ReapedCap EXCEPT ![reservation[r].capability] = "failed"]
            /\ active' = SlotFreed
            /\ Appends
       ELSE Reap /\ unlogged' = Ahead
    /\ Ends(r, "ambiguous")
    /\ UNCHANGED <<now, control, verifiers, contracts, proposals, capability, reservation,
                   effects, issues, verifying, acted>>

(* The event store cannot be locked: the failure append throws as well and *)
(* the reservation is left to its lease.                                   *)
StoreUnavailable(r) ==
    /\ r \in running
    /\ Ends(r, "threw")
    /\ UNCHANGED <<now, control, verifiers, contracts, proposals, leases, effects,
                   unlogged, issues, verifying, acted>>

(* The process stops and another one reloads the durable log: what was     *)
(* awaited is forgotten, what the executors did stays done.                *)
Crash ==
    /\ running # {} \/ \E f \in Calls : verifying[f] # None
    /\ running' = {}
    /\ verifying' = [f \in Calls |-> None]
    /\ Appends
    /\ UNCHANGED <<now, control, verifiers, contracts, proposals, leases, effects, issues,
                   acted, reply>>

(* Any other append, input_duplicate among them, or a restart between two  *)
(* operations.                                                             *)
Reload ==
    /\ unlogged # None
    /\ Appends
    /\ UNCHANGED <<now, control, verifiers, contracts, proposals, leases, effects, issues,
                   inFlight>>

----------------------------------------------------------------------------
OperatorNext ==
    \/ Tick
    \/ \E level \in BOOLEAN : SetOperatorDial(level)
    \/ Halt \/ Override \/ ClearOverride
    \/ \E v \in Registry, isActive \in BOOLEAN : RegisterVerifier(v, isActive)
    \/ RuntimeHealth

ContractNext ==
    \E c \in Contracts :
        \/ ProposeContract(c)
        \/ \E v \in Identities : RatifyContract(c, v)
        \/ \E v \in Identities, altered \in BOOLEAN : RejectContract(c, v, altered)

ProposalNext ==
    \/ \E p \in Proposals : RecordProposal(p)
    \/ \E p \in Proposals, v \in Identities, f \in Calls : VerifyCall(f, p, v)
    \/ \E p \in Proposals, v \in Identities : VerifyRefused(p, v)
    \/ \E f \in Calls : VerdictRefused(f)
    \/ \E f \in Calls, ttl \in VerdictTTLs, full \in BOOLEAN : VerdictPassed(f, ttl, full)

EffectNext ==
    \/ \E k \in Capabilities, p \in Proposals, ttl \in CapabilityTTLs :
          IssueCapability(k, p, ttl)
    \/ \E p \in Proposals, ttl \in CapabilityTTLs : IssueRefused(p, ttl)
    \/ \E k \in Capabilities, r \in Reservations : ExecuteCapability(k, r)
    \/ \E k \in Capabilities : ExecuteRefused(k)
    \/ ExecuteForged
    \/ \E r \in Reservations :
          \/ ExecutorActs(r)
          \/ \E answer \in {"committed", "ambiguous"} : Commit(r, answer)
          \/ CommitUnwritten(r)
          \/ CompleteTooLate(r)
          \/ ExecutorThrows(r)
          \/ StoreUnavailable(r)
    \/ Crash \/ Reload

Next == OperatorNext \/ ContractNext \/ ProposalNext \/ EffectNext

Spec == Init /\ [][Next]_vars
----------------------------------------------------------------------------
(***************************************************************************)
(* Properties                                                              *)
(***************************************************************************)
Ids(state) == {r \in Reservations : resState[r] = state}

(* Told "ambiguous" although nothing ended their lease: the completion's   *)
(* line was not written.                                                   *)
Lost == {r \in Ids("active") : reply[r] = "ambiguous"}

(* active_effects is kept by increments and decrements spread over six     *)
(* handlers, with a floor at 0 that would hide a double decrement; it is   *)
(* always the number of active reservations.  The budget bounds those that *)
(* are not lost; memory that shows a lost one completed lets one more in.  *)
ActiveCountExact ==
    /\ active = Cardinality(Ids("active"))
    /\ Cardinality(Ids("active") \ Lost) <= Concurrency
    /\ active <= Concurrency + 1

(* A capability is spent through one reservation only, and its fate is the *)
(* reservation's: whatever mix of expiry, failure, retry and crash.        *)
CapabilitySpentOnce ==
    \A r \in Reservations : resState[r] # "none" =>
        LET k == reservation[r].capability IN
        /\ capState[k] = CASE resState[r] = "active"    -> "issued"
                           [] resState[r] = "completed" -> "consumed"
                           [] resState[r] = "failed"    -> "failed"
        /\ \A q \in Reservations :
             (resState[q] # "none" /\ reservation[q].capability = k) => q = r

(* Every capability ever issued has an unbroken chain of authority: its    *)
(* contract was ratified by the verifier it nominates, who is neither its  *)
(* proposer nor the proposal's author and also verified the proposal; and  *)
(* lease, capability and contract end in that order.                       *)
AuthorityChain ==
    \A k \in Capabilities : capState[k] # "none" =>
        LET cap == capability[k]
            c   == cap.contract
        IN  /\ ratifiedBy[c] = Nominated[c]
            /\ cap.verified_by = Nominated[c]
            /\ cap.verified_by # ProposedBy[c]
            /\ cap.verified_by # Author[cap.proposal]
            /\ cap.proposal \in Covers[c] \cap Allowlist[c]
            /\ cap.expires <= ContractExpiry[c]
            /\ \A r \in Reservations :
                 resState[r] # "none" /\ reservation[r].capability = k
                    => reservation[r].lease <= cap.expires

(* Receipts never claim an effect the executor did not perform, and no     *)
(* answer contradicts the log: "committed" is found there, "rejected" has  *)
(* failed, and "ambiguous" is completed, failed, or still leased because   *)
(* the completion of an effect that was performed could not be written.    *)
NoFalseCommit ==
    /\ \A r \in Reservations :
         /\ resState[r] = "completed" => r \in acted
         /\ reply[r] = "committed" => resState[r] = "completed"
         /\ reply[r] = "rejected" => resState[r] = "failed"
         /\ reply[r] = "ambiguous" => \/ resState[r] \in {"completed", "failed"}
                                      \/ resState[r] = "active" /\ r \in acted
    /\ \A o \in OpKeys : effects[o] # None =>
         /\ resState[effects[o]] = "completed"
         /\ KeyOf(reservation[effects[o]].capability) = o

(* An effect starts only for a capability whose own contract still stands. *)
(* The reserve step never looks at that contract: a rejection reaches it   *)
(* only through the issue it records, expiry only through the capability's.*)
StartedUnderRatified ==
    [][ \A r \in Reservations : resState[r] = "none" /\ resState'[r] = "active" =>
          LET c == capability[reservation'[r].capability].contract IN
          contractStatus[c] = "ratified" /\ now < ContractExpiry[c] ]_vars

(* An effect is committed only while its lease, its capability and its     *)
(* contract all hold, whatever time the executor took.                     *)
CommittedInTime ==
    [][ \A r \in Reservations : resState[r] # "completed" /\ resState'[r] = "completed" =>
          LET k == reservation[r].capability IN
          /\ resState[r] = "active"
          /\ now < reservation[r].lease
          /\ now < capability[k].expires
          /\ now < ContractExpiry[capability[k].contract] ]_vars

(* The committed result of an operation key is never replaced, although    *)
(* several capabilities, of several proposals, may carry the key.          *)
KeyCommittedOnce ==
    [][ \A o \in OpKeys : effects[o] # None => effects'[o] = effects[o] ]_vars

(* With a budget above one, two reservations of one key can both commit:   *)
(* the key is looked at when a lease is taken, and not again.  It is then  *)
(* committed only by effects that were under way side by side: no more of  *)
(* them than the budget, each lease taken before the other's was over.     *)
CommittedTo(o) == {r \in Ids("completed") : HeldKey(r) = o}

RepeatsOverlap ==
    \A o \in OpKeys :
        /\ Cardinality(CommittedTo(o)) <= Concurrency
        /\ \A r, q \in CommittedTo(o) :
             reservation[r].lease < reservation[q].lease + LeaseTTL

(* Across the verifier's await the proposal may be replaced and the        *)
(* contract rejected: what is recorded in the end is a verification of the *)
(* recorded proposal under a contract that is ratified at that moment.     *)
VerifiedAgainstLiveState ==
    [][ \A p \in Proposals : verification'[p] # verification[p] =>
          /\ recorded[IdOf[p]] = p
          /\ contractStatus[verification'[p].contract] = "ratified"
          /\ verification'[p].expires <= ContractExpiry[verification'[p].contract] ]_vars

(* Fail closed for good: after one refusal, nothing is issued and nothing  *)
(* starts, until the end of the log.                                       *)
RefusalIsFinal ==
    [][ issues => /\ issues'
                  /\ \A k \in Capabilities : capState[k] = "none" => capState'[k] = "none"
                  /\ \A r \in Reservations : resState[r] = "none" => resState'[r] = "none"
      ]_vars

(* What becomes of a capability, as OneTimeCapability sees it.             *)
FateOf(k) ==
    IF \E r \in Ids("active") : reservation[r].capability = k THEN "leased"
    ELSE IF capState[k] = "consumed" THEN "committed"
    ELSE capState[k]

Promise == INSTANCE OneTimeCapability
           WITH fate <- [k \in Capabilities |-> FateOf(k)],
                performed <- {reservation[r].capability : r \in acted}

(* The engine implements OneTimeCapability: seen per capability, no lease  *)
(* is taken twice, no terminal fate is left again, and nothing is          *)
(* committed that no executor performed, however reservations expire.      *)
OneTimeCapabilities == Promise!Spec

(* Effects, their keys and their leases, as GovernedEffects sees them.     *)
CommittedKeys == {o \in OpKeys : effects[o] # None}

WorkOf(r) == IF r \in running THEN HeldKey(r) ELSE None

EndOf(r) == IF resState[r] = "active" /\ ~LeaseOver(r) THEN reservation[r].lease ELSE 0

Governed == INSTANCE GovernedEffects
            WITH Holders <- Reservations, Keys <- OpKeys, closed <- issues,
                 done <- CommittedKeys,
                 lost <- {r \in Lost : EndOf(r) # 0},
                 work <- [r \in Reservations |-> WorkOf(r)],
                 ends <- [r \in Reservations |-> EndOf(r)]

(* The engine implements GovernedEffects: although leases are reaped only  *)
(* by the next operation that comes, slots, keys and lease ends behave as  *)
(* if every lease were dropped at the moment it is over.                   *)
EffectsGoverned == Governed!Spec
============================================================================
