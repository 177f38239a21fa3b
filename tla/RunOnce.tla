------------------------------ MODULE RunOnce ------------------------------
(***************************************************************************)
(* HarnessEngine.runOnce: one pass of the governed loop.  It asks the      *)
(* worker for proposals and takes each through its budgets, verification,  *)
(* capability and effect.  The server of the application template calls it *)
(* for every POST, so several passes run on one engine at once.            *)
(*                                                                         *)
(* JavaScript runs one pass at a time, from one await to the next: `turn`  *)
(* is the pass that has the thread, and a pass that awaits gives it up.    *)
(* What executeCapability, issueCapability and verification do is in       *)
(* HarnessEngine; here they are reduced to what the loop reads: one        *)
(* contract, one lease per pass, the verdict's expiry, the health issues.  *)
(* Reaping an expired lease is its being over (lease <= now).              *)
(***************************************************************************)
EXTENDS Naturals, FiniteSets, Sequences

CONSTANTS
    Passes,          \* runOnce calls under way at once (bound)
    Contents,        \* proposal contents, one per proposal hash
    Ids, Keys,
    IdOf,            \* [Contents -> Ids], proposal.id
    KeyOf,           \* [Contents -> Keys], proposal.idempotency_key
    Escalations,     \* contents of type "escalation"
    HasAdapter,      \* contents some adapter allows (effect and scope)
    Worklists,       \* what worker.propose may answer
    Concurrency, MaxAttempts, WallBudget,          \* this.budgets
    LeaseTTL, CapabilityTTL, VerdictTTL,
    ContractExpiry,
    MaxTime,         \* bound on the clock
    None

ASSUME PassAssumption   == IsFiniteSet(Passes) /\ None \notin Passes
ASSUME BudgetAssumption == /\ Concurrency \in Nat \ {0}
                           /\ MaxAttempts \in Nat \ {0}
                           /\ WallBudget \in Nat
ASSUME TimeAssumption   == /\ LeaseTTL \in Nat \ {0} /\ CapabilityTTL \in Nat
                           /\ LeaseTTL <= CapabilityTTL
                           /\ VerdictTTL \in Nat \ {0}
                           /\ ContractExpiry \in Nat /\ MaxTime \in Nat
ASSUME WorkAssumption   == /\ IdOf \in [Contents -> Ids] /\ KeyOf \in [Contents -> Keys]
                           /\ None \notin Contents \cup Keys
                           /\ Worklists \subseteq Seq(Contents)

VARIABLES
    now,
    turn,            \* the pass that runs, None when the event loop is idle
    pass,            \* where each pass is, and its results so far
    halted, override,
    issues,          \* some health issue is recorded; nothing ever removes one
    contract,        \* status of the goal's contract
    recorded,        \* the content recorded under each id (worker_proposed)
    verdict,         \* expiry of the recorded verification of a content; 0: none
    attempts, quarantine,
    effects,         \* operation keys committed
    lease            \* end of the lease a pass holds; 0: none

vars == <<now, turn, pass, halted, override, issues, contract, recorded, verdict, attempts,
          quarantine, effects, lease>>

operator == <<halted, override>>
evidence == <<contract, recorded, verdict>>
budgets  == <<attempts, quarantine>>
outcome  == <<effects, lease>>

Awaiting == {"proposing", "verifying", "issuing", "executing", "answered"}
Answers  == {"committed", "duplicate", "rejected", "ambiguous", "threw", "propose_only"}
Receipts == {"none", "written", "unwritten"}
Results  == (Answers \ {"threw"}) \cup {"failed", "escalated", "quarantined", "deferred"}

PassType == [pc : Awaiting \cup {"idle", "loop"}, since : Nat, asked : Nat,
             list : Seq(Contents), results : Seq(Results), answer : Answers \cup {None}]

TypeOK ==
    /\ now \in Nat
    /\ turn \in Passes \cup {None}
    /\ pass \in [Passes -> PassType]
    /\ halted \in BOOLEAN /\ override \in BOOLEAN /\ issues \in BOOLEAN
    /\ contract \in {"none", "ratified", "rejected"}
    /\ recorded \in [Ids -> Contents \cup {None}]
    /\ verdict \in [Contents -> Nat]
    /\ attempts \in [Ids -> Nat]
    /\ quarantine \subseteq Ids
    /\ effects \subseteq Keys
    /\ lease \in [Passes -> Nat]
    /\ \A c \in Passes : pass[c].pc = "loop" <=> turn = c
    /\ \A c \in Passes : pass[c].pc \in {"idle", "proposing"} => pass[c].results = <<>>
    /\ \A c \in Passes : pass[c].pc \in Awaiting \ {"proposing"}
                            => Len(pass[c].results) < Len(pass[c].list)
    /\ \A c \in Passes : pass[c].pc = "loop"
                            => Len(pass[c].results) <= Len(pass[c].list)
    /\ \A c \in Passes : pass[c].pc = "answered" => pass[c].answer \in Answers

Idle == [pc |-> "idle", since |-> 0, asked |-> 0, list |-> <<>>, results |-> <<>>,
         answer |-> None]

Init ==
    /\ now = 0 /\ turn = None
    /\ pass = [c \in Passes |-> Idle]
    /\ halted = FALSE /\ override = FALSE /\ issues = FALSE
    /\ contract = "none"
    /\ recorded = [i \in Ids |-> None]
    /\ verdict = [p \in Contents |-> 0]
    /\ attempts = [i \in Ids |-> 0]
    /\ quarantine = {} /\ effects = {}
    /\ lease = [c \in Passes |-> 0]

----------------------------------------------------------------------------
(* What the engine's operations look at. *)
Live(c)        == lease[c] > now
InUse          == Cardinality({c \in Passes : Live(c)})
ContractStands == contract = "ratified" /\ now < ContractExpiry

Bug_IssuesIgnored == contract = "ratified" /\ ~halted /\ ~override /\ InUse < Concurrency
GateOpen ==
    contract = "ratified" /\ ~halted /\ ~override /\ ~issues /\ InUse < Concurrency

(* The proposal a pass is at: the entry after its last result.             *)
Current(c) == pass[c].list[Len(pass[c].results) + 1]

----------------------------------------------------------------------------
(* The clock, and the operator's controls between turns. *)
Tick == /\ now < MaxTime
        /\ now' = now + 1
        /\ UNCHANGED <<turn, pass, operator, issues, evidence, budgets, outcome>>

Operate ==
    /\ turn = None
    /\ \/ ~halted /\ halted' = TRUE /\ UNCHANGED override              \* halt
       \/ override' = TRUE /\ halted' = FALSE                          \* override
       \/ override /\ override' = FALSE /\ UNCHANGED halted            \* clearOverride
    /\ UNCHANGED <<now, turn, pass, issues, evidence, budgets, outcome>>

----------------------------------------------------------------------------
(***************************************************************************)
(* A pass begins.  The goal's contract is proposed if there is none and    *)
(* ratified if it is not; runOnce looks at neither answer.  A halted       *)
(* engine answers at once, and ratifying a rejected contract throws when   *)
(* the ratifier would now accept: both leave the state as it is.  A pass   *)
(* is a new one only when the lease of the last under its name is over.    *)
(***************************************************************************)
Start(c, accepted) ==
    /\ turn = None
    /\ pass[c].pc = "idle" /\ ~Live(c)
    /\ ~halted \/ override
    /\ \/ /\ contract = "ratified"
          /\ UNCHANGED <<contract, issues>>
       \/ /\ contract = "none" /\ accepted /\ now < ContractExpiry
          /\ contract' = "ratified"
          /\ UNCHANGED issues
       \/ /\ contract # "ratified" /\ (~accepted \/ now >= ContractExpiry)
          /\ contract' = "rejected"
          /\ issues' = TRUE
    /\ pass' = [pass EXCEPT ![c] = [Idle EXCEPT !.pc = "proposing", !.since = now]]
    /\ UNCHANGED <<now, turn, operator, recorded, verdict, budgets, outcome>>

(* worker.propose answers: the loop takes over. *)
Proposed(c, list) ==
    /\ turn = None
    /\ pass[c].pc = "proposing"
    /\ turn' = c
    /\ pass' = [pass EXCEPT ![c].pc = "loop", ![c].list = list]
    /\ UNCHANGED <<now, operator, issues, evidence, budgets, outcome>>

(* It throws, or answers something that is no proposal: so does runOnce.   *)
ProposeFails(c) ==
    /\ turn = None
    /\ pass[c].pc = "proposing"
    /\ pass' = [pass EXCEPT ![c] = Idle]
    /\ UNCHANGED <<now, turn, operator, issues, evidence, budgets, outcome>>

----------------------------------------------------------------------------
(***************************************************************************)
(* The loop, entry by entry, while the pass has the thread.                *)
(***************************************************************************)
AtEntry(c) == turn = c /\ Len(pass[c].results) < Len(pass[c].list)

(* Bug_* definitions here and below are mutants: never part of the model.  *)
Bug_PushedTwice(c, status) ==
    pass' = [pass EXCEPT ![c].results = @ \o <<status, status>>]
(* results.push, and on to the next entry. *)
Result(c, status) == pass' = [pass EXCEPT ![c].results = Append(@, status)]

Late(c) == now > pass[c].since + WallBudget

Quarantined(id) == /\ quarantine' = quarantine \cup {id}
                   /\ issues' = TRUE

OutOfTime(c) ==
    /\ AtEntry(c) /\ Late(c)
    /\ Quarantined(IdOf[Current(c)])
    /\ Result(c, "quarantined")
    /\ UNCHANGED <<now, turn, operator, evidence, attempts, outcome>>

(* The concurrency budget counts entries of the list. *)
Defer(c) ==
    /\ AtEntry(c) /\ ~Late(c)
    /\ Len(pass[c].results) >= Concurrency
    /\ Result(c, "deferred")
    /\ UNCHANGED <<now, turn, operator, issues, evidence, budgets, outcome>>

(* worker_proposed: an id recorded before is a duplicate and keeps the     *)
(* content it has.                                                         *)
Recorded(c) ==
    LET p == Current(c) IN
    [recorded EXCEPT ![IdOf[p]] = IF @ = None THEN p ELSE @]

TakeUp(c) == /\ AtEntry(c) /\ ~Late(c)
             /\ Len(pass[c].results) < Concurrency
             /\ recorded' = Recorded(c)

Effect(c) == TakeUp(c) /\ Current(c) \notin Escalations

Escalate(c) ==
    /\ TakeUp(c) /\ Current(c) \in Escalations
    /\ Result(c, "escalated")
    /\ UNCHANGED <<now, turn, operator, issues, contract, verdict, budgets, outcome>>

InQuarantine(c) ==
    /\ Effect(c) /\ IdOf[Current(c)] \in quarantine
    /\ Result(c, "quarantined")
    /\ UNCHANGED <<now, turn, operator, issues, contract, verdict, budgets, outcome>>

Bug_OneMoreAttempt(id) == attempts[id] <= MaxAttempts
AttemptsLeft(id) == attempts[id] < MaxAttempts

OutOfAttempts(c) ==
    LET id == IdOf[Current(c)] IN
    /\ Effect(c) /\ id \notin quarantine /\ ~AttemptsLeft(id)
    /\ Quarantined(id)
    /\ Result(c, "quarantined")
    /\ UNCHANGED <<now, turn, operator, contract, verdict, attempts, outcome>>

Tried(c) == Effect(c) /\ IdOf[Current(c)] \notin quarantine /\ AttemptsLeft(IdOf[Current(c)])

NoAdapter(c) ==
    /\ Tried(c) /\ Current(c) \notin HasAdapter
    /\ attempts' = [attempts EXCEPT ![IdOf[Current(c)]] = @ + 1]
    /\ issues' = TRUE
    /\ Result(c, "failed")
    /\ UNCHANGED <<now, turn, operator, contract, verdict, quarantine, outcome>>

(* recordProposalVerification up to its await: the contract must stand and *)
(* the content be the recorded one.                                        *)
Verifiable(c) == /\ Tried(c) /\ Current(c) \in HasAdapter
                 /\ turn' = None

Verify(c) ==
    /\ Verifiable(c)
    /\ ContractStands /\ Recorded(c)[IdOf[Current(c)]] = Current(c)
    /\ pass' = [pass EXCEPT ![c].pc = "verifying", ![c].asked = now]
    /\ UNCHANGED <<now, operator, issues, contract, verdict, budgets, outcome>>

Answered(c, answer) ==
    pass' = [pass EXCEPT ![c].pc = "answered", ![c].asked = 0, ![c].answer = answer]

VerifyRefused(c) ==
    /\ Verifiable(c)
    /\ ~ContractStands \/ Recorded(c)[IdOf[Current(c)]] # Current(c)
    /\ issues' = TRUE
    /\ Answered(c, "propose_only")
    /\ UNCHANGED <<now, operator, contract, verdict, budgets, outcome>>

----------------------------------------------------------------------------
(***************************************************************************)
(* The awaits of one entry, other passes running in between.               *)
(***************************************************************************)
At(c, pc) == turn = None /\ pass[c].pc = pc

Bug_VerdictRenewed(p, until) == [verdict EXCEPT ![p] = until]
(* A content the verifier passed before is input_duplicate: the verdict    *)
(* and its expiry stay the old ones, and the answer is ok all the same.    *)
VerdictKept(p, until) == [verdict EXCEPT ![p] = IF @ = 0 THEN until ELSE @]

(* The verdict's expiry counts from before the await. *)
VerdictPassed(c) ==
    LET until == pass[c].asked + VerdictTTL IN
    /\ At(c, "verifying")
    /\ until <= ContractExpiry
    /\ verdict' = VerdictKept(Current(c), until)
    /\ pass' = [pass EXCEPT ![c].pc = "issuing", ![c].asked = 0]
    /\ UNCHANGED <<now, turn, operator, issues, contract, recorded, budgets, outcome>>

(* Not passed, thrown, incomplete, or ending after the contract. *)
VerdictRefused(c) ==
    /\ At(c, "verifying")
    /\ issues' = TRUE
    /\ Answered(c, "propose_only")
    /\ UNCHANGED <<now, turn, operator, evidence, budgets, outcome>>

MayIssue(c) == /\ ContractStands /\ GateOpen
               /\ verdict[Current(c)] > now
               /\ now + CapabilityTTL <= ContractExpiry

Bug_KeyNotChecked(c) == FALSE
(* The operation key has a committed result. *)
Done(c) == KeyOf[Current(c)] \in effects

(* issueCapability and, in the same turn, executeCapability up to its      *)
(* await: the capability is reserved and the executor called.              *)
Execute(c) ==
    /\ At(c, "issuing")
    /\ MayIssue(c)
    /\ ~Done(c)
    /\ lease' = [lease EXCEPT ![c] = now + LeaseTTL]
    /\ pass' = [pass EXCEPT ![c].pc = "executing"]
    /\ UNCHANGED <<now, turn, operator, issues, evidence, budgets, effects>>

Duplicate(c) ==
    /\ At(c, "issuing")
    /\ MayIssue(c)
    /\ Done(c)
    /\ Answered(c, "duplicate")
    /\ UNCHANGED <<now, turn, operator, issues, evidence, budgets, outcome>>

(* Refused, also for want of authority (dial, trust, ceilings).  Memory    *)
(* that has an unwritten completion may show a slot free: the capability's *)
(* own append reloads the log, and executeCapability refuses it instead.   *)
IssueRefused(c) ==
    /\ At(c, "issuing")
    /\ issues' = TRUE
    /\ Answered(c, "propose_only")
    /\ UNCHANGED <<now, turn, operator, evidence, budgets, outcome>>

ExecutorReturns(c) ==
    /\ At(c, "executing")
    /\ IF Live(c)
       THEN /\ effects' = effects \cup {KeyOf[Current(c)]}
            /\ lease' = [lease EXCEPT ![c] = 0]
            /\ Answered(c, "committed")
       ELSE /\ Answered(c, "rejected")
            /\ UNCHANGED <<effects, lease>>
    /\ UNCHANGED <<now, turn, operator, issues, evidence, budgets>>

(* It throws, or returned and its receipt was written by an append that    *)
(* then failed, or could not be written: then the log keeps the lease, and *)
(* only memory has the effect.  What passes decide next they decide after  *)
(* an append of theirs, which reloads the log, IssueRefused excepted.      *)
ExecutorThrows(c, receipt) ==
    /\ At(c, "executing")
    /\ receipt # "none" => Live(c)
    /\ effects' = IF receipt = "written" THEN effects \cup {KeyOf[Current(c)]} ELSE effects
    /\ lease' = IF receipt = "unwritten" THEN lease ELSE [lease EXCEPT ![c] = 0]
    /\ Answered(c, "ambiguous")
    /\ UNCHANGED <<now, turn, operator, issues, evidence, budgets>>

(* The store cannot be locked: executeCapability throws, the lease stays.  *)
StoreFails(c) ==
    /\ At(c, "executing")
    /\ Answered(c, "threw")
    /\ UNCHANGED <<now, turn, operator, issues, evidence, budgets, outcome>>

(* The store still fails when the loop records that: runOnce throws.       *)
Abandon(c) ==
    /\ At(c, "answered") /\ pass[c].answer \in {"threw", "ambiguous"}
    /\ pass' = [pass EXCEPT ![c] = Idle]
    /\ UNCHANGED <<now, turn, operator, issues, evidence, budgets, outcome>>

----------------------------------------------------------------------------
Bug_FailureKeepsGateOpen(c) ==
    /\ attempts' = [attempts EXCEPT ![IdOf[Current(c)]] = @ + 1]
    /\ UNCHANGED <<quarantine, issues>>

(* The loop has an entry's answer: a failed effect is an attempt, and the  *)
(* last attempt quarantines.  The count is read again here.                *)
Failed(c) ==
    LET id == IdOf[Current(c)] IN
    /\ attempts' = [attempts EXCEPT ![id] = @ + 1]
    /\ quarantine' = IF attempts[id] + 1 >= MaxAttempts THEN quarantine \cup {id}
                     ELSE quarantine
    /\ issues' = TRUE

Resume(c) ==
    /\ At(c, "answered")
    /\ turn' = c
    /\ pass' = [pass EXCEPT ![c].pc = "loop", ![c].answer = None,
                  ![c].results = Append(@, IF pass[c].answer = "threw" THEN "failed"
                                           ELSE pass[c].answer)]
    /\ IF pass[c].answer \in {"ambiguous", "threw"}
       THEN Failed(c)
       ELSE UNCHANGED <<attempts, quarantine, issues>>
    /\ UNCHANGED <<now, operator, evidence, outcome>>

(* The pass answers its results. *)
Finish(c) ==
    /\ turn = c
    /\ Len(pass[c].results) = Len(pass[c].list)
    /\ turn' = None
    /\ pass' = [pass EXCEPT ![c] = Idle]
    /\ UNCHANGED <<now, operator, issues, evidence, budgets, outcome>>

(* The process ends, another loads the log: leases go on, passes do not.   *)
Crash ==
    /\ \E c \in Passes : pass[c].pc # "idle"
    /\ turn' = None
    /\ pass' = [c \in Passes |-> Idle]
    /\ UNCHANGED <<now, operator, issues, evidence, budgets, outcome>>

----------------------------------------------------------------------------
Loop(c) ==
    \/ OutOfTime(c) \/ Defer(c) \/ Escalate(c) \/ InQuarantine(c) \/ OutOfAttempts(c)
    \/ NoAdapter(c) \/ Verify(c) \/ VerifyRefused(c) \/ Finish(c)

Settle(c) ==
    \/ \E list \in Worklists : Proposed(c, list)
    \/ ProposeFails(c)
    \/ VerdictPassed(c) \/ VerdictRefused(c)
    \/ Execute(c) \/ Duplicate(c) \/ IssueRefused(c)
    \/ ExecutorReturns(c)
    \/ \E receipt \in Receipts : ExecutorThrows(c, receipt)
    \/ StoreFails(c) \/ Abandon(c) \/ Resume(c)

Next ==
    \/ Tick \/ Operate \/ Crash
    \/ \E c \in Passes : \/ \E accepted \in BOOLEAN : Start(c, accepted)
                         \/ Loop(c) \/ Settle(c)

Spec == Init /\ [][Next]_vars
----------------------------------------------------------------------------
(***************************************************************************)
(* Properties                                                              *)
(***************************************************************************)
(* A step that calls the executor for the entry pass c is at.              *)
Starts(c) == pass[c].pc # "executing" /\ pass'[c].pc = "executing"

(* attempts are read before the awaits and counted after them.  Passes     *)
(* that overlap can overrun attempts_per_proposal, but only by the passes  *)
(* that were under way beside the one that counted the last attempt.       *)
AttemptOverrun ==
    \A id \in Ids : attempts[id] <= MaxAttempts + Cardinality(Passes) - 1

(* The quarantine and the attempts are looked at only before an entry's    *)
(* first await.  All the same a counted failure ends every start, of any   *)
(* proposal and in every pass already beyond that look, quarantined or     *)
(* not: attempts_per_proposal never grants a second attempt, because the   *)
(* first one leaves a health issue that nothing removes.                   *)
FailureIsFinal ==
    [][ \A c \in Passes : Starts(c) =>
          quarantine = {} /\ \A id \in Ids : attempts[id] = 0 ]_vars

(* Whatever other passes did meanwhile, a result that was answered is true *)
(* of the log: committed and duplicate effects are there, quarantined ids  *)
(* are, and every failure and refusal is counted and closed the gate.      *)
ResultsTruthful ==
    \A c \in Passes : \A i \in 1..Len(pass[c].results) :
        LET p == pass[c].list[i]
            status == pass[c].results[i]
        IN  /\ status \in {"committed", "duplicate"} => KeyOf[p] \in effects
            /\ status = "quarantined" => IdOf[p] \in quarantine
            /\ status \in {"failed", "ambiguous"} => attempts[IdOf[p]] > 0
            /\ status \in {"failed", "ambiguous", "propose_only", "quarantined"} => issues

(* An executor that returns after its lease is no attempt, nor is one that *)
(* failed when the process dies before the loop records it: no budget      *)
(* stops their repetition.  What does is the verdict, which verifying      *)
(* again (answered ok all the same) does not renew: a content starts       *)
(* executors only within the life of its first verdict.                    *)
RepetitionEnds ==
    [][ \A p \in Contents : verdict[p] # 0 =>
          /\ verdict'[p] = verdict[p]
          /\ \A c \in Passes : Starts(c) /\ Current(c) = p => now < verdict[p] ]_vars

(* Effects, their keys and their leases, as GovernedEffects sees them.     *)
WorkOf(c) == IF pass[c].pc = "executing" THEN KeyOf[Current(c)] ELSE None

EndOf(c) == IF Live(c) THEN lease[c] ELSE 0

Governed == INSTANCE GovernedEffects
            WITH Holders <- Passes, closed <- issues, done <- effects,
                 lost <- {}, work <- [c \in Passes |-> WorkOf(c)],
                 ends <- [c \in Passes |-> EndOf(c)]

(* The loop, which asks the engine for verdicts, capabilities and effects  *)
(* across awaits, keeps the promise the engine keeps: whatever passes      *)
(* interleave, effects begin, commit and lapse as GovernedEffects says.    *)
PassesGoverned == Governed!Spec
============================================================================
