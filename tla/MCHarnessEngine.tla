-------------------------- MODULE MCHarnessEngine --------------------------
(***************************************************************************)
(* Small instances of HarnessEngine.  Two contracts of the same worker     *)
(* nominate the same verifier; the second ends earlier.  Time is counted   *)
(* in half minutes: a lease is 1, a capability 2 (or what the caller asks).*)
(***************************************************************************)
EXTENDS HarnessEngine, TLC

MCProposedBy     == [c \in Contracts |-> "worker"]
MCNominated      == [c \in Contracts |-> "verifier"]
MCContractExpiry == [c \in Contracts |-> IF c = "c1" THEN MaxTime ELSE MaxTime - 1]
MCCovers         == [c \in Contracts |-> Proposals]
MCIdOf           == [p \in Proposals |-> p]
MCSameId         == [p \in Proposals |-> "p"]
MCAuthor         == [p \in Proposals |-> "worker"]
MCOpKey          == [p \in Proposals |-> "key"]
MCOwnKey         == [p \in Proposals |-> p]
MCTrusts         == [v \in Identities |-> Proposals \cup Contracts]

(* The operator turns the dial up and then leaves the controls alone; the  *)
(* verifiers registered at the start stay.                                 *)
QuietOperator == dial \in {dial', FALSE} /\ UNCHANGED <<halted, override, verifiers>>
QuietSpec == Init /\ [][Next /\ QuietOperator]_vars

(* Besides, every verdict carries full trust.                              *)
FullVerdicts == \A p \in Proposals : verification'[p] # None => verification'[p].full
FullVerdictSpec == Init /\ [][Next /\ QuietOperator /\ FullVerdicts]_vars

(* And nothing but the rejection of a contract records an issue.           *)
OnlyRejections == issues' => issues \/ contractStatus' # contractStatus
RejectionSpec == Init /\ [][Next /\ QuietOperator /\ FullVerdicts /\ OnlyRejections]_vars

Symmetry == Permutations(Capabilities) \cup Permutations(Reservations)
AnyProposal == Symmetry \cup Permutations(Proposals)

(***************************************************************************)
(* Liveness.  Time passes, and someone keeps asking: every gated operation *)
(* and every status poll reaps, here runtimeHealth stands for the next one *)
(* that comes.  Nothing is assumed of executors, which may never return.   *)
(***************************************************************************)
LiveSpec == Spec /\ WF_vars(Tick) /\ WF_vars(RuntimeHealth)

(* A lease that was taken ends, and its concurrency slot comes back,       *)
(* though the executor hangs, the store fails or the process crashes.  The *)
(* polls do not reap a lease that memory shows completed: one of those may *)
(* last in the log until the next append or restart.                       *)
LeasesEnd ==
    \A r \in Reservations :
        resState[r] = "active" ~> (resState[r] # "active" \/ unlogged = r)

(***************************************************************************)
(* What the repository says and the code does not do (expected violations) *)
(***************************************************************************)
(* "If the business call or completion receipt fails after reservation,    *)
(* the harness returns an ambiguous outcome": a caller is never told that  *)
(* an effect was rejected when the executor has performed it.              *)
FailedCompletionIsAmbiguous ==
    \A r \in acted : reply[r] # "rejected"

(* "attempt, wall-clock, and concurrency budgets are enforced": no more    *)
(* executors run at a time than budgets.concurrency.                       *)
ConcurrencyEnforced == Cardinality(running) <= Concurrency
============================================================================
