\* A budget of two effects; two contents compete for one proposal id, each with its operation key.
SPECIFICATION RejectionSpec
CONSTANTS
    Contracts = {"c1"}
    Proposals = {p1, p2}
    ProposalIds = {"p"}
    OpKeys = {p1, p2}
    Identities = {"worker", "verifier"}
    Capabilities = {k1, k2, k3}
    Reservations = {r1, r2, r3}
    Calls = {f1}
    None = None
    ProposedBy <- MCProposedBy
    Nominated <- MCNominated
    ContractExpiry <- MCContractExpiry
    FullCeiling = {"c1"}
    Covers <- MCCovers
    Allowlist <- MCCovers
    IdOf <- MCSameId
    Author <- MCAuthor
    OpKey <- MCOwnKey
    Trusts <- MCTrusts
    Registry = {"verifier"}
    CanRun = {"verifier"}
    FullTrust = {"verifier"}
    Concurrency = 2
    LeaseTTL = 1
    CapabilityTTLs = {1}
    VerdictTTLs = {1}
    MaxTime = 2
SYMMETRY AnyProposal
INVARIANTS
    ActiveCountExact
    CapabilitySpentOnce
    RepeatsOverlap
PROPERTIES
    VerifiedAgainstLiveState
CHECK_DEADLOCK FALSE
