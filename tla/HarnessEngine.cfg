\* One effect at a time (the default budget); two capabilities, of one operation key or of two.
SPECIFICATION FullVerdictSpec
CONSTANTS
    Contracts = {"c1"}
    Proposals = {p1, p2}
    ProposalIds = {p1, p2}
    OpKeys = {p1, p2}
    Identities = {"worker", "verifier"}
    Capabilities = {k1, k2}
    Reservations = {r1, r2}
    Calls = {f1}
    None = None
    ProposedBy <- MCProposedBy
    Nominated <- MCNominated
    ContractExpiry <- MCContractExpiry
    FullCeiling = {"c1"}
    Covers <- MCCovers
    Allowlist <- MCCovers
    IdOf <- MCIdOf
    Author <- MCAuthor
    OpKey <- MCOwnKey
    Trusts <- MCTrusts
    Registry = {"verifier"}
    CanRun = {"verifier"}
    FullTrust = {"verifier"}
    Concurrency = 1
    LeaseTTL = 1
    CapabilityTTLs = {2}
    VerdictTTLs = {3}
    MaxTime = 3
SYMMETRY AnyProposal
INVARIANTS
    TypeOK
    NoFalseCommit
PROPERTIES
    CommittedInTime
    KeyCommittedOnce
    OneTimeCapabilities
    EffectsGoverned
CHECK_DEADLOCK FALSE
