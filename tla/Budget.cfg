\* A budget of one effect at a time; leases end while executors run.
SPECIFICATION QuietSpec
CONSTANTS
    Contracts = {"c1"}
    Proposals = {"p1"}
    ProposalIds = {"p1"}
    OpKeys = {"key"}
    Identities = {"worker", "verifier"}
    Capabilities = {k1, k2}
    Reservations = {r1, r2}
    Calls = {f1}
    None = None
    ProposedBy <- MCProposedBy
    Nominated <- MCNominated
    ContractExpiry <- MCContractExpiry
    FullCeiling = {"c1"}
    Covers <- MCCovers
    Allowlist <- MCCovers
    IdOf <- MCIdOf
    Author <- MCAuthor
    OpKey <- MCOpKey
    Trusts <- MCTrusts
    Registry = {"verifier"}
    CanRun = {"verifier"}
    FullTrust = {"verifier"}
    Concurrency = 1
    LeaseTTL = 1
    CapabilityTTLs = {2}
    VerdictTTLs = {2}
    MaxTime = 3
SYMMETRY Symmetry
INVARIANT ConcurrencyEnforced
CHECK_DEADLOCK FALSE
