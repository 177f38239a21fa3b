\* One effect whose executor outlives its lease.
SPECIFICATION QuietSpec
CONSTANTS
    Contracts = {"c1"}
    Proposals = {"p1"}
    ProposalIds = {"p1"}
    OpKeys = {"key"}
    Identities = {"worker", "verifier"}
    Capabilities = {k1}
    Reservations = {r1}
    Calls = {f1}
    None = None
    ProposedBy <- MCProposedBy
    Nominated <- MCNominated
    ContractExpiry <- MCContractExpiry
    FullCeiling = {"c1"}
    Covers <- MCCovers
    Allowlist <- MCCovers
    IdOf <- MCIdOf
    Author <- MCAuthor
    OpKey <- MCOpKey
    Trusts <- MCTrusts
    Registry = {"verifier"}
    CanRun = {"verifier"}
    FullTrust = {"verifier"}
    Concurrency = 1
    LeaseTTL = 1
    CapabilityTTLs = {2}
    VerdictTTLs = {2}
    MaxTime = 2
INVARIANT FailedCompletionIsAmbiguous
CHECK_DEADLOCK FALSE
