\* Two contracts of one worker: superseded, rejected, ending at different times.
SPECIFICATION LiveSpec
CONSTANTS
    Contracts = {"c1", "c2"}
    Proposals = {"p1"}
    ProposalIds = {"p1"}
    OpKeys = {"key"}
    Identities = {"worker", "verifier"}
    Capabilities = {k1}
    Reservations = {r1}
    Calls = {f1}
    None = None
    ProposedBy <- MCProposedBy
    Nominated <- MCNominated
    ContractExpiry <- MCContractExpiry
    FullCeiling = {"c1", "c2"}
    Covers <- MCCovers
    Allowlist <- MCCovers
    IdOf <- MCIdOf
    Author <- MCAuthor
    OpKey <- MCOpKey
    Trusts <- MCTrusts
    Registry = {"verifier"}
    CanRun = {"verifier"}
    FullTrust = {"verifier"}
    Concurrency = 1
    LeaseTTL = 1
    CapabilityTTLs = {1, 2}
    VerdictTTLs = {1}
    MaxTime = 2
INVARIANTS
    AuthorityChain
PROPERTIES
    StartedUnderRatified
    RefusalIsFinal
    LeasesEnd
CHECK_DEADLOCK FALSE
