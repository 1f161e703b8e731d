SPECIFICATION PublishingSpec
\* the clicks are bounded
CHECK_DEADLOCK FALSE
CONSTANTS
    alice = alice
    bob = bob
    Proposals = {1, 2}
    Tickers = {"T"}
    Users = {alice, bob}
    Pages = {1, 2}
    RequestedStatuses = {"none", "paused"}
    RequestedTxs = {0, 1}
    Openings <- MCOpenings
    MaxInFlight = 2
    MaxTxs = 2
    MaxInputs = 4
INVARIANTS
    PublishedIsRegistered
    OneProposalPerIndex
    DeletedStaysDeleted
