CONSTANTS
    operator = operator
    Key = {operator}
    NoKey = NoKey
    RailKey = operator
    MaxHeight = 2
    MaxSettled = 2
    AccountId = {1, 2, 101, 201}
    TransferId = {1, 2, 3, 4, 5, 6, 7, 8, 9, 10, 101}
    NoTransfer = 0
    Scale = {usdc}
    MaxAmount = 8
    MaxTimestamp = 12
    DebugAssertions = FALSE
    Scenario <- MCScenario
    Workers = 2
    Customers <- MCCustomers
    Merchants <- MCMerchants
    InitialDeposit = 2
    FreshnessWindow = 2
    SeedDeposit = 2
    Seeds <- MCSeeds
    SimulatedDrift = 5
SPECIFICATION FairSpec
INVARIANTS  SettlementExact OneHoldPerKey VerifiedIsSettled
PROPERTY KeysResolved
