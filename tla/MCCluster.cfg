CONSTANTS
    cust1 = cust1
    cust2 = cust2
    Vault = Vault
    AccountId = {Vault, cust1, cust2}
    TransferId = {1, 2, 3, 51, 52}
    NoTransfer = NoTransfer
    Scale = {s1}
    MaxAmount = 4
    MaxTimestamp = 20
    DebugAssertions = FALSE
    n1 = n1
    n2 = n2
    n3 = n3
    Node = {n1, n2, n3}
    First = n1
    Customers <- MCCustomers
    InitialBalance = 1
    Route <- MCRoute
    Kinds = {"CreatePending", "PostPending"}
    SeedId = 50
    Epoch = 10
    None = None
    Torn = Torn
    Candidates = {n2}
    Deposed = {n1}
    Victims = {n1}
    MaxHolds = 1
    MaxIndex = 2
    MaxTerm = 2
    MaxRestarts = 1
    MaxNow = 1
CHECK_DEADLOCK FALSE
SPECIFICATION Spec
INVARIANTS LogAgreement RecoveryExact Conservation OneLeaderPerTerm
