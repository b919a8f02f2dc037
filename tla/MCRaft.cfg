CONSTANTS
    opening = opening
    payment = payment
    Node = {1, 2, 3}
    Founder = 1
    Currency = usd
    Client = {opening, payment}
    Request <- MCRequest
    Split <- MCSplit
    MaxRetries = 2
    LogsSinceLast = 4
    MaxTerm = 2
    MaxFaults = 1
    Isolated = {2}
    AccountId = {1, 2}
    TransferId = {1, 2}
    NoTransfer = 0
    Scale = {usd}
    MaxAmount = 2
    MaxTimestamp = 2
    DebugAssertions = FALSE
SPECIFICATION Spec
INVARIANTS AnsweredIsKept ReplicasAgree
CHECK_DEADLOCK FALSE
