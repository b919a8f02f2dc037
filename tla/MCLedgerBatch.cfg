CONSTANTS
    bank = bank
    cust = cust
    t1 = t1
    t2 = t2
    hold1 = hold1
    s1 = s1
    AccountId = {bank, cust}
    TransferId = {t1, t2, hold1}
    NoTransfer = NoTransfer
    Scale = {s1}
    MaxAmount = 2
    MaxTimestamp = 1
    DebugAssertions = FALSE
    Batch <- MCBatch
    TxBatch <- MCTxBatch
    TransferBatch <- MCTransferBatch
    MaxJournal = 6
SPECIFICATION Spec
INVARIANTS TransactionsIsolated FreshEventsCommit CommittedOnce ReplayRebuilds
PROPERTIES BatchIsAtomic
