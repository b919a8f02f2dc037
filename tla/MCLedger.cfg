CONSTANTS
    AccountId = {a1, a2}
    TransferId = {t1, t2, t3}
    NoTransfer = NoTransfer
    Scale = {s1, s2}
    MaxAmount = 3
    MaxTimestamp = 1
    DebugAssertions = FALSE
    InputAmount = {1, 2}
    InputFlags <- MCPresetFlags
    InputLink <- MCAnyLink
    MaxJournal = 5
SPECIFICATION Spec
INVARIANTS 
    TypeOK LimitsRespected AuditPasses HoldSettledOnce PostedBacked  ReplayRebuilds
PROPERTIES HistoryKept
SYMMETRY Symmetry
