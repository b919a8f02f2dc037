CONSTANTS
    p = p
    q = q
    big = big
    Payload = {p, q, big}
    frame_len <- MCFrameLen
    MaxFrame = 2
    Batch <- MCBatch
    Hole = Hole
    SyncErrorDropsDirty = TRUE
    MaxAppends = 3
SPECIFICATION Spec
INVARIANT AckedSurvive
