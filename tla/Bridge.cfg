SPECIFICATION FairSpec
CONSTANTS
    MaxSends = 3
    MaxTracked = 2
    MaxPending = 1
    MaxRevision = 2
    MaxLosses = 1
INVARIANTS TypeOK HonestUnlessOutrun ChangesOncePerRevision ReplyIsAwaited
PROPERTIES LostChangeStopsTheSession TableUnblocks
CHECK_DEADLOCK FALSE
