CONSTANTS
    MaxBatch = 2
    MaxSeq = 4
    EndNumbers = {1, 2}
    SnapshotDatagrams <- MCSnapshotDatagrams
SPECIFICATION FairSpec
INVARIANTS DeliveredPrefix OneBehind
PROPERTIES RecoveryIsForever EventuallyDelivered
CHECK_DEADLOCK FALSE
