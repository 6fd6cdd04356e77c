CONSTANTS
    t1 = t1
    t2 = t2
    t3 = t3
    a = a
    b = b
    c = c
    NoTxn = NoTxn
    Txn = {t1, t2, t3}
    Key = {a, b, c}
    Batch <- MCBatch
SPECIFICATION FairSpec
INVARIANTS
    OneVisibleRowPerKey
    SeenKeyHasSession
    DuplicateHasOriginal
    EveryRowAccounted
PROPERTIES
    EveryCopyEnds
    ImplementsStore
\* All transactions end.
CHECK_DEADLOCK FALSE
