\* Three transaction users and two plain writers; END may commit, fail
\* with the transaction left open, or fail with a rollback.
CONSTANTS
    a1 = a1  a2 = a2  a3 = a3  w1 = w1  w2 = w2  NoOwner = NoOwner
    TxUsers = {a1, a2, a3}
    Writers = {w1, w2}
    EndKeepsTx = TRUE
    EndRollsBack = TRUE
SPECIFICATION Spec
CHECK_DEADLOCK FALSE
INVARIANTS TransMutexNotLeaked
PROPERTY AllTransactionsFinish
