\* END may fail with the transaction left open (SQLITE_BUSY) or rolled back
\* (SQLITE_FULL): a plain statement that ran inside it returned success
\* but is never committed.
CONSTANTS
    a1 = a1  a2 = a2  a3 = a3  w1 = w1  w2 = w2  NoOwner = NoOwner
    TxUsers = {a1, a2, a3}
    Writers = {w1, w2}
    EndKeepsTx = TRUE
    EndRollsBack = TRUE
SPECIFICATION Spec
CHECK_DEADLOCK FALSE
PROPERTY AckedWritesDurable
