----------------------------- MODULE QueueStore -----------------------------
(***************************************************************************)
(* The store's transaction primitive (DataBase::beginTransaction and       *)
(* DataBase::endTransaction) on the one process-wide SQLite handle.        *)
(*                                                                         *)
(*  - Transaction users (callers outside the sources, e.g. migration) each *)
(*    run beginTransaction, their statements, endTransaction. The static   *)
(*    trans_mutex is taken before BEGIN and given back on BEGIN's error    *)
(*    path and after END, before END's result is checked.                  *)
(*  - Plain writers run one autocommit statement on the same handle        *)
(*    without the mutex, as TransRecall's ADD_JOB does. SQLite is opened   *)
(*    with SQLITE_OPEN_FULLMUTEX, so their statement runs between the      *)
(*    transaction users' statements and, while a transaction is open on    *)
(*    the handle, inside it.                                               *)
(*                                                                         *)
(* SQLite's side: BEGIN fails while the handle is in a transaction; END    *)
(* commits, or fails and leaves the transaction open (SQLITE_BUSY), or     *)
(* fails and rolls it back (SQLITE_FULL, SQLITE_IOERR).                    *)
(***************************************************************************)
EXTENDS FiniteSets

CONSTANTS
    TxUsers,        \* threads using beginTransaction/endTransaction
    Writers,        \* threads issuing one autocommit statement
    NoOwner,        \* trans_mutex is free
    EndKeepsTx,     \* may END fail and leave the transaction open
    EndRollsBack    \* may END fail and roll the transaction back

ASSUME NoOwner \notin TxUsers /\ {EndKeepsTx, EndRollsBack} \subseteq BOOLEAN

VARIABLES
    owner,      \* holder of DataBase::trans_mutex
    pc,         \* TxUsers -> "begin" | "stmt" | "end" | "done"
    inTx,       \* the handle is inside BEGIN ... END
    pending,    \* writes of the open transaction (users and writers)
    durable,    \* committed writes
    lost,       \* writes a rollback discarded
    acked       \* writers whose statement returned SQLITE_DONE

qvars == <<owner, pc, inTx, pending, durable, lost, acked>>

Writes == TxUsers \cup Writers

Init ==
    /\ owner = NoOwner
    /\ pc = [t \in TxUsers |-> "begin"]
    /\ inTx = FALSE
    /\ pending = {}
    /\ durable = {}
    /\ lost = {}
    /\ acked = {}

\* beginTransaction whose error path keeps trans_mutex
BeginTransactionKeepLock(t) ==
    /\ pc[t] = "begin"
    /\ owner = NoOwner
    /\ \/ /\ ~inTx
          /\ inTx' = TRUE
          /\ owner' = t
          /\ pc' = [pc EXCEPT ![t] = "stmt"]
       \/ /\ inTx
          /\ owner' = t
          /\ pc' = [pc EXCEPT ![t] = "done"]
          /\ UNCHANGED inTx
    /\ UNCHANGED <<pending, durable, lost, acked>>

\* trans_mutex.lock(); BEGIN TRANSACTION; on error unlock and throw
BeginTransaction(t) ==
    /\ pc[t] = "begin"
    /\ owner = NoOwner
    /\ \/ /\ ~inTx
          /\ inTx' = TRUE
          /\ owner' = t
          /\ pc' = [pc EXCEPT ![t] = "stmt"]
       \/ /\ inTx                       \* cannot start a transaction within a transaction
          /\ pc' = [pc EXCEPT ![t] = "done"]
          /\ UNCHANGED <<owner, inTx>>
    /\ UNCHANGED <<pending, durable, lost, acked>>

\* the caller's statements between begin and end
TxStatement(t) ==
    /\ pc[t] = "stmt"
    /\ pending' = pending \cup {t}
    /\ pc' = [pc EXCEPT ![t] = "end"]
    /\ UNCHANGED <<owner, inTx, durable, lost, acked>>

\* END TRANSACTION with result rc: SQLITE_OK commits; SQLITE_BUSY leaves
\* the transaction open; SQLITE_FULL or SQLITE_IOERR rolls it back
EndResults == {"OK"} \cup (IF EndKeepsTx THEN {"BUSY"} ELSE {})
                     \cup (IF EndRollsBack THEN {"FULL"} ELSE {})

EndExec(rc) ==
    CASE rc = "OK" -> /\ durable' = durable \cup pending
                      /\ pending' = {} /\ inTx' = FALSE /\ UNCHANGED lost
      [] rc = "BUSY" -> UNCHANGED <<pending, inTx, durable, lost>>
      [] rc = "FULL" -> /\ lost' = lost \cup pending
                        /\ pending' = {} /\ inTx' = FALSE /\ UNCHANGED durable

\* endTransaction that throws on an error before unlocking trans_mutex
EndTransactionThrowFirst(t) ==
    /\ pc[t] = "end"
    /\ \E rc \in EndResults :
         /\ EndExec(rc)
         /\ owner' = IF rc = "OK" THEN NoOwner ELSE owner
    /\ pc' = [pc EXCEPT ![t] = "done"]
    /\ UNCHANGED acked

\* END TRANSACTION; trans_mutex.unlock(); then throw if END failed
EndTransaction(t) ==
    /\ pc[t] = "end"
    /\ \E rc \in EndResults : EndExec(rc)
    /\ owner' = NoOwner
    /\ pc' = [pc EXCEPT ![t] = "done"]
    /\ UNCHANGED acked

\* a single autocommit statement, or a statement of whatever transaction
\* is open on the handle
PlainWrite(w) ==
    /\ w \notin acked
    /\ IF inTx THEN /\ pending' = pending \cup {w} /\ UNCHANGED durable
               ELSE /\ durable' = durable \cup {w} /\ UNCHANGED pending
    /\ acked' = acked \cup {w}
    /\ UNCHANGED <<owner, pc, inTx, lost>>

Next ==
    \/ \E t \in TxUsers : BeginTransaction(t) \/ TxStatement(t) \/ EndTransaction(t)
    \/ \E w \in Writers : PlainWrite(w)

\* every thread runs when it can; trans_mutex is the only wait
Spec == Init /\ [][Next]_qvars
             /\ \A t \in TxUsers : WF_qvars(BeginTransaction(t) \/ TxStatement(t) \/ EndTransaction(t))
             /\ \A w \in Writers : WF_qvars(PlainWrite(w))

-----------------------------------------------------------------------------
\* trans_mutex is never leaked: whoever holds it is between a successful
\* BEGIN and its END, on the error paths of both calls included.
TransMutexNotLeaked == owner # NoOwner => pc[owner] \in {"stmt", "end"}

\* Every transaction user gets past endTransaction, whatever BEGIN and END
\* return: no thread waits forever on trans_mutex.
AllTransactionsFinish == <>(\A t \in TxUsers : pc[t] = "done")

\* Every autocommit statement that returned success is eventually
\* committed: a transaction another thread opened on the shared handle
\* neither stays open for ever nor takes the statement with it when it
\* fails (spec 4.1: a store error is rolled back; 9: single statements
\* need no transaction).
AckedWritesDurable == \A w \in Writers : [](w \in acked => <>(w \in durable))

=============================================================================
