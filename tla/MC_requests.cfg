\* Request bookkeeping with duplicate events, a getEvents() failure that
\* replays the previous event and store errors that unwind an execution;
\* addJob's FsObj calls do not throw. The two files share tape t1, where
\* requests are re-queued, re-created and left REQ_INPROGRESS; one pool
\* thread keeps the run small.
CONSTANTS
    f1 = f1  f2 = f2  f3 = f3  t1 = t1  t2 = t2  JunkTape = JunkTape
    Files = {f1, f2}
    Tapes = {t1, t2}
    FileTape <- MCFileTape
    StartBlock <- MCStartBlock
    FileSize <- MCFileSize
    MaxEvents = 2
    MaxThreads = 1
    MaxGetEventsErrors = 1
    DupEvents = TRUE
    AddJobError = FALSE
    StoreErrors = TRUE
    IntHeadroom = 2
SPECIFICATION Spec
CHECK_DEADLOCK FALSE
INVARIANTS TypeOK JobHasRequest
