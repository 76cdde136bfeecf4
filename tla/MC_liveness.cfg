\* Progress: every event read is answered and request rows drain, under
\* weak fairness of the receiver, pool, scheduler, executors and shutdown.
CONSTANTS
    f1 = f1  f2 = f2  f3 = f3  t1 = t1  t2 = t2  JunkTape = JunkTape
    Files = {f1, f2, f3}
    Tapes = {t1, t2}
    FileTape <- MCFileTape
    StartBlock <- MCStartBlock
    FileSize <- MCFileSize
    MaxEvents = 2
    MaxThreads = 2
    MaxGetEventsErrors = 0
    DupEvents = FALSE
    AddJobError = FALSE
    StoreErrors = FALSE
    IntHeadroom = 2
SPECIFICATION Spec
CHECK_DEADLOCK FALSE
PROPERTIES EveryEventAnswered RequestsDrain
