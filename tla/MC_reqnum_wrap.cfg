\* globalReqNumber starts at INT_MAX (after 2^31 - 1 requests of the
\* server's lifetime): the next request number no longer fits the int
\* reqNum of the Scheduler, execRequest and processFiles.
CONSTANTS
    f1 = f1  f2 = f2  f3 = f3  t1 = t1  t2 = t2  JunkTape = JunkTape
    Files = {f1}
    Tapes = {t1}
    FileTape <- MCFileTape
    StartBlock <- MCStartBlock
    FileSize <- MCFileSize
    MaxEvents = 1
    MaxThreads = 1
    MaxGetEventsErrors = 0
    DupEvents = FALSE
    AddJobError = FALSE
    StoreErrors = FALSE
    IntHeadroom = 0
SPECIFICATION Spec
CHECK_DEADLOCK FALSE
PROPERTY EveryEventAnswered
