\* TransRecall implements RecallService with duplicate events, addJob
\* exceptions and store errors that unwind an execution; no getEvents()
\* replay, and the shutdown waits for running executions.
CONSTANTS
    f1 = f1  f2 = f2  f3 = f3  t1 = t1  t2 = t2  JunkTape = JunkTape
    Files = {f1, f2}
    Tapes = {t1, t2}
    FileTape <- MCFileTape
    StartBlock <- MCStartBlock
    FileSize <- MCFileSize
    MaxEvents = 2
    MaxThreads = 2
    MaxGetEventsErrors = 0
    DupEvents = TRUE
    AddJobError = TRUE
    StoreErrors = TRUE
    IntHeadroom = 2
SPECIFICATION Spec
CHECK_DEADLOCK FALSE
INVARIANT SuccessMeansRecalled
PROPERTY ImplementsService
