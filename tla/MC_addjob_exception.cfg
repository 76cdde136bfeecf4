\* An exception in addJob's FsObj calls leaves attr uninitialised; ADD_REQUEST uses attr.tapeId[0].
CONSTANTS
    f1 = f1  f2 = f2  f3 = f3  t1 = t1  t2 = t2  JunkTape = JunkTape
    Files = {f1, f2, f3}
    Tapes = {t1, t2}
    FileTape <- MCFileTape
    StartBlock <- MCStartBlock
    FileSize <- MCFileSize
    MaxEvents = 2
    MaxThreads = 2
    MaxGetEventsErrors = 0
    DupEvents = FALSE
    AddJobError = TRUE
    StoreErrors = FALSE
    IntHeadroom = 2
SPECIFICATION Spec
CHECK_DEADLOCK FALSE
INVARIANTS JobHasRequest
