\* Safety of responses and coalescing, and answers at shutdown, with addJob
\* exceptions and store errors that unwind an execution; the shutdown waits
\* for running executions. No duplicate events, whose loss the
\* duplicate_event run shows.
CONSTANTS
    f1 = f1  f2 = f2  f3 = f3  t1 = t1  t2 = t2  JunkTape = JunkTape
    Files = {f1, f2, f3}
    Tapes = {t1, t2}
    FileTape <- MCFileTape
    StartBlock <- MCStartBlock
    FileSize <- MCFileSize
    MaxEvents = 2
    MaxThreads = 2
    MaxGetEventsErrors = 0
    DupEvents = FALSE
    AddJobError = TRUE
    StoreErrors = TRUE
    IntHeadroom = 2
SPECIFICATION Spec
CHECK_DEADLOCK FALSE
INVARIANTS AtMostOneResponse CoalescedPerTape AnsweredByShutdown
