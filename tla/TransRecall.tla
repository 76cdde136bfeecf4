----------------------------- MODULE TransRecall -----------------------------
(***************************************************************************)
(* Transparent recall core of LTFS Data Management (server/TransRecall.cc). *)
(*                                                                         *)
(* Actors and their shared state:                                          *)
(*  - the RecallD receiver thread (TransRecall::run) reads recall events,  *)
(*    answers trivial ones and hands the rest to the "trec-wq" pool;       *)
(*  - the pool workers (TransRecall::addJob) insert a JOB_QUEUE row and,   *)
(*    under Scheduler::mtx, create or re-activate the REQUEST_QUEUE row;   *)
(*  - the Scheduler (outside this file; only its contract is modelled)     *)
(*    starts TransRecall::execRequest for a REQ_NEW request whose tape is  *)
(*    free;                                                                *)
(*  - one executor per tape (processFiles, recall, execRequest) claims,    *)
(*    recalls, deletes and answers the jobs, then re-queues or deletes the *)
(*    request;                                                             *)
(*  - shutdown: Server::terminate, Server::forcedTerminate and             *)
(*    Connector::connectorTerminate, then cleanupEvents.                   *)
(* The two SQLite tables are sets of records; each SQL statement is one    *)
(* atomic step, as SQLITE_OPEN_FULLMUTEX serialises statements.            *)
(***************************************************************************)
EXTENDS Integers, FiniteSets, Sequences, SequencesExt

CONSTANTS
    Files,              \* files that can be touched (model values)
    Tapes,              \* tape cartridges (model values)
    JunkTape,           \* value of an uninitialised mig_attr_t tape id
    FileTape,           \* Files -> Tapes: first tape id in the file's attributes
    StartBlock,         \* Files -> Nat: start block of the file on its tape
    FileSize,           \* Files -> {0, 1}: empty or non-empty file
    MaxEvents,          \* bound on the recall events the connector sends
    MaxThreads,         \* Const::MAX_TRANSPARENT_RECALL_THREADS
    MaxGetEventsErrors, \* bound on exceptions thrown by connector->getEvents()
    DupEvents,          \* may a file get a new event while one is unanswered
    AddJobError,        \* may FsObj calls in addJob throw (file gone, EIO)
    StoreErrors,        \* may a statement of processFiles/execRequest fail (SQLITE_FULL, IOERR)
    IntHeadroom         \* request numbers an int still holds above the counter's start

ASSUME
    /\ FileTape \in [Files -> Tapes]
    /\ StartBlock \in [Files -> Nat]
    /\ FileSize \in [Files -> {0, 1}]
    /\ JunkTape \notin Tapes
    /\ MaxEvents \in Nat /\ MaxThreads \in Nat \ {0} /\ MaxGetEventsErrors \in Nat
    /\ {DupEvents, AddJobError, StoreErrors} \subseteq BOOLEAN
    /\ IntHeadroom \in Nat

EvIds == 1..MaxEvents

\* FsObj::file_state, plus GARBAGE for an uninitialised `int state` in addJob
MIG == "MIGRATED"
PREMIG == "PREMIGRATED"
RES == "RESIDENT"
RMIG == "RECALLING_MIG"
RPREMIG == "RECALLING_PREMIG"
GARBAGE == "GARBAGE"
Recalling == {RMIG, RPREMIG}
JobState == {MIG, PREMIG, RES, RMIG, RPREMIG, GARBAGE}

\* DataBase::req_state
REQ_NEW == "REQ_NEW"
REQ_INPROGRESS == "REQ_INPROGRESS"

VARIABLES
    fileState,          \* FsObj::getMigState() of every file
    events,             \* every event the connector sent: [file, toresident]
    inbox,              \* event ids sent but not yet read by getEvents()
    received,           \* event ids the receiver has read (history)
    recinfo,            \* run()'s local recinfo: last event read, 0 if none
    getEvErrs,          \* number of getEvents() exceptions so far
    reqmap,             \* run()'s reqmap: Tapes -> request number, 0 = absent
    globalReqNumber,    \* the global request counter
    tasks,              \* addJob tasks of the pool, with their progress
    nTasks,             \* tasks enqueued so far (task ids)
    jobs,               \* JOB_QUEUE rows of operation TRARECALL
    requests,           \* REQUEST_QUEUE rows of operation TRARECALL
    exec,               \* per tape: the execRequest running on it, if any
    answered,           \* EvIds -> number of respondRecallEvent calls
    succeeded,          \* event ids answered with success
    terminate,          \* Server::terminate
    forcedTerminate,    \* Server::forcedTerminate
    connectorTerminate, \* Connector::connectorTerminate
    cleanedUp           \* run() has finished cleanupEvents

recvVars == <<events, inbox, received, recinfo, getEvErrs, reqmap, globalReqNumber, nTasks>>
storeVars == <<jobs, requests>>
flagVars == <<terminate, forcedTerminate, connectorTerminate, cleanedUp>>
respVars == <<answered, succeeded>>
vars == <<fileState, recvVars, tasks, storeVars, exec, respVars, flagVars>>

Target(e) == IF events[e].toresident THEN RES ELSE PREMIG

TaskRec == [id : Nat, ev : EvIds, tape : Tapes, req : Nat,
            pc : {"queued", "insert", "upsert"}, st : JobState,
            atape : Tapes \cup {JunkTape}, blk : Nat]
JobRec == [ev : EvIds, file : Files, req : Nat, tape : Tapes, state : JobState,
           tgt : {RES, PREMIG}, blk : Nat]
ReqRec == [req : Nat, tape : Tapes \cup {JunkTape}, state : {REQ_NEW, REQ_INPROGRESS}]
ExecRec == [pc : {"idle", "claim", "recall", "respond", "finish", "unwound"}, req : Int,
            todo : Seq(JobRec), resp : SUBSET (EvIds \X BOOLEAN)]

TypeOK ==
    /\ fileState \in [Files -> {MIG, PREMIG, RES}]
    /\ events \in Seq([file : Files, toresident : BOOLEAN]) /\ Len(events) <= MaxEvents
    /\ recinfo \in 0..MaxEvents
    /\ reqmap \in [Tapes -> 0..Cardinality(Tapes)]
    /\ globalReqNumber \in 0..Cardinality(Tapes)
    /\ tasks \subseteq TaskRec
    /\ jobs \subseteq JobRec
    /\ requests \subseteq ReqRec
    /\ exec \in [Tapes -> ExecRec]
    /\ answered \in [EvIds -> Nat]
    /\ succeeded \subseteq EvIds

Idle == [pc |-> "idle", req |-> 0, todo |-> <<>>, resp |-> {}]

Init ==
    /\ fileState \in [Files -> {MIG, PREMIG}]
    /\ events = <<>>
    /\ inbox = <<>>
    /\ received = {}
    /\ recinfo = 0
    /\ getEvErrs = 0
    /\ reqmap = [t \in Tapes |-> 0]
    /\ globalReqNumber = 0
    /\ tasks = {}
    /\ nTasks = 0
    /\ jobs = {}
    /\ requests = {}
    /\ exec = [t \in Tapes |-> Idle]
    /\ answered = [e \in EvIds |-> 0]
    /\ succeeded = {}
    /\ terminate = FALSE
    /\ forcedTerminate = FALSE
    /\ connectorTerminate = FALSE
    /\ cleanedUp = FALSE

(***************************************************************************)
(* Connector::respondRecallEvent for each <<event, success>> pair of S.     *)
(***************************************************************************)
Respond(S) ==
    /\ answered' = [e \in EvIds |-> answered[e] + Cardinality({p \in S : p[1] = e})]
    /\ succeeded' = succeeded \cup {p[1] : p \in {q \in S : q[2]}}

(***************************************************************************)
(* Connector: an application touches a non-resident file; the connector    *)
(* sends a recall event and blocks the application until it is answered.   *)
(***************************************************************************)
Access(f, toresident) ==
    /\ Len(events) < MaxEvents
    /\ ~connectorTerminate
    /\ fileState[f] # RES
    /\ DupEvents \/ \A e \in 1..Len(events) : events[e].file = f => answered[e] > 0
    /\ events' = Append(events, [file |-> f, toresident |-> toresident])
    /\ inbox' = Append(inbox, Len(events) + 1)
    /\ UNCHANGED <<fileState, received, recinfo, getEvErrs, reqmap, globalReqNumber,
                   nTasks, tasks, storeVars, exec, respVars, flagVars>>

(***************************************************************************)
(* run(): reqmap[tapeId] = ++globalReqNumber on the first use of a tape.    *)
(* Request numbers are counted from the value globalReqNumber had when     *)
(* the server started: n stands for that value plus n.                     *)
(***************************************************************************)
AllocReqEveryEvent(t) ==
    /\ reqmap' = [reqmap EXCEPT ![t] = globalReqNumber + 1]
    /\ globalReqNumber' = globalReqNumber + 1

AllocReq(t) ==
    IF reqmap[t] = 0
    THEN /\ reqmap' = [reqmap EXCEPT ![t] = globalReqNumber + 1]
         /\ globalReqNumber' = globalReqNumber + 1
    ELSE UNCHANGED <<reqmap, globalReqNumber>>

(***************************************************************************)
(* The body of run()'s loop for event e: answer it when terminating, when  *)
(* the file is resident or its attributes cannot be read; otherwise take  *)
(* the first tape of its attributes and enqueue an addJob task.            *)
(***************************************************************************)
HandleEvent(e) ==
    LET f == events[e].file IN
    \/ /\ terminate
       /\ Respond({<<e, FALSE>>})
       /\ UNCHANGED <<reqmap, globalReqNumber, tasks, nTasks>>
    \/ /\ ~terminate
       /\ fileState[f] = RES
       /\ Respond({<<e, TRUE>>})
       /\ UNCHANGED <<reqmap, globalReqNumber, tasks, nTasks>>
    \/ /\ ~terminate                     \* FsObj(), finishRecall() or
       /\ Respond({<<e, FALSE>>})          \* getAttribute() throws
       /\ UNCHANGED <<reqmap, globalReqNumber, tasks, nTasks>>
    \/ /\ ~terminate
       /\ fileState[f] # RES
       /\ AllocReq(FileTape[f])
       /\ tasks' = tasks \cup
            {[id |-> nTasks + 1, ev |-> e, tape |-> FileTape[f],
              req |-> reqmap'[FileTape[f]], pc |-> "queued", st |-> GARBAGE,
              atape |-> FileTape[f], blk |-> 0]}
       /\ nTasks' = nTasks + 1
       /\ UNCHANGED respVars

\* getEvents() returns the next event
Receive ==
    /\ ~connectorTerminate
    /\ inbox # <<>>
    /\ inbox' = Tail(inbox)
    /\ recinfo' = Head(inbox)
    /\ received' = received \cup {Head(inbox)}
    /\ HandleEvent(Head(inbox))
    /\ UNCHANGED <<fileState, events, getEvErrs, storeVars, exec, flagVars>>

\* getEvents() throws; the exception is logged and the loop goes on with
\* the recinfo of the previous iteration
ReceiveFailed ==
    /\ ~connectorTerminate
    /\ recinfo # 0
    /\ getEvErrs < MaxGetEventsErrors
    /\ getEvErrs' = getEvErrs + 1
    /\ HandleEvent(recinfo)
    /\ UNCHANGED <<fileState, events, inbox, received, recinfo, storeVars, exec, flagVars>>

-----------------------------------------------------------------------------
(***************************************************************************)
(* TransRecall::addJob, in three steps: the FsObj reads, the JOB_QUEUE      *)
(* insert, and the request upsert under Scheduler::mtx.                    *)
(***************************************************************************)
Running == {w \in tasks : w.pc # "queued"}

\* stat, getMigState, getAttribute, getTapeName; a resident file is answered.
\* If one of them throws, the catch block logs and falls through to the
\* insert with whatever `state`, `attr` and `tapeName` then hold.
AddJobStat(w) ==
    LET f == events[w.ev].file IN
    /\ w.pc = "queued"
    /\ Cardinality(Running) < MaxThreads
    /\ \/ /\ fileState[f] = RES
          /\ Respond({<<w.ev, TRUE>>})
          /\ tasks' = tasks \ {w}
       \/ /\ fileState[f] # RES
          /\ tasks' = (tasks \ {w}) \cup {[w EXCEPT !.pc = "insert", !.st = fileState[f],
                                                     !.atape = FileTape[f], !.blk = StartBlock[f]]}
          /\ UNCHANGED respVars
       \/ /\ AddJobError
          /\ \E st \in {fileState[f], GARBAGE}, at \in {FileTape[f], JunkTape},
                blk \in {StartBlock[f], 0} :
                tasks' = (tasks \ {w}) \cup {[w EXCEPT !.pc = "insert", !.st = st, !.atape = at, !.blk = blk]}
          /\ UNCHANGED respVars
    /\ UNCHANGED <<fileState, recvVars, storeVars, exec, flagVars>>

\* ADD_JOB; the UNIQUE (FS_ID, I_GEN, I_NUM, REPL_NUM) constraint rejects a
\* second job for the same file and stmt.doall() throws out of addJob.
UidTaken(f) == \E j \in jobs : j.file = f

AddJobInsert(w) ==
    LET f == events[w.ev].file IN
    /\ w.pc = "insert"
    /\ \/ /\ UidTaken(f)
          /\ tasks' = tasks \ {w}
          /\ UNCHANGED jobs
       \/ /\ ~UidTaken(f)
          /\ jobs' = jobs \cup {[ev |-> w.ev, file |-> f, req |-> w.req, tape |-> w.tape,
                                 state |-> w.st, tgt |-> Target(w.ev), blk |-> w.blk]}
          /\ tasks' = (tasks \ {w}) \cup {[w EXCEPT !.pc = "upsert"]}
    /\ UNCHANGED <<fileState, recvVars, requests, exec, respVars, flagVars>>

\* Under Scheduler::mtx: CHECK_REQUEST_EXISTS by request number, then either
\* CHANGE_REQUEST_TO_NEW for (reqNum, tapeId) or ADD_REQUEST with the tape
\* id from the attributes (attr.tapeId[0]); then cond.notify_one().
AddJobRequestNoAdd(w) ==
    /\ w.pc = "upsert"
    /\ requests' = {IF r.req = w.req /\ r.tape = w.tape THEN [r EXCEPT !.state = REQ_NEW] ELSE r
                    : r \in requests}
    /\ tasks' = tasks \ {w}
    /\ UNCHANGED <<fileState, recvVars, jobs, exec, respVars, flagVars>>

AddJobRequest(w) ==
    /\ w.pc = "upsert"
    /\ requests' =
         IF \E r \in requests : r.req = w.req
         THEN {IF r.req = w.req /\ r.tape = w.tape THEN [r EXCEPT !.state = REQ_NEW] ELSE r
               : r \in requests}
         ELSE requests \cup {[req |-> w.req, tape |-> w.atape, state |-> REQ_NEW]}
    /\ tasks' = tasks \ {w}
    /\ UNCHANGED <<fileState, recvVars, jobs, exec, respVars, flagVars>>

-----------------------------------------------------------------------------
(***************************************************************************)
(* Scheduler contract: a REQ_NEW request whose cartridge is mounted and     *)
(* whose drive is free is set to REQ_INPROGRESS and execRequest runs for   *)
(* it; no new request is scheduled once Server::terminate is set.          *)
(***************************************************************************)
\* The long request number n as the int Scheduler::reqNum and the int
\* parameters of execRequest and processFiles hold it: past the int range
\* it wraps to a negative number, which no REQ_NUM column holds (-n keeps
\* those numbers distinct and negative).
Narrow(n) == IF n <= IntHeadroom THEN n ELSE -n

Schedule(r) ==
    /\ ~terminate
    /\ r.state = REQ_NEW
    /\ r.tape \in Tapes
    /\ exec[r.tape].pc = "idle"
    /\ requests' = (requests \ {r}) \cup {[r EXCEPT !.state = REQ_INPROGRESS]}
    /\ exec' = [exec EXCEPT ![r.tape] = [Idle EXCEPT !.pc = "claim", !.req = Narrow(r.req)]]
    /\ UNCHANGED <<fileState, recvVars, tasks, jobs, respVars, flagVars>>

-----------------------------------------------------------------------------
(***************************************************************************)
(* processFiles: SET_RECALLING for migrated and for premigrated jobs, then *)
(* SELECT_JOBS of the claimed jobs ordered by START_BLOCK.                 *)
(***************************************************************************)
IsOf(j, rq, t) == j.req = rq /\ j.tape = t

\* SET_RECALLING: the jobs of (reqNum, tapeId) in state from go to state to
SetRecalling(J, rq, t, from, to) ==
    {IF IsOf(j, rq, t) /\ j.state = from THEN [j EXCEPT !.state = to] ELSE j : j \in J}

BlockOrder(a, b) == a.blk < b.blk \/ (a.blk = b.blk /\ a.ev < b.ev)

ExecClaim(t) ==
    LET rq == exec[t].req
        claimed == SetRecalling(SetRecalling(jobs, rq, t, MIG, RMIG), rq, t, PREMIG, RPREMIG)
    IN /\ exec[t].pc = "claim"
       /\ jobs' = claimed
       /\ exec' = [exec EXCEPT ![t].pc = "recall",
                     ![t].todo = SetToSortSeq({j \in claimed : IsOf(j, rq, t) /\ j.state \in Recalling},
                                              BlockOrder)]
       /\ UNCHANGED <<fileState, recvVars, tasks, requests, respVars, flagVars>>

(***************************************************************************)
(* TransRecall::recall: the state recall() acts on, and the outcomes        *)
(* <<success, new file state>> it can produce.                             *)
(***************************************************************************)
\* the state the job was claimed in (processFiles)
FromState(j) == IF j.state = RMIG THEN MIG ELSE PREMIG

\* variant that trusts the claimed state and ignores the observed one
RecallStateNoDrift(j) == FromState(j)

\* the observed state replaces a drifted one
RecallState(j) ==
    IF fileState[j.file] # FromState(j) THEN fileState[j.file] ELSE FromState(j)

RecallOutcomes(j) ==
    LET cur == fileState[j.file]
        st == RecallState(j)
        \* any FsObj call, open, read or a short write throws
        failed == {[ok |-> FALSE, fs |-> cur]}
        \* finishRecall(RESIDENT) done, remAttribute() throws
        remAttrFailed(to) == IF to = RES THEN {[ok |-> FALSE, fs |-> RES]} ELSE {}
        \* MIGRATED: tape size may differ from the file size; the tape size
        \* is used and the target is forced to RESIDENT; the copy loop
        \* throws when forcedTerminate is set and there is data to copy
        fromTape ==
          UNION {LET size == IF mismatch THEN 1 - FileSize[j.file] ELSE FileSize[j.file]
                     to == IF mismatch THEN RES ELSE j.tgt
                 IN IF size > 0 /\ forcedTerminate THEN {}
                    ELSE {[ok |-> TRUE, fs |-> to]} \cup remAttrFailed(to)
                 : mismatch \in BOOLEAN}
    IN failed \cup
       CASE st = RES -> {[ok |-> TRUE, fs |-> cur]}
         [] st = MIG -> fromTape
         [] OTHER -> {[ok |-> TRUE, fs |-> j.tgt]} \cup remAttrFailed(j.tgt)

\* one iteration of processFiles' SELECT_JOBS loop
ExecRecall(t) ==
    LET j == Head(exec[t].todo) IN
    /\ exec[t].pc = "recall"
    /\ exec[t].todo # <<>>
    /\ \E o \in RecallOutcomes(j) :
         /\ fileState' = [fileState EXCEPT ![j.file] = o.fs]
         /\ exec' = [exec EXCEPT ![t].todo = Tail(@), ![t].resp = @ \cup {<<j.ev, o.ok>>}]
    /\ UNCHANGED <<recvVars, tasks, storeVars, respVars, flagVars>>

\* DELETE_JOBS: the claimed jobs of (reqNum, tapeId)
ExecDeleteKeep(t) ==
    /\ exec[t].pc = "recall"
    /\ exec[t].todo = <<>>
    /\ exec' = [exec EXCEPT ![t].pc = "respond"]
    /\ UNCHANGED <<fileState, recvVars, tasks, storeVars, respVars, flagVars>>

ExecDelete(t) ==
    /\ exec[t].pc = "recall"
    /\ exec[t].todo = <<>>
    /\ jobs' = {j \in jobs : ~(IsOf(j, exec[t].req, t) /\ j.state \in Recalling)}
    /\ exec' = [exec EXCEPT ![t].pc = "respond"]
    /\ UNCHANGED <<fileState, recvVars, tasks, requests, respVars, flagVars>>

\* respondRecallEvent for every entry of resplist
ExecRespond(t) ==
    /\ exec[t].pc = "respond"
    /\ Respond(exec[t].resp)
    /\ exec' = [exec EXCEPT ![t].pc = "finish", ![t].resp = {}]
    /\ UNCHANGED <<fileState, recvVars, tasks, storeVars, flagVars>>

(***************************************************************************)
(* execRequest after processFiles, under Scheduler::mtx: the cartridge is  *)
(* mounted and its drive free again; COUNT_REMAINING_JOBS decides between  *)
(* CHANGE_REQUEST_TO_NEW and DELETE_REQUEST.                               *)
(***************************************************************************)
RequeueOrDelete(rq, t, remaining) ==
    IF remaining
    THEN {IF IsOf(r, rq, t) THEN [r EXCEPT !.state = REQ_NEW] ELSE r : r \in requests}
    ELSE {r \in requests : ~IsOf(r, rq, t)}

ExecFinishAlwaysDelete(t) ==
    /\ exec[t].pc = "finish"
    /\ requests' = RequeueOrDelete(exec[t].req, t, FALSE)
    /\ exec' = [exec EXCEPT ![t] = Idle]
    /\ UNCHANGED <<fileState, recvVars, tasks, jobs, respVars, flagVars>>

ExecFinishAlwaysRequeue(t) ==
    /\ exec[t].pc = "finish"
    /\ requests' = RequeueOrDelete(exec[t].req, t, TRUE)
    /\ exec' = [exec EXCEPT ![t] = Idle]
    /\ UNCHANGED <<fileState, recvVars, tasks, jobs, respVars, flagVars>>

ExecFinish(t) ==
    /\ exec[t].pc = "finish"
    /\ requests' = RequeueOrDelete(exec[t].req, t, \E j \in jobs : IsOf(j, exec[t].req, t))
    /\ exec' = [exec EXCEPT ![t] = Idle]
    /\ UNCHANGED <<fileState, recvVars, tasks, jobs, respVars, flagVars>>

(***************************************************************************)
(* A statement of processFiles or execRequest fails and stmt throws; the   *)
(* exception leaves execRequest. In processFiles that is before the drive  *)
(* is set free, so the cartridge stays in use and nothing is scheduled on  *)
(* it again; the responses collected so far are lost with resplist.        *)
(***************************************************************************)
ExecStoreError(t) ==
    /\ StoreErrors
    /\ \/ /\ exec[t].pc = "claim"          \* the first or second SET_RECALLING
          /\ jobs' \in {jobs, SetRecalling(jobs, exec[t].req, t, MIG, RMIG)}
       \/ /\ exec[t].pc = "recall"         \* a SELECT_JOBS step or DELETE_JOBS
          /\ UNCHANGED jobs
    /\ exec' = [exec EXCEPT ![t] = [Idle EXCEPT !.pc = "unwound"]]
    /\ UNCHANGED <<fileState, recvVars, tasks, requests, respVars, flagVars>>

\* COUNT_REMAINING_JOBS or the re-queue/delete fails after the drive is free:
\* the request stays REQ_INPROGRESS
FinishStoreError(t) ==
    /\ StoreErrors
    /\ exec[t].pc = "finish"
    /\ exec' = [exec EXCEPT ![t] = Idle]
    /\ UNCHANGED <<fileState, recvVars, tasks, storeVars, respVars, flagVars>>

-----------------------------------------------------------------------------
(***************************************************************************)
(* Shutdown. The server sets Server::terminate (and, for a forced stop,    *)
(* Server::forcedTerminate) and later Connector::connectorTerminate; run() *)
(* then leaves its loop, waits for the pool (wqr.waitCompletion) and       *)
(* cleanupEvents answers every TRARECALL job still in JOB_QUEUE with       *)
(* failure. connectorTerminate waits for the running executions, as the    *)
(* specification promises (the wait is outside this file).                *)
(***************************************************************************)
Stop ==
    /\ ~terminate
    /\ terminate' = TRUE
    /\ UNCHANGED <<fileState, recvVars, tasks, storeVars, exec, respVars,
                   forcedTerminate, connectorTerminate, cleanedUp>>

ForcedStop ==
    /\ terminate /\ ~forcedTerminate
    /\ forcedTerminate' = TRUE
    /\ UNCHANGED <<fileState, recvVars, tasks, storeVars, exec, respVars,
                   terminate, connectorTerminate, cleanedUp>>

ConnectorStop ==
    /\ terminate /\ ~connectorTerminate
    /\ \A t \in Tapes : exec[t].pc \in {"idle", "unwound"}
    /\ connectorTerminate' = TRUE
    /\ UNCHANGED <<fileState, recvVars, tasks, storeVars, exec, respVars,
                   terminate, forcedTerminate, cleanedUp>>

\* run() that goes to cleanupEvents without waiting for the pool
PoolNotWaited == TRUE

\* run() after its loop: endTransRecalls(), then wqr.waitCompletion()
PoolDrained == tasks = {}

CleanupEvents ==
    /\ connectorTerminate /\ ~cleanedUp
    /\ PoolDrained
    /\ Respond({<<j.ev, FALSE>> : j \in jobs})
    /\ cleanedUp' = TRUE
    /\ UNCHANGED <<fileState, recvVars, tasks, storeVars, exec,
                   terminate, forcedTerminate, connectorTerminate>>

-----------------------------------------------------------------------------
Next ==
    \/ \E f \in Files, b \in BOOLEAN : Access(f, b)
    \/ Receive
    \/ ReceiveFailed
    \/ \E w \in tasks : AddJobStat(w) \/ AddJobInsert(w) \/ AddJobRequest(w)
    \/ \E r \in requests : Schedule(r)
    \/ \E t \in Tapes : ExecClaim(t) \/ ExecRecall(t) \/ ExecDelete(t)
                        \/ ExecRespond(t) \/ ExecFinish(t)
                        \/ ExecStoreError(t) \/ FinishStoreError(t)
    \/ Stop \/ ForcedStop \/ ConnectorStop \/ CleanupEvents

(***************************************************************************)
(* The receiver, the pool workers, the scheduler and the executors are     *)
(* threads that run whenever they can; the shutdown sequence, once begun,  *)
(* completes. Applications (Access), getEvents() and store errors and the *)
(* decision to stop are the environment and are not fair.                  *)
(***************************************************************************)
Fairness ==
    /\ WF_vars(Receive)
    /\ \A i \in 1..MaxEvents + MaxGetEventsErrors :
         WF_vars(\E w \in tasks : w.id = i /\ (AddJobStat(w) \/ AddJobInsert(w) \/ AddJobRequest(w)))
    /\ \A t \in Tapes :
         /\ WF_vars(\E r \in requests : r.tape = t /\ Schedule(r))
         /\ WF_vars(ExecClaim(t) \/ ExecRecall(t) \/ ExecDelete(t) \/ ExecRespond(t) \/ ExecFinish(t))
    /\ WF_vars(ConnectorStop)
    /\ WF_vars(CleanupEvents)

Spec == Init /\ [][Next]_vars /\ Fairness

-----------------------------------------------------------------------------
(***************************************************************************)
(* Properties                                                              *)
(***************************************************************************)

\* Each recall event is answered at most once: the executor's responses,
\* run()'s immediate answers and cleanupEvents never answer the same event
\* twice (a second respondRecallEvent on a finished connector context).
AtMostOneResponse == \A e \in EvIds : answered[e] <= 1

\* A success answer means the file really is at the requested state or
\* resident, now and later: recall() never reports success for a file it
\* left migrated, and no later recall of the same file moves it back.
SuccessMeansRecalled ==
    \A e \in succeeded : fileState[events[e].file] \in {RES, Target(e)}

\* All jobs bound to the same tape share one request number and jobs of
\* different tapes never do (run()'s reqmap coalesces per tape).
CoalescedPerTape ==
    \A j1, j2 \in jobs : (j1.tape = j2.tape) <=> (j1.req = j2.req)

\* Every job whose addJob has finished has a REQUEST_QUEUE row with its
\* request number and tape, so the scheduler will eventually start it:
\* execRequest never deletes a request while jobs of it remain.
JobHasRequest ==
    \A j \in jobs :
        (\E w \in tasks : w.ev = j.ev /\ w.pc = "upsert")
        \/ \E r \in requests : r.req = j.req /\ r.tape = j.tape

\* Spec section 3, invariant 2: a request in REQ_NEW has at least one job.
NoEmptyNewRequest ==
    \A r \in requests : r.state = REQ_NEW => \E j \in jobs : IsOf(j, r.req, r.tape)

\* Every event the receiver reads is eventually answered.
EveryEventAnswered ==
    \A e \in EvIds : [](e \in received => <>(answered[e] > 0))

\* Once cleanupEvents has run, every event the receiver read has been
\* answered: by run() at once, by addJob for a resident file, by its
\* execution, or by cleanup from the jobs left in JOB_QUEUE, also when an
\* execution was unwound by a store error and its responses were lost.
AnsweredByShutdown ==
    cleanedUp => \A e \in received : answered[e] > 0

\* Request rows do not linger: eventually the REQUEST_QUEUE holds no
\* transparent recall request, unless the server is shutting down.
RequestsDrain == <>[](terminate \/ requests = {})

\* The whole core implements the service applications see (RecallService):
\* every step of receiver, pool, executors and cleanup is a call, a file
\* moving towards the disk, the replies to calls not yet replied to (a
\* success only for a file at its wanted state), or invisible to them.
Service == INSTANCE RecallService WITH calls <- events, replies <- answered, granted <- succeeded

ImplementsService == Service!Spec


=============================================================================
