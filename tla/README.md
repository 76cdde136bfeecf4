# TLA+ model of the LTFS-DM transparent recall core

This project models `src/src/server/TransRecall.cc` with TLA+ and checks it with TLC. The file holds
`TransRecall` (lines 1-532), the `DataBase` store (533-790) and the `Scheduler` declaration (791-845).

| Module | Models |
|---|---|
| `RecallService.tla` | the abstract promise to applications: calls, files moving towards the disk, one reply per call |
| `TransRecall.tla` (with `MC.tla`) | receiver, writer pool, scheduler contract, executors, shutdown; refines `RecallService` |
| `QueueStore.tla` (with `MC_QueueStore.tla`) | `beginTransaction`/`endTransaction`, `trans_mutex` and the shared SQLite handle |
| `Fits.tla` | the `FITS` SQL function, checked against a first-fit reference |

## 1. Inventory

### Components

| Component | Code | State it keeps | Operations |
|---|---|---|---|
| Event Receiver ("RecallD" thread) | `TransRecall::run`, `cleanupEvents` | local `recinfo`, `reqmap` (tape → request number), global `globalReqNumber` | read an event (`getEvents`); answer it at once when terminating, when the file is resident, or when its attributes cannot be read; allocate the tape's request number; enqueue `addJob`; at shutdown wait for the pool, then answer every remaining job with failure |
| Job Writer Pool (`trec-wq`, at most `MAX_TRANSPARENT_RECALL_THREADS`) | `TransRecall::addJob` | per task: event, tape, request number; the values read from `FsObj` | stat and read the state and attributes (resident → answer success); `ADD_JOB`; under `Scheduler::mtx` `CHECK_REQUEST_EXISTS`, then `CHANGE_REQUEST_TO_NEW` or `ADD_REQUEST`; notify |
| Queue Store (SQLite) | `DataBase` | `JOB_QUEUE` and `REQUEST_QUEUE` rows; unique constraints | statements (serialised by `SQLITE_OPEN_FULLMUTEX`), begin/end transaction, `FITS` (used by migration) |
| Request Scheduler | `Scheduler` (only the header is in the sources) | `Scheduler::mtx`, `cond` | start `execRequest` for a `REQ_NEW` request whose tape and drive are free, setting it `REQ_INPROGRESS` |
| Recall Executor | `processFiles`, `recall`, `execRequest` | per execution: its claimed jobs in start-block order and the response list | `SET_RECALLING` (claim); `SELECT_JOBS` by start block; per job `recall()`; `DELETE_JOBS`; answer every job; under `Scheduler::mtx` free the drive, then `COUNT_REMAINING_JOBS` → re-queue (`REQ_NEW`) or `DELETE_REQUEST` |
| Connector, inventory, file objects | outside the sources | event socket, cartridges and drives, file migration state | the model includes only their contracts |

### How the components interact

The receiver and the workers share `reqmap` only through the enqueued arguments. Workers and
executors share the two tables. The request upsert (worker) and the finish step (executor) run under
`Scheduler::mtx`. The job insert (worker) and the claim, select and delete (executor) do not.
Executors answer events through the connector, and so does `cleanupEvents` at shutdown. Three flags
drive shutdown: `Server::terminate`, `Server::forcedTerminate` and `Connector::connectorTerminate`.

### What is hard

- Interleavings of a worker's insert and upsert with an execution of the same request.
- State that goes stale: the file state `addJob` reads is used much later; after a `getEvents()`
  exception, `run()` handles the previous `recinfo` again.
- Partial failures: the `addJob` catch block falls through with uninitialised values, and so do a
  unique-constraint failure, a forced stop mid-copy and a `remAttribute` failure after
  `finishRecall`. A failing store statement in `processFiles` unwinds `execRequest` before the
  drive is freed and loses the responses collected so far.
- Shutdown ordering: cleanup can run alongside executions.

### What makes each component correct

- **Receiver and cleanup**: each event is answered exactly once (`AtMostOneResponse`,
  `EveryEventAnswered`). Once cleanup has run, every event read has been answered, even when
  store errors unwound executions (`AnsweredByShutdown`).
- **Writers and executor, together**:
  - each job keeps a request row that will run it (`JobHasRequest`);
  - jobs are coalesced per tape (`CoalescedPerTape`);
  - request rows drain (`RequestsDrain`);
  - the spec's "no `REQ_NEW` request without jobs" holds (`NoEmptyNewRequest`, violated).
- **Executor**: a success answer means the file is at its target state (`SuccessMeansRecalled`).
  Request numbers survive the narrowing from `long` to `int`: an execution answers the
  request it was given, so every event is answered (`EveryEventAnswered`, violated once the
  counter passes `INT_MAX`).
- **The whole core**: it implements the abstract service (`ImplementsService`).
- **Store transactions**: `trans_mutex` is held only inside a transaction (`TransMutexNotLeaked`).
  Every user gets through (`AllTransactionsFinish`). A statement that returned success is eventually
  committed (`AckedWritesDurable`, violated).
- **FITS**: it selects the first-fit rows and keeps exact counters (`FitsIsFirstFit`).

The hazards are listed one by one in `PROJECT.json` under "hazards".

## 2. The model (`TransRecall.tla`)

| Code | Model |
|---|---|
| file migration state (`FsObj::getMigState`) | `fileState` |
| connector events and socket | `events`, `inbox`; `Access` is an application touching a non-resident file |
| `recinfo`, `reqmap`, `globalReqNumber` | variables of the same names; `AllocReq` |
| `run()` loop body | `HandleEvent`, via `Receive` or `ReceiveFailed` (getEvents threw) |
| `addJob` | the `tasks` records, taking `AddJobStat`, then `AddJobInsert`, then `AddJobRequest` |
| `JOB_QUEUE`, `REQUEST_QUEUE` | `jobs`, `requests` (sets of rows) |
| scheduler | `Schedule` (spec-modelled contract) |
| `processFiles` / `recall` / `execRequest` | `exec[t]`, stepping through `ExecClaim`, `ExecRecall` (one job each), `ExecDelete`, `ExecRespond` and `ExecFinish`; `ExecStoreError` and `FinishStoreError` when a statement throws |
| `respondRecallEvent` | `Respond`: counts answers per event (`answered`) and records successes (`succeeded`) |
| shutdown | `Stop`, `ForcedStop`, `ConnectorStop` (spec-modelled), then `CleanupEvents` |

Each SQL statement is one atomic step. Each `Scheduler::mtx` critical section is one step. The
receiver's loop body is one step: its only effects are at the end (an answer or an enqueue). The
byte-copy loop of `recall()` becomes its set of outcomes (`RecallOutcomes`):
- state drift is taken into account;
- a size mismatch forces the target to `RESIDENT`;
- the forced stop fails the copy of a non-empty file;
- any I/O or `FsObj` error fails the job;
- `remAttribute` can fail after `finishRecall`.

Uninitialised values in the `addJob` catch path (`int state`, `attr.tapeId[0]`, `tapeName`) are a
nondeterministic choice. The state can be the real one or `GARBAGE`, the tape the real one or
`JunkTape`, and the block the real one or 0.

Three constants switch on behaviour that real environments have but that breaks some properties:
- `DupEvents`: a new event for a file whose event is unanswered;
- `AddJobError`: `FsObj` calls in `addJob` throw;
- `StoreErrors`: a statement of `processFiles` or `execRequest` fails (`SQLITE_FULL`, `SQLITE_IOERR`)
  and `stmt` throws out of `execRequest`. In `processFiles` (`ExecStoreError`), the failing
  statement is one of the two `SET_RECALLING`s (the first may have run), a `SELECT_JOBS` step or
  `DELETE_JOBS`. The execution ends in `unwound`: the drive is not freed, so nothing is scheduled on
  the tape again, and the responses collected so far are lost. In the final step (`FinishStoreError`)
  the drive is already free and the request stays `REQ_INPROGRESS`. What the scheduler thread does
  with the exception is outside the sources; the model assumes it frees nothing;
- `MaxGetEventsErrors`: `getEvents` throws;
- `IntHeadroom`: how many request numbers fit before the counter passes `INT_MAX` (2 in the
  passing runs, so no wrap happens; 0 in `reqnum_wrap`);

Each passing run states which of them it enables.

### Fairness

`Spec` assumes weak fairness for these threads: the receiver, each pool task, the scheduler for each
tape, each tape's executor, and the shutdown steps once `terminate` is set. Nothing in these threads
blocks except on the mutex, which the model makes atomic. The scheduler's contract is that it runs a
`REQ_NEW` request once the tape is free. Applications (`Access`), `getEvents` and store errors and
the decision to stop are the environment and get no fairness. `ConnectorStop` waits until every
executor is idle or unwound.

### Bounds (`MC.tla`)

`MC.tla` uses three files and two tapes:
- `f1` (start block 2) and `f2` (block 1, empty) on `t1`, so a request coalesces two jobs whose
  start-block order differs from their arrival order, and the zero-byte path is taken;
- `f3` on `t2`, so two executions can run concurrently.

Two events are enough for every hazard listed: two jobs on one request, two events for one file, and
a second event for the same tape arriving while the first one runs. Three events exceed the
five-minute budget (over 20M states). The `requests` run uses only `f1` and `f2`, both on `t1`, with one pool thread: its question is per tape. The runs reach between 0.26M and 2.7M distinct states.

`CHECK_DEADLOCK FALSE`: with a bounded number of events, every behaviour ends with all threads idle.
The real receiver then blocks in `getEvents()`, which is the normal quiescent state, not a deadlock.
Progress is checked by the liveness run instead.

## 2b. The abstract service and the refinement (`RecallService.tla`)

`RecallService` has four variables: `fileState`, `calls`, `replies` (per call, a count) and
`granted`. It has three actions:
- `Call`: an application blocks on a non-resident file.
- `Stage`: a file moves strictly towards the disk (migrated → premigrated → resident).
- `Reply(C, ok)`: a set of calls with no reply yet gets one. Those in `ok` succeed, which needs the
  file to be resident or at the wanted state.

`TransRecall` defines `Service == INSTANCE RecallService WITH calls <- events, replies <- answered,
granted <- succeeded`; `fileState`, `Files` and `MaxEvents` map to themselves. `ImplementsService`
(`Service!Spec`) is checked as a PROPERTY. Every concrete step maps to one abstract step, or to a
stutter:
- `Access` is a call.
- `ExecRecall` changes a file and is a `Stage`, or a stutter when the state is unchanged.
- `Respond` in the receiver, pool, executor and cleanup is a `Reply`.

A second answer to an event raises `replies` from 1 to 2, which no abstract step allows. A file that
moves back (a recall acting on a stale state) is not a `Stage`. The abstract spec has safety only.
The liveness half ("every call is answered") is `EveryEventAnswered` on the concrete model: it fails
with duplicate events, so it is not part of what the core implements in general.

## 2c. The store (`QueueStore.tla`, `Fits.tla`)

`QueueStore` has transaction users (`TxUsers`) and plain writers (`Writers`):
- A transaction user calls `BeginTransaction`, then `TxStatement`, then `EndTransaction`. These are
  the callers outside the sources, such as migration.
- A plain writer makes one autocommit statement (`PlainWrite`). This is how every `TransRecall`
  statement goes through `sqlite3_statement::prepare/step` on `DB.getDB()`.

`BeginTransaction` is `lock`, `BEGIN` and, on error, unlock and throw, all as one step. While it
holds the mutex nothing else can observe the intermediate state. `EndTransaction` is `END`, unlock,
then throw. SQLite's side is a contract:
- `BEGIN` fails inside a transaction;
- `END` commits (`OK`), fails and keeps the transaction open (`BUSY`, enabled by `EndKeepsTx`), or
  fails and rolls it back (`FULL`, enabled by `EndRollsBack`).

`pending`, `durable` and `lost` hold which writes are in the open transaction, committed, or rolled
back. `MC_QueueStore` has three users and two writers. That is enough for a user to wait on the
mutex while another holds it, and for a writer to land inside a transaction. Fairness is weak per
thread: the mutex is the only wait.

`Fits` models one call of `DataBase::fits` as the operator `Fits(size, c)` on the three counters.
The query's evaluation row by row is the action `ScanRow`. `FirstFit` is the reference: the unique
set in which a row is taken exactly when it fits into what the earlier taken rows leave. `Init`
enumerates every input of up to three rows (sizes 0..2) and every initial free space 0..3, so exact
fits, zero sizes and rows that stop fitting all occur.

## 3. Runs

| Run | Expect | Checks | Shows |
|---|---|---|---|
| `safety` | pass | `AtMostOneResponse`, `CoalescedPerTape`, `AnsweredByShutdown` | with `addJob` exceptions, store errors, forced stop and graceful shutdown (3.4M states): no event is answered twice, jobs share one request number per tape, and cleanup answers every event that an unwound execution or a stuck request left behind. Duplicate events are off: their loss is the `duplicate_event` finding |
| `requests` | pass | `TypeOK`, `JobHasRequest` | with a replayed event, duplicate events and store errors: every job whose `addJob` finished has a request row, so `execRequest` never drops a request with jobs left |
| `liveness` | pass | `EveryEventAnswered`, `RequestsDrain` | every event read is answered, and request rows drain unless the server stops |
| `empty_new_request` | violation | `NoEmptyNewRequest` | the insert outside the mutex lets a worker re-create a `REQ_NEW` request after the execution already served and deleted its job |
| `stale_event_replay` | violation | `AtMostOneResponse` | a `getEvents()` exception replays the previous event, which is answered twice. The replay can also re-create the job of an event already answered. The application's retry then fails the unique constraint and is never answered, not even by cleanup (found while checking `AnsweredByShutdown` with replays) |
| `duplicate_event` | violation | `EveryEventAnswered` | a second event for a file whose job is queued fails the unique constraint and is never answered |
| `addjob_exception` | violation | `JobHasRequest` | after an `addJob` exception the request row carries an uninitialised tape id and the job never runs |
| `refinement` | pass | `SuccessMeansRecalled`, `ImplementsService` | with duplicate events, `addJob` exceptions, store errors, forced and graceful stop (files `f1`, `f2` on one tape): a success means the file reached its target even when the state drifted, and the core implements `RecallService` |
| `reqnum_wrap` | violation | `EveryEventAnswered` | with the `long` counter already at `INT_MAX` (`IntHeadroom = 0`), the next request number becomes negative in the `int` parameter of `processFiles`/`execRequest`; the execution selects no job and marks no request, so the request and its job stay `REQ_INPROGRESS` and the event is never answered |
| `fits` | pass | `TypeOK`, `FitsIsFirstFit` | `FITS` is first-fit with exact counters on every small input |
| `transactions` | pass | `TransMutexNotLeaked`, `AllTransactionsFinish` | under every `BEGIN`/`END` outcome the mutex is released and every user finishes |
| `write_not_durable` | violation | `AckedWritesDurable` | a plain statement that ran inside another thread's transaction returned success and is never committed: after `SQLITE_BUSY` no `ROLLBACK` ends the transaction, and after `SQLITE_FULL` it is rolled back with it |

Every property of a passing run has a mutant in `PROJECT.json`. It is a faulty variant of a mapped
definition, defined just before it, that TLC must catch:
- jobs not deleted;
- the observed state ignored;
- a request number allocated per event;
- the request always deleted, or always re-queued;
- the request never added;
- cleanup run without waiting for the pool (`wqr.waitCompletion` left out);
- the file state read before the recall trusted (refinement);
- `FITS` with `>` for `>=`, or without its comparison;
- `beginTransaction` keeping the mutex on its error path;
- `endTransaction` throwing before it unlocks.

## 4. Not modelled (yet)

- `run()`'s setup (lines 217-252): the early return when `initTransRecalls` fails, and the
  registration of managed file systems. `Init` is the state after a successful setup.
- A `getEvents()` exception before any event was read: `run()` then handles a default-constructed
  `recinfo`. `ReceiveFailed` needs an earlier event.
- The connector's internals, the tape inventory (mount, drive lookup, `assert(found)`) and `FsObj`:
  outside the sources.
- `DataBase::open`, `cleanup` and most of `createTables`: set-up. Only the unique constraint on a
  file's job is modelled (`UidTaken`). `opStr`, `reqStateStr` and `lastUpdates` are formatting and
  queries. `checkRcAndFinalize` is error plumbing.
- The statements a transaction user runs between `BEGIN` and `END` (the callers are outside the
  sources). A failure of one of them is not modelled either, because what the caller then does is not
  in the sources.
- Non-regular files (`addJob` returns without answering). The spec documents this as intended, so
  events are for regular files only.
- The exact value of a wrapped request number. TLC's integers are 32-bit signed, so the model
  counts request numbers as offsets: number `n` stands for `globalReqNumber`'s start value plus
  `n`, and `IntHeadroom` is how far that start is below `INT_MAX`. `Narrow` maps an offset past
  the headroom to a negative number that no row carries, which is all the tables can tell apart.
- The forced stop does not stop `processFiles`: it never reads `forcedTerminate`, so jobs claimed
  before the stop still call `recall()`, and the copy of a non-empty file fails. The spec (sections
  7 and 8) says no further job starts. The model keeps the code's behaviour, and the safety and
  refinement runs cover it. No run checks the spec's sentence, because the project is at its limit
  of twelve runs and the wrap-around above is the more serious defect.
- The termination sentinel (`conn_info == NULL`) and events with `inum == 0`: `run()` skips both
  without an answer or any state change, so they are stuttering steps.
- When `connectorTerminate` is set. `run()` waits only for the pool before `cleanupEvents`, and
  nothing in the sources waits for running executions. The model takes the spec's order
  (`ConnectorStop` only once every executor is idle). If the connector stopped earlier, claimed jobs
  would be answered twice.
- A process crash: a crashed server answers nothing, and the store is not replayed.

## 5. Plan

1. **Done**: `TransRecall` core (receiver, pool, executor, scheduler contract, shutdown).
2. **Done**: `RecallService` and the refinement run.
3. **Done**: the `int` narrowing of request numbers (`Narrow`, the `reqnum_wrap` run). The forced
   stop divergence is written down above and is not checked by a run.
4. **Done**: `QueueStore` (transactions on the shared handle) and `Fits`.
5. **Done**: store errors in the executor (`StoreErrors`), checked for safety and refinement.
   `AnsweredByShutdown` checks that cleanup answers the `RECALLING_*` jobs such an error leaves
   behind, which is the concern of spec scenario 6. 
6. Scale: the refinement on three files with one pool thread (2.4M states, over two minutes).
   Three events take nine minutes for the requests run on three files; with replays on, every
   run above two events is too large.
