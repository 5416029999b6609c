# A TLA+ verification of Textify

Textify accepts links to videos over HTTP, stores each as a *Transcription Job*
in PostgreSQL, and has GPU worker processes fetch captions or audio and
transcribe it. The hard part of the program is not transcription but
coordination: an API process, a reconciler, a Redis/Celery broker and several
workers act on the same rows, any of them may die or be slow, native inference
cannot be stopped, and clients retry and cancel whenever they like. This
directory models that coordination, and what one job does between its URL and
its stored result, checks both with TLC and proves their safety properties with
TLAPS.

Every module is translated from the Python source; `PROJECT.json` maps each
definition to its lines. Names of actions are the names of the methods where
TLA+ allows it.

## 1. Inventory

| Component | State it keeps | Operations | Modelled by |
|---|---|---|---|
| Job store, `jobs/repository.py` | `transcription_job` and its idempotency, exclusion, result rows; claim and publication columns of the execution attempt | `create_queued`, `expire_queued_jobs`, `claim_dispatch`, `heartbeat_claims`, `recover_expired_claims`, `delete_expired_terminal_jobs`, `request_cancellation`, `publish_*`, `get_job`, the three dispatch-lease methods | `TranscriptionJob`, `JobStore`, `PgSessions`, `JobDispatch` |
| Claim manager and processor, `jobs/claim_manager.py`, `jobs/processor.py` | registered claims, pending count, lost set, drained event, heartbeat task | `claim`, `release`, `stop_accepting`, `shutdown`, `_monitor`, `process` | `ClaimManager` |
| Reconciler and dispatcher, `jobs/reconciler.py`, `jobs/dispatch.py` | lease owner id, position in the scan; messages in the broker | `reconcile_once`, `run`, `publish`, worker deliveries | `JobDispatch` |
| Executor and Whisper acquirer, `transcription/service.py`, `transcription/acquisition.py` | provider threads, media directories, inference permits, abandoned native work, the model | `execute`, `acquire`, `_retain_abandoned_native_work`, `shutdown`; `acquire_transcript`, `_download_audio` | `NativeWork` (several executions), `CaptionSearch` and `SourceWork` (one execution in detail) |
| Source inspection, `transcription/inspection.py`, `transcription/util.py` | a private directory while it measures a duration | `classify_submitted_url`, `canonical_url`, `extract`, `extract_info_with_retries`, `normalize_processed_metadata` | `SourceUrl`, `ProviderRetry`, `SourceWork` |
| Results, `transcription/types.py`, `transcription/schemas.py` and the result rows of the store | result and segment rows | `normalize_transcript`, `project_transcription`, `_result_values`, reading back | `TranscriptResult`, `SourceWork` |
| GPU ownership, `jobs/gpu_ownership.py` | host lock descriptor, retained session, model-ready flag | `acquire`, `can_claim`, `release` | `GpuWorkers` |
| Worker runtime, `jobs/worker.py` | loop thread, started/ready flags, resources | `start`, `process_payload`, `stop_claiming`, `shutdown`, rollback, `_run_worker_loop` | `GpuWorkers` (resources), `WorkerLoop` (threads) |
| Service heartbeats, `jobs/readiness.py` | heartbeat row, periodic task | `start`, `pulse`, `stop`, `fresh_roles`, `is_ready` | `GpuWorkers`, `ApiService` |
| API service, `jobs/service.py`, `main.py`, `ops.py` | one lock, one availability latch, ready flag | `submit`, `get_status`, `cancel`, `health`, lifespan | `ApiService` |
| Router, response schemas, configuration, migrations, logging | none, or constants | pure translations | not modelled (section 7) |

How they interact: the API writes queued jobs; the reconciler leases due
dispatches, publishes them to the broker and records that; a worker's pool
thread receives a dispatch and submits a coroutine to the worker's event loop,
where the processor claims the job through the claim manager, runs the executor
and publishes an outcome; the claim manager's monitor renews leases and carries
cancellations back; the reconciler recovers jobs whose lease ran out. A worker
may claim only while it owns the GPU, and its readiness row is what `/health`
of the API looks at.

What is hard here: statements of different transactions interleave (not every
repository method takes the lifecycle lock); state is read before an `await`
and used after it; deliveries are lost, repeated and late; leases expire under
slow owners; processes crash between two calls; provider threads answer after
their deadline; shutdown runs while all of that is in progress. The list with
lines is `hazards` in `PROJECT.json`.

## 2. Modules

- **`TranscriptionJob`**, the abstract specification: what a client may see
  happen to a job (`unsubmitted`, `queued`, `processing`, three outcomes,
  `deleted`), that an accepted cancellation decides the outcome, and that no
  more than `Capacity` jobs are outstanding. It knows no time, owner or order.
- **`JobStore`**: the rows. One action per repository method, at the instant
  its transaction reads the clock. `expire_queued_jobs` and
  `recover_expired_claims` take the set of rows that `SKIP LOCKED` skips as a
  parameter. `starts` is a history variable. A refinement mapping
  (`phaseView`, `cancellingView`) instantiates `TranscriptionJob`. `get_job` is
  an operator of the state, because it writes nothing: the retention test, then
  the row decoders (`Decodes`), then the answer a client sees.
- **`PgSessions`** extends `JobStore`: the same methods as READ COMMITTED
  transactions, one step per SQL statement. A session keeps its uncommitted row
  versions in `tx`; the rows in them are locked for everybody else until commit
  or rollback; a serialized method holds the advisory lock from its first
  statement. Expiry and heartbeats do not. `mismatch` collects the methods whose
  own row-count check has failed.
- **`ClaimManager`**: the coroutines of one worker between awaits. A store call
  inside an `await` is two steps (the store commits, the answer arrives), and
  the answer may be lost.
- **`JobDispatch`**: reconcilers, publication leases, broker and deliveries.
  Deadlines are reduced to whether they have passed. Jobs are numbered in
  submission order.
- **`NativeWork`**: executions of one worker: threads that cannot be stopped,
  media, permits, ownership hand-over to the finalizer, model unloading.
- **`GpuWorkers`**: several worker processes, the host lock of each lock
  directory, the advisory lock that lives in a retained session, the heartbeat
  task with its probe, startup rollback and shutdown step by step.
- **`WorkerLoop`**: main thread, loop thread and pool threads of one process,
  with asyncio's callback queue.
- **`SourceUrl`**: `classify_submitted_url` and `canonical_url` as functions of
  a URL that is already split into host, path segments and query fields.
- **`ProviderRetry`**: the retry loop around every yt-dlp call with its four
  checks and the hooks that leave it; `late` counts calls begun after a
  cancellation or a deadline.
- **`CaptionSearch`**: `acquire_transcript`: listing, ranking, and one fetch
  after the other. `tried` is a history variable.
- **`TranscriptResult`**: `normalize_transcript`, the projection with
  exclusions, the rows made of it, what the columns accept, and the response
  read back. Characters are kept only as far as trimming, joining and emptiness
  need them.
- **`Selection`**: the elements of a list that pass a test and the members of a
  set of numbers in order, said by what they are instead of how a list
  comprehension or a sort computes them; the three modules above are built of it.
- **`SourceWork`** composes these into one job: the coroutine of
  `process` and `execute` (`stage`) and the provider thread it waits for
  (`work`), which is a retrieval of `ProviderRetry` or a search of
  `CaptionSearch` followed by the checks of its own function. `dirs` are the
  private media directories; `Known` says which of them the coroutine has heard
  of, since an inspection that raises keeps its directory to itself. Sizes and
  durations that a provider declares, and those of the file, are chosen
  independently. `NativeWork` has several executions and inference that outlives
  its caller; `SourceWork` has one, with everything it decides.
- **`ApiService`**: the lock, the latch, the health endpoint and the lifespan.
- **`...Proofs`**: the theorems about the module of that name; `JobStoreProofs`
  has those of `PgSessions` too.
- **`MC*`**: instances for TLC. Operators
  named `Mut...` are deliberate mistakes, each next to the definition it
  distorts; no specification uses them. They show that a property can fail.

`JobStore` is composed with its abstraction by `INSTANCE` and with the sessions
by `EXTENDS`. The other modules are each the environment of the next one: what
`ClaimManager` calls the store is `JobStore`'s behaviour as one worker can tell
it apart, the drain that `GpuWorkers`, `NativeWork` and `WorkerLoop` wait for is that of
`ClaimManager`. That drain can miss an execution (run `claim_drain`), so each of
the three has the closing go on under one: `DrainMisses` in `GpuWorkers`,
`missed` in `NativeWork`, `Drained` in `WorkerLoop`. It takes a stop that finds
the pool still at work; after a warm stop every pool thread has returned before
`shutdown` begins.

## 3. What the runs check

Passing runs:

| Run | Instance | Shows |
|---|---|---|
| `job_store` | 3 ids, 3 keys, 1 worker, clock 0..3, capacity 2, batch 1 | one start; one job per key; a polling client never sees its job go back, and never meets a row the API cannot decode |
| `pg_sessions` | 2 ids, 2 interchangeable keys, 4 sessions, clock 0..2 | under statement interleaving the CHECK constraints never trip, a job is processing exactly while it is owned, and starts are FIFO; the row counts that claim, recovery and publication insist on are the ones they find; row locks are not waited for in a circle, and a transaction that waits for no row can go on; refinement |
| `claim_manager` | 2 dispatches, concurrency 1 | registry exact at every await; concurrency respected; a claim is only given up when it can never be renewed again; nothing claimed after stop; owned jobs settle; cancellations are honoured; shutdown ends |
| `job_dispatch` | 2 jobs, 2 reconcilers, 1 fault | a dispatch is put off only if the broker took it; every queued job leaves the queue |
| `native_work` | 2 executions, 1 permit | cleanup means nothing is left; inference within permits; no unload under inference, except that of an execution the drain missed; every cancellation finishes |
| `gpu_workers` | 2 workers, shared or separate directories, one of them with claims, 1 fault (a lost session, a probe that fails on a live one, a failed call, a crash) | one model per directory; two models only after one of them lost its session or closed it; an ended worker leaves nothing and runs nothing; dead workers are withdrawn; startup and closing end |
| `worker_loop` | 3 pool threads | unless Celery leaves its pool behind nothing is cut short and every payload returns; a failed start and both kinds of stop end the main thread, and the pool threads but for one that a cold stop leaves with a coroutine nobody gathered |
| `source_work` | one job; 34,188 URLs (957 of them accepted), 7 pages, 5 raw transcripts, 2 tracks, 3 attempts, limits of 1 | accepted URLs are stable; nothing over a limit is used; no media is left; late answers are dropped; the best captions win; results read back as they were made; every job is decided |
| `api_service` | 3 requests, 1 health probe | after one client was told, no store call and no healthy answer; every request is answered |

Why the bounds are enough. The store's rules relate at most two jobs and one
bystander, so three ids cover a started job, an older and a newer one, and the
capacity of two is reached; the clock reaches the queue deadline, the lease and
the retention, in every order. In `pg_sessions` every method of one
kind of caller (API, processor, heartbeat monitor, reconciler) interleaves with
every method of another; two ids are one row each for two transactions to want.
In the asynchronous modules two actors at a
limit of one already meet every contention, and every fault the code handles
occurs at every step; the fault counters bound how many occur together. In
`source_work` the submitted URLs are every accepted shape on every kind of host
with one segment replaced, dropped or added, and queries with missing, repeated
and foreign fields. Three attempts instead of ten have a first, a middle and a
last one. Limits of one unit put "missing", "at the limit" and "over it" next to
each other, in half-seconds for durations, because that is where rounding
matters. Two tracks are enough for any wrong order of two buckets. Raw
transcripts are few, as TLC evaluates the fairness condition of `WorkEnds` for
every successor: a silent one, a plain one, one to be collapsed and sorted with a
tie, and two that are refused. Exclusions cover none, one field, fields of both
groups and each whole group but one. The
theorems of section 5 remove the bounds for every safety property but one. Where
symmetry is used (`pg_sessions`) only safety is checked. `gpu_workers` fixes the
name of one worker's directory, which loses nothing as directories are alike,
and gives claims to one worker, since a claim touches no lock, row or model: it
matters to the worker that has it, and the probe before it to the other one.

`CHECK_DEADLOCK FALSE` is set where the system may stop: a clock that has
reached its bound, a process that has exited, executions that are all done. In
`job_dispatch` the reconcilers never stop, so deadlock is checked.

Most modules have a `TypeOK`; it documents their state and is not a run's
property, because it is proved (section 5) as a theorem of the store
(`TypeCorrect`) and as part of the other inductive invariants.

Runs that are expected to fail show where the code does not do what it says:

| Run | What is said | What happens |
|---|---|---|
| `claim_drain` | `shutdown()` drains "while retaining heartbeats" | `claim()` sets the drained event before it registers the claim it was given; a shutdown waiting on it stops the monitor under that execution |
| `cancel_race` | cancelling a finished job is a conflict, the unavailable error is for the store | queue expiry between the SELECT and the UPDATE of a cancellation makes the UPDATE match nothing; the healthy store is reported unavailable and the API latches |
| `permit_leak` | the permit is kept until the call returns, then the next job enters | a cancellation in the `await` after the permit was obtained raises before the block that returns it |

More observations came out of the modelling and have no run of their own:

- A replayed submission is answered from a row that retention already hides
  from polling (`repository.py:515`), until the hourly cleanup.
- The dispatch scan can go on as long as publishing takes longer than the
  redispatch interval and the worker stays full (`reconciler.py:130`).
- The advisory lock of the GPU is free as soon as the server drops the session,
  while the model stays loaded until the worker notices
  (`gpu_ownership.py:119`). It is also free once any statement of a probe has
  failed, because the worker then closes the session itself, live or not, and
  keeps the model (`gpu_ownership.py:180`). `TwoModelsOnlyAfterLoss` states the
  exclusion with these two exceptions; the host lock has neither.
- An execution that the drain missed may start inference on an unloaded model,
  and may run on after both GPU locks are released, until the loop is halted
  and cancels it. `UnloadedWhenIdle` excepts it; `EndedLeavesNothing` shows that
  it does not outlive the loop.
- The docstring of `classify_submitted_url` promises `InvalidUrlError` for an
  unsupported URL. `/video/²` after an X status passes `str.isdigit` and makes
  `int` raise `ValueError` (`inspection.py:964`), which leaves classification as
  it is; the worker publishes `internal_error`. Decimal digits of other scripts
  are accepted there as numbers.
- When Celery stops cold and does not join its pool, a coroutine submitted
  between the loop's last turn and `close()` (`worker.py:613`) is dropped, and
  its pool thread waits for ever, which the interpreter's exit waits for in turn.
  `WarmPayloadReturns` states what holds without a cold stop, `ShutdownReturns`
  which pool threads can be left that way with one.
- A video id or a language tag longer than its column is accepted by every check
  before the INSERT and refused by PostgreSQL (`repository.py:304`). The job
  keeps its claim, which the processor does not renew any more, and ends as
  `worker_interrupted` after a complete transcription. `Publish` has this
  outcome.
- The docstring of `acquire_transcript` announces a provider failure when a
  candidate cannot be fetched; the code passes on to the next candidate
  (`acquisition.py:837`). The only caller treats both alike unless a later
  candidate works, and then the code's way is the better one.

## 4. Fairness

Safety properties need none. The liveness properties assume:

- `ClaimManager`: the event loop runs ready coroutines and executions end
  (every provider call has a deadline and inference a timeout); a lease nobody
  renews runs out; the reconciler keeps scanning. Clients, crashes and shutdown
  are never forced. The monitor needs no fairness: a missed heartbeat is a
  lapsed lease.
- `JobDispatch`: reconcilers keep taking steps (they are restarted), intervals
  and leases pass (weak fairness); and of the deliveries of the first job in
  line not every one is lost or refused (strong fairness of `DeliveryClaims`,
  the delivery is enabled again and again, not continuously). Without the last
  one a job may wait until its deadline, which is what the deadline is for.
- `NativeWork`: coroutines proceed, also those of an execution the drain missed,
  and threads answer at last. A native call
  that never returns keeps its permit for ever; the code accepts that.
- `GpuWorkers`: tasks of a live loop run, the server notices closed
  connections, time passes. Crashed or lost workers need nothing from the dead.
- `WorkerLoop`: threads run, the loop serves its queue, coroutines end. Nothing
  makes Celery stop, or leave its pool behind.
- `SourceWork`: the provider thread and the coroutine keep taking steps (weak
  fairness of each), because provider calls have socket timeouts, the retry loop
  a bound and inference a timeout. Neither cancellation nor the deadline is
  forced: a job is decided without them.
- `ApiService`: the loop runs tasks and store calls return. They have no
  deadline of their own, so a hung call would stop every request; the driver
  decides that, not this code.

## 5. What is proved

Every safety invariant that a passing run checks is a theorem, for every value
of the constants, with one exception (`WaitsForRowsOnly`, section 6); so are the
action properties `PollingNeverGoesBack` and `NothingClaimedAfterStop`, and the refinement of
`TranscriptionJob`, once by whole methods and once statement by statement.

The assumptions are all on constants, named in the module that declares them
and evaluated by TLC too:

- `BoundsAssumption`, `PolicyAssumption`, `NullAssumption` (`JobStore`): bounds
  are natural numbers, policy values positive (the constructor and the methods
  refuse others), `Null` is no worker, key or request. `MaxTime` and `MaxJobs`
  are arbitrary, so the bounds of the model do not limit the theorems.
- `MaxActiveAssumption`, `DispatchesAssumption` (`ClaimManager`),
  `PermitsAssumption`, `ExecutionsAssumption` (`NativeWork`): limits are
  positive, deliveries and executions finitely many.
- `DispatchBounds`, `OwnersAssumption` (`JobDispatch`), `WorkersAssumption`
  (`GpuWorkers`), `ThreadsAssumption` (`WorkerLoop`): bounds are natural
  numbers, and the values that stand for "nobody", an orphaned lease or a
  callback are no process.
- `LimitsAssumption`, `InputsAssumption`, `NullAssumption`,
  `ExclusionsAssumption` (`SourceWork`): limits are positive; submissions and
  pages are any URLs, transcripts any lists of segments with whole-numbered
  times; SQL NULL is no value of a column; exclusions are those that the request
  schema lets through. `MCSourceWork` also has TLC compare `Selection` with the
  library's filter (`SelectedAssumption`).

### The store, method by method (`JobStoreProofs`, first part)

All three properties of the run `job_store`, and besides them `TypeOK`, `LifecycleCheck`,
`OwnedExactlyWhileProcessing`, `TerminalIsFinal`, `AcceptedCancellationHolds`,
`NoOvertaking`, `CapacityRespected` and `Spec => Contract!Spec`.

1. *Moves.* One lemma per repository method (`CreateMoves` ... `TickMoves`)
   shows that a call does to every row one of eight things: leave it (a lease
   may be renewed), admit it, time it out, cancel it in the queue, grant it,
   flag it for cancellation, settle it or delete it, each with the values it
   writes. `StepMoves` collects them. From here the methods no longer matter.
2. *The inductive invariant* `StoreInv` is `TypeOK` and, per row, `RowInv`.
   The properties are not inductive alone. `RowHistory` adds that a row that
   is not there is blank (so an admission starts from nothing), that one that
   is there was handed out by `lastId` (so a deleted id does not come back) and
   that no time lies in the future (so the timestamp order survives);
   `RowStarts` adds that a queued row was never granted, without which "at most
   one start" says nothing about the next grant. `RowPreserved` shows that each
   move keeps `RowInv`; `StepInv` and `StoreInvariant` conclude.
3. *Several rows.* Uniqueness of keys, FIFO and capacity compare rows, and are
   inductive relative to `StoreInv`: rows keep their key and submission time
   (`RowPersists`), a start requires that no older eligible row exists, and an
   admission requires a free place; the cardinality argument uses
   `FiniteSetTheorems`.
4. *Refinement.* `ViewOfRow` computes the abstract state of a row,
   `CreateAdmits` maps an admission to `Admit`, `CallMoves` every other call to
   `Move`, everything else to a stutter.
5. *Polling.* `RowDecodes` shows that `RowInv` implies every condition the row
   decoders test, so `get_job` never answers "unavailable". `AnswerOfRow` then
   computes the answer, and `PollingMonotone` follows move by move; that a
   finished job stays unknown once it is needs the clock not to step back and
   a deleted id not to be handed out again (`ClockOrRows`).

### The store, statement by statement (`JobStoreProofs`, second part)

`RowCountsAgree`, `LifecycleCheck`, `OwnedExactlyWhileProcessing`,
`NoOvertaking`, `StartedAtMostOnce`, `KeyNamesOneJob`, `CapacityRespected`,
`NoLockCycle`, `TerminalIsFinal`, `AcceptedCancellationHolds` and the
refinement, with any interleaving of the statements of the four sessions and a
connection lost at any point.

1. *What a transaction relies on.* `PgInv` is `StoreInv` on the committed rows
   and, per session, `TxInv`: which method its next statement belongs to
   (`MethodOf`), that its arguments name committed things and its clock reading
   is not ahead (`ArgumentsInv`), and which rows and attempts it has locked and
   what its earlier statements found there (`LocksInv`). `LocksExclusive` says
   that nothing is locked twice. `LeaseInv` (a lease outlasts the start it was
   granted for) is what makes a recovery's timestamps legal.
2. *Statements.* One lemma per statement shows that it establishes what the
   next one relies on (`ClaimStartKeeps`, `RecoverSelectKeeps` ...). The row
   counts agree because the attempt that a recovery or a publication has to find
   is either locked by it or can only have been renewed. A recovery updates
   flagged and unflagged jobs apart and insists on both counts: that the flags
   are still those of its SELECT (`RecoveryInv`) needs the advisory lock, which
   the only method that sets a flag takes as well, and comes after `SessionsInv`.
3. *Commits.* `CommitChanges` shows that a commit does to each row one of five
   things: start, flag, conclude, leave the queue, remove. `ChangeKeepsRow`
   shows that each keeps `RowInv`, and `CommitUndisturbing`, with `TxStable`,
   that none disturbs what another transaction relies on. This is the heart of
   the matter: heartbeats and expiry do not take the advisory lock, and the
   proof says why they need not.
4. *The queue.* FIFO, keys and capacity rest on the advisory lock. `SessionsInv`
   adds that it has one holder (`LockInv`) and, per session, `QueueInv`: from
   the capacity count to the INSERT there stays room, the key stays unused and
   no submission is later; from the FIFO lookup to the commit of a claim the job
   stays the oldest claimable one. Commits of others only shrink the queue
   (`QueueStable`).
5. *Row locks.* By `LocksInv` a heartbeat asks for its rows before it has
   locked any, and an expiry asks for none that it would wait for (SKIP LOCKED),
   so a session that waits while it holds a row runs a serialized method
   (`HeartbeatOrSerialized`), and by `LockInv` there is only one of those. Of any
   sessions that wait, that one waits for none of the others (`NoCircle`).
   Recovery locks attempts before jobs and publication jobs before attempts:
   only the advisory lock keeps these two apart.
6. *Final rows, cancellations.* `RowChanges` reduces a step to one of the
   changes above, under a clock reading that is not ahead; `LocksInv` remembers
   for a deletion that the retention had passed when its statement ran, and a
   terminal row cannot change between that statement and the commit.
7. *Refinement.* A commit maps to `Move`, the INSERT of a submission, which
   commits with it, to `Admit`, everything else to a stutter.

`PollingNeverGoesBack` is a property of whole methods only: between statements a
publication that commits later than its own retention after its clock reading
would make a job unknown to a client that never saw its outcome. No retention is
that short, but no assumption on the constants says so.

### One worker

- `ClaimManagerProofs`: `ActiveWithinLimit`, `RegistryIsExact`, `LostForGood`,
  `NothingClaimedAfterStop`. `ManagerInv` adds to them that a heartbeat batch
  names only coroutines that have claimed (`BatchClaimedBefore`), so none claims
  again while the answer travels, and that what the store did not renew it never
  will (`UnrenewedForGood`). Without these two, an answer that arrives late could
  declare a claim lost that is alive.
- `NativeWorkProofs`: `CleanupMeansReleased`, `NativeWithinPermits`,
  `UnloadedWhenIdle`. `NativeInv` ties the position of an execution to its
  thread, its directories and the ownership hand-over (`RunInv`), counts permits
  by their holders (`PermitsBound`, an inequality, since the finding
  `permit_leak` is that one may be lost) and says that once shutdown has begun
  only the execution that the drain missed can still start inference
  (`PhaseInv`).
- `GpuWorkersProofs`: `OneModelPerDirectory`, `TwoModelsOnlyAfterLoss`,
  `EndedLeavesNothing`. `GpuInv` says, per stage of startup, serving and closing,
  what the process has of its own (`ProcInv`) and of the two locks and its row
  (`LockInv`). The exclusions follow because both locks name one holder. A probe
  that fails on a live session only records the loss: until then the session
  that a loaded model relies on is the one that holds the advisory lock. An
  execution may be there at every stage of the closing up to the halt of the
  loop, which waits for it, so that closing is complete without relying on the
  drain.
- `WorkerLoopProofs`: `NothingCutShort`. `LoopInv` says that a coroutine,
  running or still in the loop's queue, has exactly one pool thread that waits
  for it, so a joined pool means that there is none.

### The work of one job (`SourceWorkProofs`)

All six invariants of the run `source_work`, for every limit, every number of
attempts and listed tracks, and all URLs, transcripts and exclusions. Four
inductive invariants, each relative to the ones before it:

1. *`CoreInv`: `OverLimitNeverUsed`, `NothingLeftBehind`, `LateAnswerDropped`.*
   `ThreadInv` says which position of the provider thread, of its retry loop and
   of the search occurs at each stage of the coroutine. `CancelInv`: an event
   that stops providers came from a request or a timeout, so an answer that is
   still used was not late. `DirsInv`: which private directories exist at each
   stage, where a directory of a failed inspection is the thread's own business.
   `MediaInv`: audio in such a directory has been measured. `LateInv`: where a
   call that began after an event can still be, and that from there it can only
   be dropped. Steps of the retry loop, of the search, of the thread, of the
   coroutine and of the environment have a lemma each.
2. *`SearchInv`: `BestUsableTrack`.* The candidates are the ranking of the listed
   tracks, and those before the one at hand were fetched in vain. That this is
   the preferred order is a fact about the ranking alone (`RankingLists` and the
   lemmas before it): four buckets, each in the order of the provider.
3. *`ResultInv`: `ResultReadsBack`.* `NormalizedIsTranscript` shows that whatever
   segments a provider sends, normalising acceptable ones gives a transcript that
   the constructors accept: collapsed, without empty segments, sorted, with the
   text of its segments. `RowsReadBack` shows that the rows of a response are
   readable and give the response again, for every set of exclusions, silent
   transcripts included. A job ends in `internal_error` only where classification
   itself has raised.
4. *`SettledInv`: `CanonicalUrlStable`.* One lemma per platform (`YouTubeStable`
   ... `XStable`) shows that what classification hands to yt-dlp, and the
   canonical URL, are accepted again as they stand; `ProviderQuery` that a query
   loses what classification removes from it. Once metadata is admitted, the
   job's URL is such a URL.

The library's induction theorems cannot be used with the installed provers, but
a least counterexample can (`LeastNumber`, from well-foundedness). With it, what
`Selection` returns is determined (`InOrderEnumerates`, `OneEnumeration`), and
the library's concatenation is unfolded (`FlattenSorted` and the lemmas before
it), which is what sorting and joining are made of.

### Dispatch and the API

- `JobDispatchProofs`: `PutOffOnlyIfSent`. A reconciler's batch may be stale in
  every respect, except that a job it is about to record and still has the lease
  of was sent (`RecordWasSent`); with `LeasedIsDue` that is inductive.
- `ApiServiceProofs`: `FailFast`. The lock's queue names each request once, only
  its head is in a store call, and the latch closes before anyone is told
  (`Unique`, `CallInv`, `LatchInv`); a health request that begins later stops at
  the ready flag (`LateInv`).

Every inductive invariant was first checked by TLC on the instance of its run.

## 6. What is only model-checked

- Liveness: the prover has no rule for fairness.
- `WaitsForRowsOnly` of `PgSessions`, which is about the statements that are
  enabled: the prover does not reason about `ENABLED`. With `NoLockCycle`, which
  is proved, it says that while transactions are open one of them can go on.
- `CancellationFindsItsRow`, `HeartbeatsWhileDraining` and `PermitsReturned` do
  not hold; their runs show it.

## 7. Not modelled, and abstractions

- Router and response schemas, configuration, migrations, logging: stateless.
  The CHECK constraints of the schema are `LifecycleCheck` for jobs and
  `ColumnsAccept` for results. `JobDispatch.from_payload` turns an unreadable
  message into a delivery that does nothing, which is a lost message of
  `JobDispatch`.
- Splitting a URL is urllib's; what is refused before the split (scheme,
  credentials, port, escapes, control characters) is not represented.
- What yt-dlp, the caption service, ffprobe and faster-whisper do is any answer
  or failure their callers tell apart. Titles, descriptions and channel names
  are one value each, since nothing depends on their content.
- There is one clock that does not step back. Several drifting hosts are not
  represented.
- Heartbeats of several claims in one statement are a set in `JobStore` and one
  row per session in `PgSessions`; the order in which one UPDATE locks several
  attempt rows is not modelled.
  `NoLockCycle` is therefore about waits between statements, and of the
  sessions that `PgSessions` has; the dispatch-lease methods lock attempt rows
  only.
- Store, broker and driver calls return or fail; they do not hang.
- `NativeWork` ends when the model is unloaded; that the loop then cancels an
  execution the drain missed is in `GpuWorkers` (`Halt`) and `WorkerLoop`. A
  worker of `GpuWorkers` has at most one claim, and has ended when its loop's
  thread is joined: a native thread that the missed execution abandoned may
  still run then, and ends with the process at the latest.
- Unloading the model does not raise. Acquiring the host lock is one step.
- In `JobDispatch` the store's methods are atomic and a job is gone from the
  model once it has left the queue; what happens then is `ClaimManager`'s.
- The reconciler's own heartbeat row is not modelled; it is written by the same
  reporter as the worker's, without the probe.

## 8. Plan

Order of work: the store and its proofs first, since every other part relies
on them; then the claim path and dispatch, native work, the GPU and the threads
of a worker, the API, and the work one job does with its source (all done).
Next:

1. Heartbeats and lease releases that lock several attempt rows in one UPDATE,
   and the dispatcher as a session of its own.
2. `PollingNeverGoesBack` statement by statement, under an assumption that
   relates the retention to the length of a transaction.
3. The reconciler's readiness row, and several hosts' clocks.

## Running it

    tlc -workers 2 -config MCJobStore.cfg MCJobStore
    tlapm SourceWorkProofs.tla

The other runs are listed in `PROJECT.json` with their module and configuration,
the theorems with their module. `JobStoreProofs` takes about six
minutes, `SourceWorkProofs` about four, the other proof modules less.
