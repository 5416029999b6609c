----------------------------- MODULE PgSessions -----------------------------
(***************************************************************************)
(* The repository methods of jobs/repository.py statement by statement, as *)
(* concurrent READ COMMITTED transactions of PostgreSQL sessions.  Most of *)
(* them hold the lifecycle advisory lock; expire_queued_jobs and           *)
(* heartbeat_claims do not, and interleave with every statement of the     *)
(* others.  A transaction's writes are private until it commits; the rows  *)
(* it wrote or selected FOR UPDATE are locked until it ends, others wait   *)
(* for them or skip them.  job and claim are the committed rows, so the    *)
(* properties of JobStore apply to them as they stand.                     *)
(***************************************************************************)
EXTENDS JobStore

VARIABLES
    tx,        \* the open transaction of each session
    mismatch   \* methods whose own row-count check has failed

pgVars == <<vars, tx, mismatch>>

\* One connection at a time per caller: the API, a worker's processor, its
\* heartbeat monitor, and the reconciler.
Sessions == {"api", "worker", "monitor", "reconciler"}

NoRows == [j \in {} |-> AbsentRow]

\* One row version, and row versions on top of others.
Just(j, version) == [i \in {j} |-> version]
Over(written, rows) ==
    [j \in DOMAIN written \cup DOMAIN rows |->
       IF j \in DOMAIN written THEN written[j] ELSE rows[j]]

\* pc is the next statement; rows and attempts hold the uncommitted versions
\* of the transcription_job and execution-attempt rows it has locked.  batch names the
\* jobs of a heartbeat or of a recovery, flagged those of them that the
\* recovery's SELECT found with a cancellation.
Idle ==
    [op |-> "none", pc |-> "idle", at |-> NoTime, j |-> 0, w |-> Null, key |-> Null,
     batch |-> {}, flagged |-> {}, rows |-> NoRows, attempts |-> NoRows]

\* Mutation: recovery skips locked rows and relies on that alone.
MutRecoveryUnserialized(op) ==
    op \in {"create_queued", "claim_dispatch",
            "delete_expired_terminal_jobs", "request_cancellation",
            "publish_cancelled", "publish_success", "publish_failure"}

Serialized(op) ==
    op \in {"create_queued", "claim_dispatch", "recover_expired_claims",
            "delete_expired_terminal_jobs", "request_cancellation",
            "publish_cancelled", "publish_success", "publish_failure"}

At(s, pc) == tx[s].pc = pc
Busy(s) == ~At(s, "idle")

HoldsLifecycleLock(s) == Busy(s) /\ Serialized(tx[s].op)
LifecycleLockFree(s) == \A t \in Sessions \ {s} : ~HoldsLifecycleLock(t)

RowsLocked(s) == UNION {DOMAIN tx[t].rows : t \in Sessions \ {s}}
AttemptsLocked(s) == UNION {DOMAIN tx[t].attempts : t \in Sessions \ {s}}

\* An UPDATE waits only for locked rows that satisfy its WHERE clause.
CanUpdateRows(s, S) == S \cap RowsLocked(s) = {}
CanUpdateAttempts(s, S) == S \cap AttemptsLocked(s) = {}

\* The statement leaves its transaction at pc, or writes and goes on.
Goto(s, pc) == tx' = [tx EXCEPT ![s].pc = pc]
End(s) == tx' = [tx EXCEPT ![s] = Idle]
WriteRows(s, pc, written) ==
    tx' = [tx EXCEPT ![s].pc = pc, ![s].rows = Over(written, @)]
WriteAttempts(s, pc, written) ==
    tx' = [tx EXCEPT ![s].pc = pc, ![s].attempts = Over(written, @)]

\* rowcount is not what the method requires: it raises and rolls back.
Raise(s) == mismatch' = mismatch \cup {tx[s].op} /\ End(s)

Statement == UNCHANGED <<vars, mismatch>>

\* The final UPDATE, with the clock the transaction read.
FinishAt(s, row, outcome, error) ==
    [FinishedRow(row, outcome, error) EXCEPT !.finishedAt = tx[s].at]

-----------------------------------------------------------------------------
(* Begin, commit, rollback. *)

\* pg_advisory_xact_lock for a serialized method, then the clock.  A session
\* that waits for the lock has read and locked nothing, so it may as well
\* begin when it gets it.
Begin(s, op, j, w, key, batch) ==
    /\ At(s, "idle")
    /\ Serialized(op) => LifecycleLockFree(s)
    /\ tx' = [tx EXCEPT ![s] = [Idle EXCEPT !.op = op, !.pc = op, !.at = now, !.j = j,
                                            !.w = w, !.key = key, !.batch = batch]]
    /\ Statement

Commit(s) ==
    /\ At(s, "commit")
    /\ job' = Over(tx[s].rows, job)
    /\ claim' = Over(tx[s].attempts, claim)
    /\ starts' = [j \in Jobs |->
                    starts[j] + IF job'[j].status = "processing" /\ ~Processing(j)
                                THEN 1 ELSE 0]
    /\ End(s)
    /\ UNCHANGED <<now, lastId, mismatch>>

\* The connection or the process is lost before the commit.
Rollback(s) == Busy(s) /\ End(s) /\ Statement

-----------------------------------------------------------------------------
(* create_queued *)

\* The replay lookup and the capacity count, then the clock.
CreateSelect(s) ==
    /\ At(s, "create_queued")
    /\ IF Replayed(tx[s].key) = {} /\ Cardinality(Outstanding) < MaxOutstanding
       THEN tx' = [tx EXCEPT ![s].pc = "insert", ![s].at = now]
       ELSE End(s)
    /\ Statement

\* The INSERTs touch rows nobody else can see before the commit.
CreateInsert(s, request) ==
    /\ At(s, "insert")
    /\ lastId' = lastId + 1
    /\ job' = [job EXCEPT ![lastId + 1] = NewRow(tx[s].key, request, tx[s].at)]
    /\ End(s)
    /\ UNCHANGED <<now, claim, starts, mismatch>>

-----------------------------------------------------------------------------
(* expire_queued_jobs: no lifecycle lock *)

\* SELECT ... FOR UPDATE SKIP LOCKED
ExpireSelect(s) ==
    LET due == {j \in Jobs : Queued(j) /\ QueueDeadline(j) <= tx[s].at} \ RowsLocked(s)
        batch == FirstOf(due, BatchLimit, OlderThan)
    IN  /\ At(s, "expire_queued_jobs")
        /\ IF batch = {} THEN End(s)
           ELSE WriteRows(s, "expire", [j \in batch |-> job[j]])
        /\ Statement

\* Mutation: the update takes the lifecycle lock after the row locks.
MutExpireLocksLate(s) ==
    LET batch == DOMAIN tx[s].rows
    IN  /\ At(s, "expire")
        /\ LifecycleLockFree(s)
        /\ WriteRows(s, "commit",
               [j \in batch |-> FinishAt(s, job[j], "failed", "queue_timeout")])
        /\ Statement

ExpireUpdate(s) ==
    LET batch == DOMAIN tx[s].rows
    IN  /\ At(s, "expire")
        /\ WriteRows(s, "commit",
               [j \in batch |-> FinishAt(s, job[j], "failed", "queue_timeout")])
        /\ Statement

-----------------------------------------------------------------------------
(* claim_dispatch *)

\* The timeout UPDATE.
ClaimTimeout(s) ==
    LET j == tx[s].j
        matched == Queued(j) /\ QueueDeadline(j) <= tx[s].at
    IN  /\ At(s, "claim_dispatch")
        /\ IF matched
           THEN /\ CanUpdateRows(s, {j})
                /\ WriteRows(s, "commit",
                             Just(j, FinishAt(s, job[j], "failed", "queue_timeout")))
           ELSE Goto(s, "head")
        /\ Statement

ClaimableAt(t) == {j \in Jobs : Queued(j) /\ QueueDeadline(j) > t}

\* Mutation: any queued job may be claimed.
MutClaimAnyQueued(s) ==
    /\ At(s, "head")
    /\ IF tx[s].j \in ClaimableAt(tx[s].at) THEN Goto(s, "start") ELSE End(s)
    /\ Statement

\* The FIFO lookup.
ClaimHead(s) ==
    LET eligible == ClaimableAt(tx[s].at)
    IN  /\ At(s, "head")
        /\ IF tx[s].j \in FirstOf(eligible, 1, OlderThan) THEN Goto(s, "start") ELSE End(s)
        /\ Statement

\* Mutation: the attempt row is not updated.
MutClaimOwnerless(s) ==
    LET j == tx[s].j
    IN  /\ At(s, "start")
        /\ IF j \in ClaimableAt(tx[s].at)
           THEN /\ CanUpdateRows(s, {j})
                /\ WriteRows(s, "commit", Just(j, [job[j] EXCEPT !.status = "processing",
                                                                 !.startedAt = tx[s].at]))
           ELSE End(s)
        /\ Statement

\* The claiming UPDATE; no row matched means a stale dispatch.
ClaimStart(s) ==
    LET j == tx[s].j
    IN  /\ At(s, "start")
        /\ IF j \in ClaimableAt(tx[s].at)
           THEN /\ CanUpdateRows(s, {j})
                /\ WriteRows(s, "own", Just(j, [job[j] EXCEPT !.status = "processing",
                                                              !.startedAt = tx[s].at]))
           ELSE End(s)
        /\ Statement

\* The ownership UPDATE must find the attempt unowned.
ClaimOwn(s) ==
    LET j == tx[s].j
    IN  /\ At(s, "own")
        /\ IF claim[j].owner = Null
           THEN /\ CanUpdateAttempts(s, {j})
                /\ WriteAttempts(s, "commit",
                      Just(j, [owner |-> tx[s].w, expiresAt |-> tx[s].at + ClaimLease]))
                /\ UNCHANGED mismatch
           ELSE Raise(s)
        /\ UNCHANGED vars

-----------------------------------------------------------------------------
(* heartbeat_claims: no lifecycle lock *)

\* UPDATE attempt FROM transcription_job ... RETURNING
HeartbeatUpdate(s) ==
    LET live == {j \in tx[s].batch : /\ Processing(j)
                                     /\ claim[j].owner = tx[s].w
                                     /\ claim[j].expiresAt > tx[s].at}
    IN  /\ At(s, "heartbeat_claims")
        /\ CanUpdateAttempts(s, live)
        /\ WriteAttempts(s, "commit",
              [j \in live |-> [claim[j] EXCEPT !.expiresAt = tx[s].at + ClaimLease]])
        /\ Statement
-----------------------------------------------------------------------------
(* recover_expired_claims *)

Cancelling(j) == job[j].cancellationRequested

ExpiredAt(s) ==
    FirstOf({j \in Jobs : Processing(j) /\ claim[j].expiresAt <= tx[s].at} \ AttemptsLocked(s),
            BatchLimit, ExpiresBefore)

\* Mutation: the SELECT does not lock the attempts.
MutRecoverSelectsUnlocked(s) ==
    /\ At(s, "recover_expired_claims")
    /\ IF ExpiredAt(s) = {} THEN End(s)
       ELSE tx' = [tx EXCEPT ![s].pc = "recover", ![s].batch = ExpiredAt(s),
                             ![s].flagged = {j \in ExpiredAt(s) : Cancelling(j)}]
    /\ Statement

\* SELECT ... FOR UPDATE OF attempt SKIP LOCKED, and the split of its rows by
\* the cancellation flag.
RecoverSelect(s) ==
    /\ At(s, "recover_expired_claims")
    /\ IF ExpiredAt(s) = {} THEN End(s)
       ELSE tx' = [tx EXCEPT ![s].pc = "recover", ![s].batch = ExpiredAt(s),
                             ![s].flagged = {j \in ExpiredAt(s) : Cancelling(j)},
                             ![s].attempts = [j \in ExpiredAt(s) |-> claim[j]]]
    /\ Statement

\* The two UPDATEs, for the jobs selected with and without a cancellation;
\* each must match every job it is for, by status and by flag.
RecoverFinish(s) ==
    LET batch == tx[s].batch
        flagged == tx[s].flagged
    IN  /\ At(s, "recover")
        /\ IF \A j \in batch : Processing(j) /\ (Cancelling(j) <=> j \in flagged)
           THEN /\ CanUpdateRows(s, batch)
                /\ WriteRows(s, "clear claims",
                      [j \in batch |->
                         IF j \in flagged THEN FinishAt(s, job[j], "cancelled", "none")
                         ELSE FinishAt(s, job[j], "failed", "worker_interrupted")])
                /\ UNCHANGED mismatch
           ELSE Raise(s)
        /\ UNCHANGED vars

\* The claims of the batch must still be expired.
RecoverClear(s) ==
    LET batch == tx[s].batch
        expired == {j \in batch : claim[j].expiresAt <= tx[s].at}
    IN  /\ At(s, "clear claims")
        /\ CanUpdateAttempts(s, expired)
        /\ IF expired = batch
           THEN WriteAttempts(s, "commit", [j \in batch |-> NoClaim]) /\ UNCHANGED mismatch
           ELSE Raise(s)
        /\ UNCHANGED vars

-----------------------------------------------------------------------------
(* delete_expired_terminal_jobs *)

Delete(s) ==
    LET old == {j \in Jobs : Finished(j) /\ job[j].finishedAt <= tx[s].at - Retention}
    IN  /\ At(s, "delete_expired_terminal_jobs")
        /\ CanUpdateRows(s, old) /\ CanUpdateAttempts(s, old)
        /\ tx' = [tx EXCEPT ![s].pc = "commit",
                            ![s].rows = [j \in old |-> AbsentRow],
                            ![s].attempts = [j \in old |-> NoClaim]]
        /\ Statement

-----------------------------------------------------------------------------
(* request_cancellation *)

\* The SELECT decides which UPDATE follows; no row lock is taken.
CancelSelect(s) ==
    LET j == tx[s].j
    IN  /\ At(s, "request_cancellation")
        /\ tx' = [tx EXCEPT ![s] =
              IF Queued(j) THEN [@ EXCEPT !.pc = "cancel", !.at = now]
              ELSE IF Processing(j) THEN [@ EXCEPT !.pc = "flag"]
              ELSE Idle]
        /\ Statement

\* Mutation: the UPDATE matches the job whatever its status is by now, and
\* leaves the error columns, which it does not set, as they are.
MutCancelUnconditionally(s) ==
    LET j == tx[s].j
    IN  /\ At(s, "cancel")
        /\ CanUpdateRows(s, {j})
        /\ WriteRows(s, "commit", Just(j, FinishAt(s, job[j], "cancelled", job[j].error)))
        /\ Statement

\* Queued work finishes now; rowcount must be one.
CancelQueued(s) ==
    LET j == tx[s].j
    IN  /\ At(s, "cancel")
        /\ IF Queued(j)
           THEN /\ CanUpdateRows(s, {j})
                /\ WriteRows(s, "commit", Just(j, FinishAt(s, job[j], "cancelled", "none")))
                /\ UNCHANGED mismatch
           ELSE Raise(s)
        /\ UNCHANGED vars

\* Processing work is flagged, unless it already was.
CancelProcessing(s) ==
    LET j == tx[s].j
    IN  /\ At(s, "flag")
        /\ IF Processing(j) /\ ~Cancelling(j)
           THEN /\ CanUpdateRows(s, {j})
                /\ WriteRows(s, "commit", Just(j, [job[j] EXCEPT !.cancellationRequested = TRUE]))
           ELSE End(s)
        /\ Statement

-----------------------------------------------------------------------------
(* publish_cancelled, publish_success, publish_failure *)

Published(s, j) ==
    CASE tx[s].op = "publish_cancelled" -> FinishAt(s, job[j], "cancelled", "none")
      [] tx[s].op = "publish_failure" -> FinishAt(s, job[j], "failed", "execution_error")
      [] OTHER -> [FinishAt(s, job[j], "succeeded", "none") EXCEPT !.hasResult = TRUE]

\* Mutation: the WHERE clause forgets the cancellation flag.
MutPublishIgnoresFlag(s) ==
    LET j == tx[s].j
    IN  /\ At(s, tx[s].op) /\ tx[s].op \in {"publish_cancelled", "publish_success", "publish_failure"}
        /\ IF Processing(j) /\ claim[j].owner = tx[s].w /\ claim[j].expiresAt > tx[s].at
           THEN CanUpdateRows(s, {j}) /\ WriteRows(s, "clear claim", Just(j, Published(s, j)))
           ELSE End(s)
        /\ Statement

\* The terminal UPDATE under a live claim of this worker; no row matched
\* means the claim is stale or a cancellation was accepted.
PublishUpdate(s) ==
    LET j == tx[s].j
    IN  /\ At(s, tx[s].op) /\ tx[s].op \in {"publish_cancelled", "publish_success", "publish_failure"}
        /\ IF /\ Processing(j)
              /\ Cancelling(j) <=> tx[s].op = "publish_cancelled"
              /\ claim[j].owner = tx[s].w /\ claim[j].expiresAt > tx[s].at
           THEN CanUpdateRows(s, {j}) /\ WriteRows(s, "clear claim", Just(j, Published(s, j)))
           ELSE End(s)
        /\ Statement

\* _clear_execution_claim must find the claim.
PublishClear(s) ==
    LET j == tx[s].j
    IN  /\ At(s, "clear claim")
        /\ IF claim[j].owner = tx[s].w
           THEN /\ CanUpdateAttempts(s, {j})
                /\ WriteAttempts(s, "commit", Just(j, NoClaim))
                /\ UNCHANGED mismatch
           ELSE Raise(s)
        /\ UNCHANGED vars

-----------------------------------------------------------------------------

PgInit == Init /\ tx = [s \in Sessions |-> Idle] /\ mismatch = {}

\* Who calls what.  A dispatch, a claim or a capability names a job that was
\* committed before.
Call ==
    \/ \E key \in Keys : lastId < MaxJobs /\ Begin("api", "create_queued", 0, Null, key, {})
    \/ \E j \in 1 .. lastId :
         \/ Begin("api", "request_cancellation", j, Null, Null, {})
         \/ \E w \in Workers :
              \/ Begin("worker", "claim_dispatch", j, w, Null, {})
              \/ \E op \in {"publish_cancelled", "publish_success", "publish_failure"} :
                   starts[j] > 0 /\ Begin("worker", op, j, w, Null, {})
    \/ \E w \in Workers, batch \in SUBSET {j \in Jobs : Processing(j)} :
         batch # {} /\ Begin("monitor", "heartbeat_claims", 0, w, Null, batch)
    \/ \E op \in {"expire_queued_jobs", "recover_expired_claims",
                   "delete_expired_terminal_jobs"} :
         Begin("reconciler", op, 0, Null, Null, {})

\* The next statement of an open transaction.
Run(s) ==
    \/ Commit(s)
    \/ CreateSelect(s) \/ \E request \in Requests : CreateInsert(s, request)
    \/ ExpireSelect(s) \/ ExpireUpdate(s)
    \/ ClaimTimeout(s) \/ ClaimHead(s) \/ ClaimStart(s) \/ ClaimOwn(s)
    \/ HeartbeatUpdate(s)
    \/ RecoverSelect(s) \/ RecoverFinish(s) \/ RecoverClear(s)
    \/ Delete(s)
    \/ CancelSelect(s) \/ CancelQueued(s) \/ CancelProcessing(s)
    \/ PublishUpdate(s) \/ PublishClear(s)

PgTick == Tick /\ UNCHANGED <<tx, mismatch>>

PgNext == Call \/ PgTick \/ \E s \in Sessions : Run(s) \/ Rollback(s)

PgSpec == PgInit /\ [][PgNext]_pgVars

-----------------------------------------------------------------------------
(* Properties, besides those of JobStore. *)

\* Committed and uncommitted row versions have their types.
PgTypeOK ==
    /\ TypeOK
    /\ \A s \in Sessions :
         /\ DOMAIN tx[s].rows \subseteq Jobs /\ DOMAIN tx[s].attempts \subseteq Jobs
         /\ \A j \in DOMAIN tx[s].rows : tx[s].rows[j] \in JobRow
         /\ \A j \in DOMAIN tx[s].attempts : tx[s].attempts[j] \in Claim

\* Whatever commits between two of their statements, the row counts that
\* claim, recovery and publication insist on are the ones they find: a
\* heartbeat or a queue expiry never makes them report a broken store.
RowCountsAgree == mismatch \subseteq {"request_cancellation"}

\* The row locks that the next statement of a session asks for, of the jobs
\* that its WHERE clause may match.  Selects with SKIP LOCKED ask for none.
WantsRow(s, j) ==
    \/ /\ tx[s].pc \in {"claim_dispatch", "start", "cancel", "flag",
                        "publish_cancelled", "publish_success", "publish_failure"}
       /\ j = tx[s].j
    \/ At(s, "recover") /\ j \in tx[s].batch
    \/ At(s, "delete_expired_terminal_jobs") /\ Finished(j)
WantsAttempt(s, j) ==
    \/ tx[s].pc \in {"own", "clear claim"} /\ j = tx[s].j
    \/ tx[s].pc \in {"heartbeat_claims", "clear claims"} /\ j \in tx[s].batch
    \/ At(s, "delete_expired_terminal_jobs") /\ Finished(j)

WaitsFor(s, t) ==
    /\ s # t
    /\ \/ \E j \in DOMAIN tx[t].rows : WantsRow(s, j)
       \/ \E j \in DOMAIN tx[t].attempts : WantsAttempt(s, j)

\* Row locks are never waited for in a circle: of any open transactions one
\* waits for none of the others, so PostgreSQL never aborts one to break a
\* deadlock between them.
NoLockCycle ==
    \A S \in SUBSET {s \in Sessions : Busy(s)} :
        S # {} => \E s \in S : \A t \in S : ~WaitsFor(s, t)

\* Nothing but rows is waited for inside a transaction: whoever waits for no
\* row can run its next statement.  The advisory lock is taken first, before
\* any row, so it cannot close a circle either.
WaitsForRowsOnly ==
    \A s \in Sessions :
        Busy(s) /\ (\A t \in Sessions : ~WaitsFor(s, t)) => ENABLED Run(s)

\* request_cancellation is documented to raise the unavailable error only if
\* PostgreSQL cannot record the cancellation; a finished job is a conflict.
CancellationFindsItsRow == "request_cancellation" \notin mismatch
=============================================================================
