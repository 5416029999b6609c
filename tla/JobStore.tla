------------------------------ MODULE JobStore ------------------------------
(***************************************************************************)
(* The durable Transcription Job store, jobs/repository.py: one row per    *)
(* job in transcription_job (with its idempotency, exclusion and result    *)
(* rows, which live and die with it) and the claim columns of its          *)
(* execution-attempt row.  Every repository method is one action that      *)
(* happens at the instant its transaction reads the clock; a call that     *)
(* changes no row (a stale claim, a replayed submission) is a stuttering   *)
(* step.  How the statements of two transactions interleave is the subject *)
(* of module PgSessions, the publication columns that of JobDispatch.      *)
(***************************************************************************)
EXTENDS Integers, FiniteSets

CONSTANTS
    MaxJobs,         \* bound: rows the identity column hands out
    MaxTime,         \* bound: the clock stops here
    Workers,         \* worker_owner UUIDs, one per worker process
    Keys,            \* Idempotency-Key values
    Requests,        \* request identities: submitted URL and exclusions
    MaxOutstanding,  \* TEXTIFY_MAX_OUTSTANDING_JOBS
    QueueTimeout,    \* job_queue_timeout_seconds
    Retention,       \* job_retention_seconds
    ClaimLease,      \* attempt_lease_seconds
    BatchLimit,      \* ReconcilerPolicy.dispatch_batch_size
    Null             \* SQL NULL in a column that holds a UUID or an identity

ASSUME BoundsAssumption ==
    /\ MaxJobs \in Nat
    /\ MaxTime \in Nat

\* The repository's constructor refuses nonpositive policy values, and every
\* method refuses a nonpositive lease duration or limit.
ASSUME PolicyAssumption ==
    /\ MaxOutstanding \in Nat \ {0}
    /\ QueueTimeout \in Nat \ {0}
    /\ Retention \in Nat \ {0}
    /\ ClaimLease \in Nat \ {0}
    /\ BatchLimit \in Nat \ {0}

ASSUME NullAssumption == Null \notin Workers \cup Keys \cup Requests

VARIABLES
    now,      \* the UTC clock every process of the host reads
    lastId,   \* last value the identity column handed out
    job,      \* transcription_job and its dependent rows, by internal id
    claim,    \* worker_owner and claim_lease_expires_at, by internal id
    starts    \* history: how many claims were ever granted for the id

vars == <<now, lastId, job, claim, starts>>

Jobs == 1 .. MaxJobs
NoTime == -1
Time == Nat
Outcome == {"none", "succeeded", "failed", "cancelled"}
ErrorCode == {"none", "queue_timeout", "worker_interrupted", "execution_error"}

JobRow ==
    [status : {"absent", "queued", "processing", "finished"},
     outcome : Outcome,
     error : ErrorCode,
     cancellationRequested : BOOLEAN,
     submittedAt : Time \cup {NoTime},
     startedAt : Time \cup {NoTime},
     finishedAt : Time \cup {NoTime},
     hasResult : BOOLEAN,
     key : Keys \cup {Null},
     request : Requests \cup {Null}]

\* No row: the id was never handed out, or retention deleted the job.
AbsentRow ==
    [status |-> "absent", outcome |-> "none", error |-> "none",
     cancellationRequested |-> FALSE, submittedAt |-> NoTime,
     startedAt |-> NoTime, finishedAt |-> NoTime, hasResult |-> FALSE,
     key |-> Null, request |-> Null]

NewRow(key, request, t) ==
    [AbsentRow EXCEPT !.status = "queued", !.submittedAt = t,
                      !.key = key, !.request = request]

\* last_heartbeat_at is always claim_lease_expires_at minus the lease.
Claim == [owner : Workers \cup {Null}, expiresAt : Time \cup {NoTime}]
NoClaim == [owner |-> Null, expiresAt |-> NoTime]

-----------------------------------------------------------------------------
(* What the queries select. *)

Exists(j) == job[j].status # "absent"
Queued(j) == job[j].status = "queued"
Processing(j) == job[j].status = "processing"
Finished(j) == job[j].status = "finished"

QueueDeadline(j) == job[j].submittedAt + QueueTimeout
DeadlineReached(j) == QueueDeadline(j) <= now

\* Order by submitted_at, id.  Every job has the same queue timeout, so this
\* is also the order by queue_deadline_at, id.
OlderThan(i, j) ==
    \/ job[i].submittedAt < job[j].submittedAt
    \/ job[i].submittedAt = job[j].submittedAt /\ i < j

\* Order by claim_lease_expires_at, id.
ExpiresBefore(i, j) ==
    \/ claim[i].expiresAt < claim[j].expiresAt
    \/ claim[i].expiresAt = claim[j].expiresAt /\ i < j

\* ORDER BY ... LIMIT n
FirstOf(S, n, Before(_, _)) ==
    {j \in S : Cardinality({i \in S : Before(i, j)}) < n}

Outstanding == {j \in Jobs : job[j].status \in {"queued", "processing"}}

\* The jobs a claim may be granted for: queued and before their deadline.
Eligible == {j \in Jobs : Queued(j) /\ ~DeadlineReached(j)}

ExpiredQueued == {j \in Jobs : Queued(j) /\ DeadlineReached(j)}

ExpiredClaims == {j \in Jobs : Processing(j) /\ claim[j].expiresAt <= now}

\* The claim a worker holds and whose lease is live: the guard of every
\* publication and renewal.
ActiveClaim(j, w) == claim[j].owner = w /\ claim[j].expiresAt > now

\* Terminal rows past the retention cutoff answer as unknown before cleanup
\* deletes them.
TerminalJobIsExpired(j) == Finished(j) /\ job[j].finishedAt <= now - Retention

\* The row a submission with this key is answered from, if any.
Replayed(key) == {j \in Jobs : Exists(j) /\ job[j].key = key}

FinishedRow(row, outcome, error) ==
    [row EXCEPT !.status = "finished", !.outcome = outcome,
                !.error = error, !.finishedAt = now]

-----------------------------------------------------------------------------
(* Repository methods. *)

\* Mutation: the replay lookup sees active jobs only.
MutCreateIgnoresFinished(key, request) ==
    /\ Replayed(key) \cap Outstanding = {}
    /\ Cardinality(Outstanding) < MaxOutstanding
    /\ lastId < MaxJobs
    /\ lastId' = lastId + 1
    /\ job' = [job EXCEPT ![lastId + 1] = NewRow(key, request, now)]
    /\ UNCHANGED <<now, claim, starts>>

\* Admit a new job; a key with a retained job is replayed or refused as a
\* conflict, which writes nothing.
create_queued(key, request) ==
    /\ Replayed(key) = {}
    /\ Cardinality(Outstanding) < MaxOutstanding
    /\ lastId < MaxJobs
    /\ lastId' = lastId + 1
    /\ job' = [job EXCEPT ![lastId + 1] = NewRow(key, request, now)]
    /\ UNCHANGED <<now, claim, starts>>

\* Fail a bounded batch of queued jobs past their deadline, skipping the
\* rows other transactions have locked.
expire_queued_jobs(locked) ==
    LET batch == FirstOf(ExpiredQueued \ locked, BatchLimit, OlderThan)
    IN  /\ batch # {}
        /\ job' = [j \in Jobs |->
                     IF j \in batch
                     THEN FinishedRow(job[j], "failed", "queue_timeout")
                     ELSE job[j]]
        /\ UNCHANGED <<now, lastId, claim, starts>>

\* A delivery that arrives after the queue deadline finishes the job.
ClaimTimesOut(j) ==
    /\ Queued(j) /\ DeadlineReached(j)
    /\ job' = [job EXCEPT ![j] = FinishedRow(@, "failed", "queue_timeout")]
    /\ UNCHANGED <<now, lastId, claim, starts>>

\* A claim is granted for the oldest eligible job only.
ClaimGranted(j, w) ==
    /\ j \in Eligible
    /\ \A i \in Eligible \ {j} : OlderThan(j, i)
    /\ claim[j].owner = Null
    /\ job' = [job EXCEPT ![j].status = "processing", ![j].startedAt = now]
    /\ claim' = [claim EXCEPT ![j] = [owner |-> w, expiresAt |-> now + ClaimLease]]
    /\ starts' = [starts EXCEPT ![j] = @ + 1]
    /\ UNCHANGED <<now, lastId>>

\* The delivered dispatch names the job by id and by the token of its one
\* execution attempt; tokens are fresh UUIDs, so they are identified here.
claim_dispatch(j, w) == ClaimTimesOut(j) \/ ClaimGranted(j, w)

\* Renew the claims of one worker that are still live.
heartbeat_claims(w, S) ==
    LET renewed == {j \in S : Processing(j) /\ ActiveClaim(j, w)}
    IN  /\ renewed # {}
        /\ claim' = [j \in Jobs |->
                       IF j \in renewed
                       THEN [claim[j] EXCEPT !.expiresAt = now + ClaimLease]
                       ELSE claim[j]]
        /\ UNCHANGED <<now, lastId, job, starts>>

\* Mutation: an interrupted job goes back to the queue.
MutRecoverRequeues(locked) ==
    LET batch == FirstOf(ExpiredClaims \ locked, BatchLimit, ExpiresBefore)
    IN  /\ batch # {}
        /\ job' = [j \in Jobs |->
                     IF j \in batch
                     THEN IF job[j].cancellationRequested
                          THEN FinishedRow(job[j], "cancelled", "none")
                          ELSE [job[j] EXCEPT !.status = "queued", !.startedAt = NoTime]
                     ELSE job[j]]
        /\ claim' = [j \in Jobs |-> IF j \in batch THEN NoClaim ELSE claim[j]]
        /\ UNCHANGED <<now, lastId, starts>>

\* Finish a bounded batch of jobs whose worker stopped renewing.
recover_expired_claims(locked) ==
    LET batch == FirstOf(ExpiredClaims \ locked, BatchLimit, ExpiresBefore)
    IN  /\ batch # {}
        /\ job' = [j \in Jobs |->
                     IF j \in batch
                     THEN IF job[j].cancellationRequested
                          THEN FinishedRow(job[j], "cancelled", "none")
                          ELSE FinishedRow(job[j], "failed", "worker_interrupted")
                     ELSE job[j]]
        /\ claim' = [j \in Jobs |-> IF j \in batch THEN NoClaim ELSE claim[j]]
        /\ UNCHANGED <<now, lastId, starts>>

\* Delete every terminal job past retention, its dependent rows by cascade.
delete_expired_terminal_jobs ==
    LET deleted == {j \in Jobs : TerminalJobIsExpired(j)}
    IN  /\ deleted # {}
        /\ job' = [j \in Jobs |-> IF j \in deleted THEN AbsentRow ELSE job[j]]
        /\ claim' = [j \in Jobs |-> IF j \in deleted THEN NoClaim ELSE claim[j]]
        /\ UNCHANGED <<now, lastId, starts>>

\* Mutation: the flag is also raised on a job that never started.
MutCancelFlagsQueued(j) ==
    /\ \/ /\ Queued(j)
          /\ job' = [job EXCEPT ![j] = [FinishedRow(@, "cancelled", "none")
                                          EXCEPT !.cancellationRequested = TRUE]]
       \/ /\ Processing(j) /\ ~job[j].cancellationRequested
          /\ job' = [job EXCEPT ![j].cancellationRequested = TRUE]
    /\ UNCHANGED <<now, lastId, claim, starts>>

\* Queued work is cancelled at once; processing work is flagged for its
\* worker; a terminal job is left alone.
request_cancellation(j) ==
    /\ \/ /\ Queued(j)
          /\ job' = [job EXCEPT ![j] = FinishedRow(@, "cancelled", "none")]
       \/ /\ Processing(j) /\ ~job[j].cancellationRequested
          /\ job' = [job EXCEPT ![j].cancellationRequested = TRUE]
    /\ UNCHANGED <<now, lastId, claim, starts>>

\* Common shape of the three terminal publications of a worker.
Publish(j, w, cancelled, row) ==
    /\ Processing(j)
    /\ job[j].cancellationRequested = cancelled
    /\ ActiveClaim(j, w)
    /\ job' = [job EXCEPT ![j] = row]
    /\ claim' = [claim EXCEPT ![j] = NoClaim]
    /\ UNCHANGED <<now, lastId, starts>>

publish_cancelled(j, w) ==
    Publish(j, w, TRUE, FinishedRow(job[j], "cancelled", "none"))

publish_success(j, w) ==
    Publish(j, w, FALSE,
            [FinishedRow(job[j], "succeeded", "none") EXCEPT !.hasResult = TRUE])

publish_failure(j, w) ==
    Publish(j, w, FALSE, FinishedRow(job[j], "failed", "execution_error"))

\* Time passes.
Tick == now < MaxTime /\ now' = now + 1 /\ UNCHANGED <<lastId, job, claim, starts>>

-----------------------------------------------------------------------------

Init ==
    /\ now = 0
    /\ lastId = 0
    /\ job = [j \in Jobs |-> AbsentRow]
    /\ claim = [j \in Jobs |-> NoClaim]
    /\ starts = [j \in Jobs |-> 0]

Next ==
    \/ \E key \in Keys, request \in Requests : create_queued(key, request)
    \/ \E locked \in SUBSET Jobs : expire_queued_jobs(locked)
    \/ \E j \in Jobs, w \in Workers : claim_dispatch(j, w)
    \/ \E w \in Workers, S \in SUBSET Jobs : heartbeat_claims(w, S)
    \/ \E locked \in SUBSET Jobs : recover_expired_claims(locked)
    \/ delete_expired_terminal_jobs
    \/ \E j \in Jobs : request_cancellation(j)
    \/ \E j \in Jobs, w \in Workers : publish_cancelled(j, w)
    \/ \E j \in Jobs, w \in Workers : publish_success(j, w)
    \/ \E j \in Jobs, w \in Workers : publish_failure(j, w)
    \/ Tick

Spec == Init /\ [][Next]_vars

-----------------------------------------------------------------------------
(* Properties. *)

\* Every variable has its type: one row and one set of claim columns per id.
TypeOK ==
    /\ now \in Time
    /\ lastId \in 0 .. MaxJobs
    /\ job \in [Jobs -> JobRow]
    /\ claim \in [Jobs -> Claim]
    /\ starts \in [Jobs -> Nat]

NoError(r) == r.error = "none"

\* The three disjuncts of transcription_job_lifecycle_check.
QueuedRowOK(r) ==
    /\ r.outcome = "none" /\ NoError(r)
    /\ r.startedAt = NoTime /\ r.finishedAt = NoTime
    /\ ~r.cancellationRequested

ProcessingRowOK(r) ==
    /\ r.outcome = "none" /\ NoError(r)
    /\ r.startedAt # NoTime /\ r.finishedAt = NoTime

FinishedRowOK(r) ==
    /\ r.finishedAt # NoTime
    /\ \/ /\ r.outcome = "succeeded" /\ NoError(r)
          /\ r.startedAt # NoTime /\ ~r.cancellationRequested
       \/ /\ r.outcome = "failed" /\ ~NoError(r) /\ ~r.cancellationRequested
          /\ r.startedAt # NoTime \/ r.error = "queue_timeout"
       \/ /\ r.outcome = "cancelled" /\ NoError(r)
          /\ r.cancellationRequested <=> r.startedAt # NoTime

\* transcription_job_timestamp_order_check.
TimestampsOrdered(r) ==
    /\ r.startedAt # NoTime => r.submittedAt <= r.startedAt
    /\ r.finishedAt # NoTime =>
         r.finishedAt >= (IF r.startedAt = NoTime THEN r.submittedAt ELSE r.startedAt)

\* No sequence of repository calls of any processes trips the lifecycle and
\* timestamp CHECK constraints of transcription_job, and a result row exists
\* exactly for the succeeded jobs get_job will look one up for.
LifecycleCheck ==
    \A j \in Jobs :
        /\ Queued(j) => QueuedRowOK(job[j])
        /\ Processing(j) => ProcessingRowOK(job[j])
        /\ Finished(j) => FinishedRowOK(job[j])
        /\ Exists(j) => TimestampsOrdered(job[j])
        /\ job[j].hasResult <=> job[j].outcome = "succeeded"

\* A job is processing exactly while an attempt row names the worker that
\* owns it: a processing job without an owner could never be recovered, an
\* owner left on a finished job would look like work in progress.
OwnedExactlyWhileProcessing ==
    \A j \in Jobs : /\ claim[j].owner # Null <=> Processing(j)
                    /\ claim[j].expiresAt # NoTime <=> Processing(j)

\* Duplicate and late deliveries, redispatch and recovery never start a job a
\* second time.
StartedAtMostOnce == \A j \in Jobs : starts[j] <= 1

\* FIFO as a rule about outcomes: no job that was submitted earlier and could
\* still be claimed is waiting behind one that was started.
NoOvertaking ==
    \A i, j \in Jobs :
        i \in Eligible /\ Exists(j) /\ job[j].startedAt # NoTime => ~OlderThan(i, j)

\* Admission keeps queued and processing jobs within the configured maximum.
CapacityRespected == Cardinality(Outstanding) <= MaxOutstanding

\* A key names at most one retained job, so a replay has one answer and the
\* unique constraint on idempotency_key never aborts an admission.
KeyNamesOneJob ==
    \A i, j \in Jobs : Exists(i) /\ Exists(j) /\ job[i].key = job[j].key => i = j

\* What get_job answers for a row: the fields a client is shown.
Answer(status, row) ==
    [status |-> status, outcome |-> row.outcome, error |-> row.error,
     startedAt |-> row.startedAt, finishedAt |-> row.finishedAt,
     cancelling |-> status = "processing" /\ row.cancellationRequested]

\* What the decoders of get_job accept; they raise on any other row.
Decodes(row) ==
    \/ row.status = "queued"
    \/ row.status = "processing" /\ row.startedAt # NoTime
    \/ /\ row.status = "finished" /\ row.finishedAt # NoTime
       /\ \/ /\ row.outcome = "succeeded" /\ row.hasResult
             /\ row.startedAt # NoTime /\ ~row.cancellationRequested
          \/ row.outcome = "failed" /\ row.error # "none" /\ ~row.cancellationRequested
          \/ /\ row.outcome = "cancelled" /\ row.error = "none"
             /\ row.cancellationRequested <=> row.startedAt # NoTime

\* A job that is unknown answers 404, a row that does not decode 503, and
\* from then on the API refuses every store call.
get_job(j) ==
    IF ~Exists(j) \/ TerminalJobIsExpired(j) THEN Answer("unknown", AbsentRow)
    ELSE IF Decodes(job[j]) THEN Answer(job[j].status, job[j])
    ELSE Answer("unavailable", AbsentRow)

\* What the next poll may answer: a queued or processing job does not vanish
\* before its outcome could be read, a start is not undone or moved, an
\* announced cancellation is not withdrawn, a finished job stays as it was
\* shown until it is unknown for good.
MayFollow(seen, next) ==
    /\ next.status # "unavailable"
    /\ seen.status = "queued" => next.status # "unknown"
    /\ seen.status = "processing" =>
         /\ next.status \in {"processing", "finished"}
         /\ next.startedAt = seen.startedAt
         /\ seen.cancelling => next.cancelling \/ next.outcome = "cancelled"
    /\ seen.status = "finished" => next = seen \/ next.status = "unknown"
    /\ seen.status = "unknown" => next.status = "unknown"

\* A client that polls the id it was given never meets a row that the API
\* cannot decode and never sees its job go backwards.
PollingNeverGoesBack == [][\A j \in 1 .. lastId : MayFollow(get_job(j), get_job(j)')]_vars

\* A terminal row is never rewritten; it goes away only once its retention
\* has passed, and its id is not used again.
TerminalIsFinal ==
    [][\A j \in Jobs :
         /\ Finished(j) => \/ job'[j] = job[j]
                           \/ TerminalJobIsExpired(j) /\ job'[j] = AbsentRow
         /\ j <= lastId /\ ~Exists(j) => job'[j] = AbsentRow]_vars

\* Once a cancellation is accepted for a processing job no later step
\* withdraws it, and the job can finish in no other way.
AcceptedCancellationHolds ==
    [][\A j \in Jobs :
         Processing(j) /\ job[j].cancellationRequested /\ job'[j] # job[j]
           => /\ job'[j].status = "finished"
              /\ job'[j].outcome = "cancelled"
              /\ job'[j].cancellationRequested]_vars

\* What a client may observe of a job, as the contract TranscriptionJob
\* names it.
phaseView ==
    [j \in Jobs |->
       IF Finished(j) THEN job[j].outcome
       ELSE IF Exists(j) THEN job[j].status
       ELSE IF j <= lastId THEN "deleted" ELSE "unsubmitted"]

cancellingView == [j \in Jobs |-> job[j].cancellationRequested]

Contract == INSTANCE TranscriptionJob
    WITH Capacity <- MaxOutstanding, phase <- phaseView, cancelling <- cancellingView

\* The store implements the contract: every repository call is a legal move
\* of the jobs it touches.
ImplementsContract == Contract!Spec
=============================================================================
