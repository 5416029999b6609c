--------------------------- MODULE JobStoreProofs ---------------------------
(***************************************************************************)
(* Proofs about the job store, for every number of jobs, workers, keys and *)
(* every policy, in two parts.                                             *)
(*                                                                         *)
(* Part 1 is about Spec of JobStore, whose steps are whole methods.  Its   *)
(* argument has three layers: StepMoves says that a step of Next moves     *)
(* each row in one of eight ways; RowPreserved says that each of them      *)
(* preserves what is local to a row; the invariants that relate several    *)
(* rows (FIFO, capacity, keys) are proved on top of both.                  *)
(*                                                                         *)
(* Part 2 is about PgSpec of PgSessions: however the statements of         *)
(* concurrent transactions interleave, and wherever a connection is lost,  *)
(* the committed rows satisfy the constraints, ownership goes with the     *)
(* status, FIFO order holds, and no method finds another row count than    *)
(* the one it insists on.  A row or an attempt that a transaction has      *)
(* locked is locked by nobody else, so what its earlier statements found   *)
(* there is still true at its next one; an attempt that is locked without  *)
(* its row is only renewed, a row without its attempt only leaves the      *)
(* queue or is flagged.  Every commit therefore moves each row as one of   *)
(* five changes does, and none of these disturbs what another transaction  *)
(* relies on.  FIFO order, and that recovery finds the flags its SELECT    *)
(* found, rest on the advisory lock besides.                               *)
(***************************************************************************)
EXTENDS PgSessions, FiniteSetTheorems, TLAPS

-----------------------------------------------------------------------------
(* Part 1: whole methods. *)

-----------------------------------------------------------------------------
(* The ways in which a step may move one job. *)

Stays(j) ==
    /\ job'[j] = job[j] /\ starts'[j] = starts[j]
    /\ claim'[j].owner = claim[j].owner
    /\ claim'[j].expiresAt = NoTime <=> claim[j].expiresAt = NoTime

Admitted(j) ==
    /\ j = lastId + 1 /\ lastId' = lastId + 1
    /\ Cardinality(Outstanding) < MaxOutstanding
    /\ \E key \in Keys, request \in Requests :
          Replayed(key) = {} /\ job'[j] = NewRow(key, request, now)
    /\ claim'[j] = claim[j] /\ starts'[j] = starts[j]

TimedOut(j) ==
    /\ Queued(j)
    /\ job'[j] = FinishedRow(job[j], "failed", "queue_timeout")
    /\ claim'[j] = claim[j] /\ starts'[j] = starts[j]

CancelledInQueue(j) ==
    /\ Queued(j)
    /\ job'[j] = FinishedRow(job[j], "cancelled", "none")
    /\ claim'[j] = claim[j] /\ starts'[j] = starts[j]

Granted(j) ==
    /\ Queued(j)
    /\ \A i \in Eligible \ {j} : OlderThan(j, i)
    /\ job'[j] = [job[j] EXCEPT !.status = "processing", !.startedAt = now]
    /\ \E w \in Workers : claim'[j] = [owner |-> w, expiresAt |-> now + ClaimLease]
    /\ starts'[j] = starts[j] + 1

Flagged(j) ==
    /\ Processing(j) /\ ~job[j].cancellationRequested
    /\ job'[j] = [job[j] EXCEPT !.cancellationRequested = TRUE]
    /\ claim'[j] = claim[j] /\ starts'[j] = starts[j]

Settled(j) ==
    /\ Processing(j)
    /\ \/ job[j].cancellationRequested /\ job'[j] = FinishedRow(job[j], "cancelled", "none")
       \/ /\ ~job[j].cancellationRequested
          /\ \/ job'[j] = [FinishedRow(job[j], "succeeded", "none") EXCEPT !.hasResult = TRUE]
             \/ job'[j] = FinishedRow(job[j], "failed", "execution_error")
             \/ job'[j] = FinishedRow(job[j], "failed", "worker_interrupted")
    /\ claim'[j] = NoClaim /\ starts'[j] = starts[j]

Deleted(j) ==
    /\ TerminalJobIsExpired(j)
    /\ job'[j] = AbsentRow
    /\ claim'[j] = NoClaim /\ starts'[j] = starts[j]

RowStep(j) ==
    \/ Stays(j) \/ Admitted(j) \/ TimedOut(j) \/ CancelledInQueue(j)
    \/ Granted(j) \/ Flagged(j) \/ Settled(j) \/ Deleted(j)

\* Every step moves every row in one of these ways, the clock never goes
\* back and the identity column only counts on.
Moves ==
    /\ now' \in Time /\ now' >= now
    /\ lastId' \in 0 .. MaxJobs /\ lastId' >= lastId
    /\ job' \in [Jobs -> JobRow]
    /\ claim' \in [Jobs -> Claim]
    /\ starts' \in [Jobs -> Nat]
    /\ \A j \in Jobs : RowStep(j)

-----------------------------------------------------------------------------
(* Types of the rows the actions write. *)

\* The rows built from nothing are rows.
LEMMA FreshRowTypes ==
    /\ AbsentRow \in JobRow
    /\ NoClaim \in Claim
    /\ \A key \in Keys, request \in Requests, t \in Time : NewRow(key, request, t) \in JobRow
  <1>1. AbsentRow \in JobRow
    BY DEF AbsentRow, JobRow, Outcome, ErrorCode
  <1>2. NoClaim \in Claim
    BY DEF NoClaim, Claim
  <1>3. ASSUME NEW key \in Keys, NEW request \in Requests, NEW t \in Time
        PROVE  NewRow(key, request, t) \in JobRow
    BY <1>1 DEF NewRow, JobRow
  <1> QED BY <1>1, <1>2, <1>3

\* The final UPDATE of a row keeps it a row.
LEMMA FinishedRowType ==
    ASSUME now \in Time, NEW row \in JobRow, NEW outcome \in Outcome, NEW error \in ErrorCode
    PROVE  /\ FinishedRow(row, outcome, error) \in JobRow
           /\ [FinishedRow(row, outcome, error) EXCEPT !.hasResult = TRUE] \in JobRow
  BY DEF FinishedRow, JobRow

\* So do the UPDATEs of a claim and of a cancellation request.
LEMMA ActiveRowTypes ==
    ASSUME now \in Time, NEW row \in JobRow
    PROVE  /\ [row EXCEPT !.status = "processing", !.startedAt = now] \in JobRow
           /\ [row EXCEPT !.cancellationRequested = TRUE] \in JobRow
  BY DEF JobRow

\* ORDER BY and LIMIT only choose among the selected rows.
LEMMA ExpiredBatchSelected ==
    ASSUME NEW S, NEW n
    PROVE  /\ FirstOf(S, n, OlderThan) \subseteq S
           /\ FirstOf(S, n, ExpiresBefore) \subseteq S
  BY DEF FirstOf

-----------------------------------------------------------------------------
(* One step per action. *)

\* A submission writes the next row only.
LEMMA CreateMoves ==
    ASSUME TypeOK, NEW key \in Keys, NEW request \in Requests, create_queued(key, request)
    PROVE  Moves
  <1>1. lastId + 1 \in Jobs
    BY BoundsAssumption DEF TypeOK, create_queued, Jobs
  <1>2. NewRow(key, request, now) \in JobRow
    BY FreshRowTypes DEF TypeOK
  <1>3. job' \in [Jobs -> JobRow]
    BY <1>2 DEF TypeOK, create_queued
  <1>4. \A j \in Jobs : RowStep(j)
    <2> TAKE j \in Jobs
    <2>1. CASE j = lastId + 1
      <3>1. job'[j] = NewRow(key, request, now)
        BY <2>1 DEF TypeOK, create_queued
      <3>2. Admitted(j)
        BY <2>1, <3>1 DEF create_queued, Admitted
      <3> QED BY <3>2 DEF RowStep
    <2>2. CASE j # lastId + 1
      <3>1. Stays(j)
        BY <2>2 DEF TypeOK, create_queued, Stays
      <3> QED BY <3>1 DEF RowStep
    <2> QED BY <2>1, <2>2
  <1> QED
    BY <1>1, <1>3, <1>4, BoundsAssumption DEF TypeOK, create_queued, Moves, Time, Jobs

\* Queue expiry, and a delivery past the deadline, time rows out.
LEMMA ExpireMoves ==
    ASSUME TypeOK, NEW locked \in SUBSET Jobs, expire_queued_jobs(locked)
    PROVE  Moves
  <1> DEFINE batch == FirstOf(ExpiredQueued \ locked, BatchLimit, OlderThan)
  <1>1. batch \subseteq ExpiredQueued
    BY ExpiredBatchSelected
  <1>2. job' = [j \in Jobs |-> IF j \in batch
                               THEN FinishedRow(job[j], "failed", "queue_timeout")
                               ELSE job[j]]
    BY DEF expire_queued_jobs
  <1>3. UNCHANGED <<now, lastId, claim, starts>>
    BY DEF expire_queued_jobs
  <1> HIDE DEF batch
  <1>4. \A j \in Jobs : FinishedRow(job[j], "failed", "queue_timeout") \in JobRow
    BY FinishedRowType DEF TypeOK, Outcome, ErrorCode
  <1>5. \A j \in Jobs : RowStep(j)
    <2> TAKE j \in Jobs
    <2>1. CASE j \in batch
      BY <1>1, <1>2, <1>3, <2>1 DEF RowStep, TimedOut, ExpiredQueued
    <2>2. CASE j \notin batch
      BY <1>2, <1>3, <2>2 DEF RowStep, Stays
    <2> QED BY <2>1, <2>2
  <1>6. job' \in [Jobs -> JobRow]
    BY <1>2, <1>4 DEF TypeOK
  <1> QED
    BY <1>3, <1>5, <1>6 DEF TypeOK, Moves, Time

\* A delivery times its job out or is granted the claim.
LEMMA ClaimMoves ==
    ASSUME TypeOK, NEW d \in Jobs, NEW w \in Workers, claim_dispatch(d, w)
    PROVE  Moves
  <1>1. CASE ClaimTimesOut(d)
    <2>1. FinishedRow(job[d], "failed", "queue_timeout") \in JobRow
      BY FinishedRowType DEF TypeOK, Outcome, ErrorCode
    <2>2. job' \in [Jobs -> JobRow]
      BY <1>1, <2>1 DEF TypeOK, ClaimTimesOut
    <2>3. \A j \in Jobs : RowStep(j)
      <3> TAKE j \in Jobs
      <3>1. CASE j = d
        BY <1>1, <3>1 DEF TypeOK, ClaimTimesOut, RowStep, TimedOut
      <3>2. CASE j # d
        BY <1>1, <3>2 DEF TypeOK, ClaimTimesOut, RowStep, Stays
      <3> QED BY <3>1, <3>2
    <2> QED BY <1>1, <2>2, <2>3 DEF TypeOK, ClaimTimesOut, Moves, Time
  <1>2. CASE ClaimGranted(d, w)
    <2> DEFINE row == [job[d] EXCEPT !.status = "processing", !.startedAt = now]
               held == [owner |-> w, expiresAt |-> now + ClaimLease]
    <2>1. row \in JobRow /\ held \in Claim
      <3>1. row \in JobRow
        BY ActiveRowTypes DEF TypeOK
      <3>2. held \in Claim
        BY PolicyAssumption DEF TypeOK, Claim, Time
      <3> QED BY <3>1, <3>2
    <2>2. job' = [job EXCEPT ![d] = row]
      BY <1>2 DEF TypeOK, ClaimGranted
    <2>3. claim' = [claim EXCEPT ![d] = held]
      BY <1>2 DEF ClaimGranted
    <2>4. Queued(d) /\ \A i \in Eligible \ {d} : OlderThan(d, i)
      BY <1>2 DEF ClaimGranted, Eligible
    <2> HIDE DEF row, held
    <2>5. \A j \in Jobs : RowStep(j)
      <3> TAKE j \in Jobs
      <3>1. CASE j = d
        <4>1. job'[j] = row /\ claim'[j] = held /\ starts'[j] = starts[j] + 1
          BY <1>2, <2>2, <2>3, <3>1 DEF TypeOK, ClaimGranted
        <4>2. Granted(j)
          BY <4>1, <2>4, <3>1 DEF Granted, row, held
        <4> QED BY <4>2 DEF RowStep
      <3>2. CASE j # d
        BY <1>2, <2>2, <2>3, <3>2 DEF TypeOK, ClaimGranted, RowStep, Stays
      <3> QED BY <3>1, <3>2
    <2>6. job' \in [Jobs -> JobRow] /\ claim' \in [Jobs -> Claim]
      BY <2>1, <2>2, <2>3 DEF TypeOK
    <2> QED BY <1>2, <2>5, <2>6 DEF TypeOK, ClaimGranted, Moves, Time
  <1> QED BY <1>1, <1>2 DEF claim_dispatch

\* A heartbeat moves lease ends only.
LEMMA HeartbeatMoves ==
    ASSUME TypeOK, NEW w \in Workers, NEW S \in SUBSET Jobs, heartbeat_claims(w, S)
    PROVE  Moves
  <1> DEFINE renewed == {j \in S : Processing(j) /\ ActiveClaim(j, w)}
  <1>1. claim' = [j \in Jobs |-> IF j \in renewed
                                 THEN [claim[j] EXCEPT !.expiresAt = now + ClaimLease]
                                 ELSE claim[j]]
    BY DEF heartbeat_claims
  <1>2. UNCHANGED <<now, lastId, job, starts>>
    BY DEF heartbeat_claims
  <1>3. \A j \in renewed : claim[j].expiresAt > now
    BY DEF ActiveClaim
  <1> HIDE DEF renewed
  <1>4. claim' \in [Jobs -> Claim]
    BY <1>1, PolicyAssumption DEF TypeOK, Claim, Time
  <1>5. \A j \in Jobs : RowStep(j)
    <2> TAKE j \in Jobs
    <2>1. CASE j \in renewed
      <3>1. claim[j].expiresAt # NoTime
        BY <1>3, <2>1 DEF TypeOK, Time, NoTime
      <3>2. claim'[j].owner = claim[j].owner /\ claim'[j].expiresAt = now + ClaimLease
        BY <1>1, <2>1 DEF TypeOK, Claim
      <3>3. claim'[j].expiresAt # NoTime
        BY <3>2, PolicyAssumption DEF TypeOK, Time, NoTime
      <3> QED BY <3>1, <3>2, <3>3, <1>2 DEF RowStep, Stays
    <2>2. CASE j \notin renewed
      BY <1>1, <1>2, <2>2 DEF RowStep, Stays
    <2> QED BY <2>1, <2>2
  <1> QED BY <1>2, <1>4, <1>5 DEF TypeOK, Moves, Time
\* Recovery settles a batch of processing rows.
LEMMA RecoverMoves ==
    ASSUME TypeOK, NEW locked \in SUBSET Jobs, recover_expired_claims(locked)
    PROVE  Moves
  <1> DEFINE batch == FirstOf(ExpiredClaims \ locked, BatchLimit, ExpiresBefore)
             settled(j) == IF job[j].cancellationRequested
                           THEN FinishedRow(job[j], "cancelled", "none")
                           ELSE FinishedRow(job[j], "failed", "worker_interrupted")
  <1>1. batch \subseteq ExpiredClaims
    BY ExpiredBatchSelected
  <1>2. job' = [j \in Jobs |-> IF j \in batch THEN settled(j) ELSE job[j]]
    BY DEF recover_expired_claims
  <1>3. claim' = [j \in Jobs |-> IF j \in batch THEN NoClaim ELSE claim[j]]
    BY DEF recover_expired_claims
  <1>4. UNCHANGED <<now, lastId, starts>>
    BY DEF recover_expired_claims
  <1> HIDE DEF batch
  <1>5. \A j \in Jobs : settled(j) \in JobRow
    BY FinishedRowType DEF TypeOK, Outcome, ErrorCode
  <1>6. \A j \in Jobs : RowStep(j)
    <2> TAKE j \in Jobs
    <2>1. CASE j \in batch
      BY <1>1, <1>2, <1>3, <1>4, <2>1 DEF RowStep, Settled, ExpiredClaims
    <2>2. CASE j \notin batch
      BY <1>2, <1>3, <1>4, <2>2 DEF RowStep, Stays
    <2> QED BY <2>1, <2>2
  <1> HIDE DEF settled
  <1>7. job' \in [Jobs -> JobRow] /\ claim' \in [Jobs -> Claim]
    BY <1>2, <1>3, <1>5, FreshRowTypes DEF TypeOK
  <1> QED BY <1>4, <1>6, <1>7 DEF TypeOK, Moves, Time

\* Retention deletes rows.
LEMMA DeleteMoves ==
    ASSUME TypeOK, delete_expired_terminal_jobs
    PROVE  Moves
  <1>1. job' \in [Jobs -> JobRow] /\ claim' \in [Jobs -> Claim]
    BY FreshRowTypes DEF TypeOK, delete_expired_terminal_jobs
  <1>2. \A j \in Jobs : RowStep(j)
    <2> TAKE j \in Jobs
    <2>1. CASE TerminalJobIsExpired(j)
      BY <2>1 DEF delete_expired_terminal_jobs, RowStep, Deleted
    <2>2. CASE ~TerminalJobIsExpired(j)
      BY <2>2 DEF delete_expired_terminal_jobs, RowStep, Stays
    <2> QED BY <2>1, <2>2
  <1> QED BY <1>1, <1>2 DEF TypeOK, delete_expired_terminal_jobs, Moves, Time

\* A cancellation request finishes a queued row or flags a processing one.
LEMMA CancelMoves ==
    ASSUME TypeOK, NEW c \in Jobs, request_cancellation(c)
    PROVE  Moves
  <1>1. UNCHANGED <<now, lastId, claim, starts>>
    BY DEF request_cancellation
  <1>2. FinishedRow(job[c], "cancelled", "none") \in JobRow
    BY FinishedRowType DEF TypeOK, Outcome, ErrorCode
  <1>3. [job[c] EXCEPT !.cancellationRequested = TRUE] \in JobRow
    BY ActiveRowTypes DEF TypeOK
  <1>4. CASE Queued(c) /\ job' = [job EXCEPT ![c] = FinishedRow(@, "cancelled", "none")]
    <2>1. \A j \in Jobs : RowStep(j)
      <3> TAKE j \in Jobs
      <3>1. CASE j = c
        BY <1>1, <1>4, <3>1 DEF TypeOK, RowStep, CancelledInQueue
      <3>2. CASE j # c
        BY <1>1, <1>4, <3>2 DEF TypeOK, RowStep, Stays
      <3> QED BY <3>1, <3>2
    <2>2. job' \in [Jobs -> JobRow]
      BY <1>2, <1>4 DEF TypeOK
    <2> QED BY <1>1, <2>1, <2>2 DEF TypeOK, Moves, Time
  <1>5. CASE /\ Processing(c) /\ ~job[c].cancellationRequested
             /\ job' = [job EXCEPT ![c].cancellationRequested = TRUE]
    <2>1. job' = [job EXCEPT ![c] = [job[c] EXCEPT !.cancellationRequested = TRUE]]
      BY <1>5 DEF TypeOK
    <2>2. \A j \in Jobs : RowStep(j)
      <3> TAKE j \in Jobs
      <3>1. CASE j = c
        BY <1>1, <1>5, <2>1, <3>1 DEF TypeOK, RowStep, Flagged
      <3>2. CASE j # c
        BY <1>1, <2>1, <3>2 DEF TypeOK, RowStep, Stays
      <3> QED BY <3>1, <3>2
    <2>3. job' \in [Jobs -> JobRow]
      BY <1>3, <2>1 DEF TypeOK
    <2> QED BY <1>1, <2>2, <2>3 DEF TypeOK, Moves, Time
  <1> QED BY <1>4, <1>5 DEF request_cancellation

\* A worker's terminal publication settles one row.
LEMMA PublishMoves ==
    ASSUME TypeOK, NEW p \in Jobs, NEW w \in Workers,
           publish_cancelled(p, w) \/ publish_success(p, w) \/ publish_failure(p, w)
    PROVE  Moves
  <1> DEFINE settled ==
         IF job[p].cancellationRequested
         THEN {FinishedRow(job[p], "cancelled", "none")}
         ELSE {[FinishedRow(job[p], "succeeded", "none") EXCEPT !.hasResult = TRUE],
               FinishedRow(job[p], "failed", "execution_error")}
  <1>1. PICK row \in settled : job' = [job EXCEPT ![p] = row]
    BY DEF publish_cancelled, publish_success, publish_failure, Publish
  <1>2. /\ Processing(p)
        /\ claim' = [claim EXCEPT ![p] = NoClaim]
        /\ UNCHANGED <<now, lastId, starts>>
    BY DEF publish_cancelled, publish_success, publish_failure, Publish
  <1>3. row \in JobRow
    BY FinishedRowType DEF TypeOK, Outcome, ErrorCode
  <1>4. \A j \in Jobs : RowStep(j)
    <2> TAKE j \in Jobs
    <2>1. CASE j = p
      <3>1. job'[j] = row /\ claim'[j] = NoClaim /\ starts'[j] = starts[j]
        BY <1>1, <1>2, <2>1 DEF TypeOK
      <3> QED BY <3>1, <1>2, <2>1 DEF RowStep, Settled
    <2>2. CASE j # p
      BY <1>1, <1>2, <2>2 DEF TypeOK, RowStep, Stays
    <2> QED BY <2>1, <2>2
  <1>5. job' \in [Jobs -> JobRow] /\ claim' \in [Jobs -> Claim]
    BY <1>1, <1>2, <1>3, FreshRowTypes DEF TypeOK
  <1> QED BY <1>2, <1>4, <1>5 DEF TypeOK, Moves, Time

\* The clock moves no row, and neither does a call that writes nothing.
LEMMA TickMoves ==
    ASSUME TypeOK, Tick \/ UNCHANGED vars
    PROVE  Moves
  <1>1. \A j \in Jobs : RowStep(j)
    BY DEF Tick, vars, RowStep, Stays
  <1> QED BY <1>1 DEF TypeOK, Tick, vars, Moves, Time

\* Every repository call, by any process, moves every row legally.
LEMMA StepMoves ==
    ASSUME TypeOK, [Next]_vars
    PROVE  Moves
  BY CreateMoves, ExpireMoves, ClaimMoves, HeartbeatMoves, RecoverMoves, DeleteMoves,
     CancelMoves, PublishMoves, TickMoves DEF Next

-----------------------------------------------------------------------------
(* What is local to a row. *)

\* The body of LifecycleCheck.
RowLifecycle(j) ==
    /\ Queued(j) => QueuedRowOK(job[j])
    /\ Processing(j) => ProcessingRowOK(job[j])
    /\ Finished(j) => FinishedRowOK(job[j])
    /\ Exists(j) => TimestampsOrdered(job[j])
    /\ job[j].hasResult <=> job[j].outcome = "succeeded"

\* The body of OwnedExactlyWhileProcessing.
RowOwned(j) ==
    /\ claim[j].owner # Null <=> Processing(j)
    /\ claim[j].expiresAt # NoTime <=> Processing(j)

\* The strengthening that makes both inductive: a row that is not there is
\* blank, one that is there was handed out and carries no time of the future.
RowHistory(j) ==
    /\ ~Exists(j) => job[j] = AbsentRow
    /\ Exists(j) => j <= lastId /\ job[j].submittedAt # NoTime
    /\ job[j].submittedAt <= now /\ job[j].startedAt <= now /\ job[j].finishedAt <= now

\* A claim was granted at most once, and never for a job still in the queue.
RowStarts(j) ==
    /\ starts[j] <= 1
    /\ Queued(j) \/ j > lastId => starts[j] = 0

RowInv(j) == RowHistory(j) /\ RowLifecycle(j) /\ RowOwned(j) /\ RowStarts(j)

\* The inductive invariant.
StoreInv == TypeOK /\ \A j \in Jobs : RowInv(j)

\* The store starts empty.
LEMMA InitInv == Init => StoreInv
  <1> SUFFICES ASSUME Init PROVE StoreInv
    OBVIOUS
  <1>1. TypeOK
    BY FreshRowTypes, BoundsAssumption DEF Init, TypeOK, Time
  <1>2. ASSUME NEW j \in Jobs PROVE RowInv(j)
    <2>1. job[j] = AbsentRow /\ claim[j] = NoClaim /\ starts[j] = 0 /\ now = 0 /\ lastId = 0
      BY DEF Init
    <2>2. ~Exists(j) /\ ~Queued(j) /\ ~Processing(j) /\ ~Finished(j)
      BY <2>1 DEF AbsentRow, Exists, Queued, Processing, Finished
    <2>3. RowHistory(j)
      BY <2>1, <2>2 DEF RowHistory, AbsentRow, NoTime
    <2>4. RowLifecycle(j)
      BY <2>1, <2>2 DEF RowLifecycle, AbsentRow
    <2>5. RowOwned(j)
      BY <2>1, <2>2 DEF RowOwned, NoClaim
    <2>6. RowStarts(j)
      BY <2>1, <2>2 DEF RowStarts
    <2> QED BY <2>3, <2>4, <2>5, <2>6 DEF RowInv
  <1> QED BY <1>1, <1>2 DEF StoreInv

\* What the final UPDATE leaves in each column.
LEMMA FinishedRowFields ==
    ASSUME NEW row \in JobRow, NEW outcome \in Outcome, NEW error \in ErrorCode
    PROVE  LET r == FinishedRow(row, outcome, error)
           IN  /\ r.status = "finished" /\ r.outcome = outcome /\ r.error = error
               /\ r.cancellationRequested = row.cancellationRequested
               /\ r.submittedAt = row.submittedAt /\ r.startedAt = row.startedAt
               /\ r.finishedAt = now /\ r.hasResult = row.hasResult
               /\ r.key = row.key /\ r.request = row.request
  BY DEF FinishedRow, JobRow

\* Each way of moving a row keeps what is local to it.
LEMMA RowPreserved ==
    ASSUME TypeOK, Moves, NEW j \in Jobs, RowInv(j)
    PROVE  RowInv(j)'
  <1> DEFINE r == job[j]
             q == job'[j]
  <1>t. /\ r \in JobRow /\ q \in JobRow
        /\ claim[j] \in Claim /\ claim'[j] \in Claim
        /\ starts[j] \in Nat /\ starts'[j] \in Nat
        /\ now \in Nat /\ now' \in Nat /\ now' >= now
        /\ lastId \in Nat /\ lastId' \in Nat /\ lastId' >= lastId /\ j \in Nat
        /\ now # NoTime
    BY BoundsAssumption DEF TypeOK, Moves, Time, Jobs, NoTime
  <1>s. /\ r.submittedAt \in Int /\ r.startedAt \in Int /\ r.finishedAt \in Int
    BY <1>t DEF JobRow, Time, NoTime
  <1>1. CASE Stays(j)
    <2>1. q = r /\ starts'[j] = starts[j] /\ claim'[j].owner = claim[j].owner
          /\ (claim'[j].expiresAt = NoTime <=> claim[j].expiresAt = NoTime)
      BY <1>1 DEF Stays
    <2>2. RowHistory(j)'
      BY <1>t, <1>s, <2>1 DEF RowInv, RowHistory, Exists
    <2>3. RowLifecycle(j)'
      BY <2>1 DEF RowInv, RowLifecycle, Exists, Queued, Processing, Finished,
                  QueuedRowOK, ProcessingRowOK, FinishedRowOK, NoError, TimestampsOrdered
    <2>4. RowOwned(j)'
      BY <2>1 DEF RowInv, RowOwned, Processing
    <2>5. RowStarts(j)'
      BY <1>t, <2>1 DEF RowInv, RowStarts, Queued
    <2> QED BY <2>2, <2>3, <2>4, <2>5 DEF RowInv
  <1>2. CASE Admitted(j)
    <2>1. ~Exists(j) /\ r = AbsentRow /\ j = lastId + 1 /\ lastId' = lastId + 1
      BY <1>2, <1>t DEF Admitted, RowInv, RowHistory
    <2>2. /\ q.status = "queued" /\ q.outcome = "none" /\ q.error = "none"
          /\ q.cancellationRequested = FALSE /\ q.submittedAt = now
          /\ q.startedAt = NoTime /\ q.finishedAt = NoTime /\ q.hasResult = FALSE
      BY <1>2 DEF Admitted, NewRow, AbsentRow
    <2>3. claim'[j] = claim[j] /\ starts'[j] = starts[j]
      BY <1>2 DEF Admitted
    <2>4. RowHistory(j)'
      BY <1>t, <2>1, <2>2 DEF RowHistory, Exists, NoTime
    <2>5. RowLifecycle(j)'
      BY <2>2 DEF RowLifecycle, Exists, Queued, Processing, Finished,
                  QueuedRowOK, NoError, TimestampsOrdered
    <2>6. RowOwned(j)'
      BY <2>1, <2>2, <2>3 DEF RowInv, RowOwned, Processing, AbsentRow
    <2>7. RowStarts(j)'
      BY <1>t, <2>1, <2>3 DEF RowInv, RowStarts
    <2> QED BY <2>4, <2>5, <2>6, <2>7 DEF RowInv
  <1>3. CASE TimedOut(j) \/ CancelledInQueue(j)
    <2>1. PICK outcome \in Outcome, error \in ErrorCode :
             /\ q = FinishedRow(r, outcome, error)
             /\ \/ outcome = "failed" /\ error = "queue_timeout"
                \/ outcome = "cancelled" /\ error = "none"
      <3>1. /\ "failed" \in Outcome /\ "cancelled" \in Outcome
            /\ "queue_timeout" \in ErrorCode /\ "none" \in ErrorCode
        BY DEF Outcome, ErrorCode
      <3>2. \/ q = FinishedRow(r, "failed", "queue_timeout")
            \/ q = FinishedRow(r, "cancelled", "none")
        BY <1>3 DEF TimedOut, CancelledInQueue
      <3> QED BY <3>1, <3>2, Zenon
    <2>2. /\ q.status = "finished" /\ q.outcome = outcome /\ q.error = error
          /\ q.cancellationRequested = r.cancellationRequested
          /\ q.submittedAt = r.submittedAt /\ q.startedAt = r.startedAt
          /\ q.finishedAt = now /\ q.hasResult = r.hasResult
      BY <1>t, <2>1, FinishedRowFields
    <2>3. Queued(j) /\ QueuedRowOK(r) /\ claim'[j] = claim[j] /\ starts'[j] = starts[j]
      BY <1>3 DEF TimedOut, CancelledInQueue, RowInv, RowLifecycle
    <2>4. RowHistory(j)'
      BY <1>t, <1>s, <2>2, <2>3 DEF RowInv, RowHistory, Exists, Queued
    <2>5. RowLifecycle(j)'
      <3>1. FinishedRowOK(q)
        BY <1>t, <2>1, <2>2, <2>3 DEF FinishedRowOK, QueuedRowOK, NoError
      <3>2. TimestampsOrdered(q)
        BY <1>t, <1>s, <2>2, <2>3 DEF TimestampsOrdered, QueuedRowOK, RowInv, RowHistory
      <3>3. q.hasResult <=> q.outcome = "succeeded"
        BY <2>1, <2>2, <2>3 DEF QueuedRowOK, RowInv, RowLifecycle
      <3> QED BY <2>2, <3>1, <3>2, <3>3 DEF RowLifecycle, Queued, Processing, Finished
    <2>6. RowOwned(j)'
      BY <2>2, <2>3 DEF RowInv, RowOwned, Processing, Queued
    <2>7. RowStarts(j)'
      BY <1>t, <2>2, <2>3 DEF RowInv, RowStarts, Queued
    <2> QED BY <2>4, <2>5, <2>6, <2>7 DEF RowInv
  <1>4. CASE Granted(j)
    <2>1. /\ q.status = "processing" /\ q.outcome = r.outcome /\ q.error = r.error
          /\ q.submittedAt = r.submittedAt /\ q.startedAt = now
          /\ q.finishedAt = r.finishedAt /\ q.hasResult = r.hasResult
      BY <1>4, <1>t DEF Granted, JobRow
    <2>2. /\ Queued(j) /\ QueuedRowOK(r) /\ starts'[j] = starts[j] + 1
          /\ claim'[j].owner # Null /\ claim'[j].expiresAt # NoTime
      BY <1>4, <1>t, NullAssumption, PolicyAssumption
         DEF Granted, RowInv, RowLifecycle, NoTime
    <2>3. RowHistory(j)'
      BY <1>t, <1>s, <2>1, <2>2 DEF RowInv, RowHistory, Exists, Queued
    <2>4. RowLifecycle(j)'
      <3>1. ProcessingRowOK(q)
        BY <1>t, <2>1, <2>2 DEF ProcessingRowOK, QueuedRowOK, NoError
      <3>2. TimestampsOrdered(q)
        BY <1>t, <1>s, <2>1, <2>2 DEF TimestampsOrdered, QueuedRowOK, RowInv, RowHistory
      <3> QED BY <2>1, <2>2, <3>1, <3>2
              DEF RowInv, RowLifecycle, Queued, Processing, Finished
    <2>5. RowOwned(j)'
      BY <2>1, <2>2 DEF RowOwned, Processing
    <2>6. RowStarts(j)'
      BY <1>t, <2>1, <2>2, <2>3 DEF RowInv, RowStarts, RowHistory, Queued, Exists
    <2> QED BY <2>3, <2>4, <2>5, <2>6 DEF RowInv
  <1>5. CASE Flagged(j)
    <2>1. /\ q.status = r.status /\ q.outcome = r.outcome /\ q.error = r.error
          /\ q.submittedAt = r.submittedAt /\ q.startedAt = r.startedAt
          /\ q.finishedAt = r.finishedAt /\ q.hasResult = r.hasResult
      BY <1>5, <1>t DEF Flagged, JobRow
    <2>2. Processing(j) /\ claim'[j] = claim[j] /\ starts'[j] = starts[j]
      BY <1>5 DEF Flagged
    <2>3. RowHistory(j)'
      BY <1>t, <1>s, <2>1, <2>2 DEF RowInv, RowHistory, Exists, Processing
    <2>4. RowLifecycle(j)'
      BY <2>1, <2>2 DEF RowInv, RowLifecycle, Exists, Queued, Processing, Finished,
                        ProcessingRowOK, NoError, TimestampsOrdered
    <2>5. RowOwned(j)'
      BY <2>1, <2>2 DEF RowInv, RowOwned, Processing
    <2>6. RowStarts(j)'
      BY <1>t, <2>1, <2>2 DEF RowInv, RowStarts, Queued, Processing
    <2> QED BY <2>3, <2>4, <2>5, <2>6 DEF RowInv
  <1>6. CASE Settled(j)
    <2>1. /\ q.status = "finished" /\ q.finishedAt = now
          /\ q.cancellationRequested = r.cancellationRequested
          /\ q.submittedAt = r.submittedAt /\ q.startedAt = r.startedAt
          /\ \/ /\ r.cancellationRequested /\ q.hasResult = r.hasResult
                /\ q.outcome = "cancelled" /\ q.error = "none"
             \/ /\ ~r.cancellationRequested /\ q.hasResult = TRUE
                /\ q.outcome = "succeeded" /\ q.error = "none"
             \/ /\ ~r.cancellationRequested /\ q.hasResult = r.hasResult
                /\ q.outcome = "failed" /\ q.error # "none"
      BY ZenonT(60), <1>6, <1>t DEF Settled, FinishedRow, JobRow
    <2>2. /\ Processing(j) /\ ProcessingRowOK(r) /\ ~r.hasResult
          /\ claim'[j] = NoClaim /\ starts'[j] = starts[j]
      BY <1>6, <1>t DEF Settled, RowInv, RowLifecycle, ProcessingRowOK, JobRow
    <2>3. RowHistory(j)'
      BY <1>t, <1>s, <2>1, <2>2 DEF RowInv, RowHistory, Exists, Processing
    <2>4. RowLifecycle(j)'
      <3>1. FinishedRowOK(q)
        BY <1>t, <2>1, <2>2 DEF FinishedRowOK, ProcessingRowOK, NoError
      <3>2. TimestampsOrdered(q)
        BY <1>t, <1>s, <2>1, <2>2
           DEF TimestampsOrdered, RowInv, RowHistory, RowLifecycle, Exists, Processing
      <3>3. q.hasResult <=> q.outcome = "succeeded"
        BY <2>1, <2>2
      <3> QED BY <2>1, <3>1, <3>2, <3>3 DEF RowLifecycle, Queued, Processing, Finished
    <2>5. RowOwned(j)'
      BY <2>1, <2>2 DEF RowOwned, Processing, NoClaim
    <2>6. RowStarts(j)'
      BY <1>t, <2>1, <2>2 DEF RowInv, RowStarts, Queued
    <2> QED BY <2>3, <2>4, <2>5, <2>6 DEF RowInv
  <1>7. CASE Deleted(j)
    <2>1. /\ q = AbsentRow /\ claim'[j] = NoClaim /\ starts'[j] = starts[j]
      BY <1>7 DEF Deleted
    <2>2. ~Exists(j)' /\ ~Queued(j)' /\ ~Processing(j)' /\ ~Finished(j)'
      BY <2>1 DEF AbsentRow, Exists, Queued, Processing, Finished
    <2>3. RowHistory(j)'
      BY <1>t, <2>1, <2>2 DEF RowHistory, AbsentRow, NoTime
    <2>4. RowLifecycle(j)'
      BY <2>1, <2>2 DEF RowLifecycle, AbsentRow
    <2>5. RowOwned(j)'
      BY <2>1, <2>2 DEF RowOwned, NoClaim
    <2>6. RowStarts(j)'
      BY <1>t, <2>1, <2>2 DEF RowInv, RowStarts
    <2> QED BY <2>3, <2>4, <2>5, <2>6 DEF RowInv
  <1> QED
    BY <1>1, <1>2, <1>3, <1>4, <1>5, <1>6, <1>7 DEF Moves, RowStep

-----------------------------------------------------------------------------
(* Invariants of the store. *)

\* The local invariant is inductive.
LEMMA StepInv == StoreInv /\ [Next]_vars => StoreInv'
  <1> SUFFICES ASSUME StoreInv, [Next]_vars PROVE StoreInv'
    OBVIOUS
  <1>1. Moves
    BY StepMoves DEF StoreInv
  <1>2. TypeOK'
    BY <1>1 DEF Moves, TypeOK
  <1>3. \A j \in Jobs : RowInv(j)'
    BY <1>1, RowPreserved DEF StoreInv
  <1> QED BY <1>2, <1>3 DEF StoreInv

\* Every state the repository methods reach satisfies the invariant.
THEOREM StoreInvariant == Spec => []StoreInv
  BY InitInv, StepInv, PTL DEF Spec

\* Rows and claims keep their types, whatever the processes call.
THEOREM TypeCorrect == Spec => []TypeOK
  <1>1. StoreInv => TypeOK
    BY DEF StoreInv
  <1> QED BY <1>1, StoreInvariant, PTL

\* No interleaving of repository calls trips the lifecycle or the timestamp
\* CHECK constraint, and results belong to succeeded jobs only.
THEOREM LifecycleCorrect == Spec => []LifecycleCheck
  <1>1. StoreInv => LifecycleCheck
    BY DEF StoreInv, RowInv, RowLifecycle, LifecycleCheck
  <1> QED BY <1>1, StoreInvariant, PTL

\* Claim columns are set exactly while the job is processing.
THEOREM OwnershipCorrect == Spec => []OwnedExactlyWhileProcessing
  <1>1. StoreInv => OwnedExactlyWhileProcessing
    BY DEF StoreInv, RowInv, RowOwned, OwnedExactlyWhileProcessing
  <1> QED BY <1>1, StoreInvariant, PTL

\* No dispatch, delivered however often, starts a job twice.
THEOREM AtMostOneStart == Spec => []StartedAtMostOnce
  <1>1. StoreInv => StartedAtMostOnce
    BY DEF StoreInv, RowInv, RowStarts, StartedAtMostOnce
  <1> QED BY <1>1, StoreInvariant, PTL

-----------------------------------------------------------------------------
(* What a step may never do. *)

\* Terminal rows are final until retention deletes them, and an id whose row
\* is gone is never used again.
THEOREM TerminalRowsFinal == Spec => TerminalIsFinal
  <1>1. ASSUME StoreInv, [Next]_vars, NEW j \in Jobs
        PROVE  /\ Finished(j) => \/ job'[j] = job[j]
                                 \/ TerminalJobIsExpired(j) /\ job'[j] = AbsentRow
               /\ j <= lastId /\ ~Exists(j) => job'[j] = AbsentRow
    <2>1. RowStep(j) /\ RowHistory(j) /\ lastId \in Int /\ j \in Int
      BY <1>1, StepMoves DEF StoreInv, RowInv, Moves, TypeOK, Jobs
    <2>2. Finished(j) => ~Admitted(j)
      BY <2>1 DEF Admitted, RowHistory, Finished, Exists
    <2>3. j <= lastId => ~Admitted(j)
      BY <2>1 DEF Admitted
    <2>4. Finished(j) \/ ~Exists(j) =>
             ~TimedOut(j) /\ ~CancelledInQueue(j) /\ ~Granted(j) /\ ~Flagged(j) /\ ~Settled(j)
      BY DEF Finished, Exists, TimedOut, CancelledInQueue, Granted, Flagged, Settled,
             Queued, Processing
    <2> QED BY <2>1, <2>2, <2>3, <2>4 DEF RowStep, Stays, Deleted, RowHistory
  <1>2. StoreInv /\ [Next]_vars =>
          [\A j \in Jobs :
             /\ Finished(j) => \/ job'[j] = job[j]
                               \/ TerminalJobIsExpired(j) /\ job'[j] = AbsentRow
             /\ j <= lastId /\ ~Exists(j) => job'[j] = AbsentRow]_vars
    BY <1>1
  <1> QED BY <1>2, StoreInvariant, PTL DEF Spec, TerminalIsFinal

\* An accepted cancellation is never withdrawn and never loses against a
\* success or a failure.
THEOREM CancellationsHold == Spec => AcceptedCancellationHolds
  <1>1. ASSUME StoreInv, [Next]_vars, NEW j \in Jobs,
               Processing(j), job[j].cancellationRequested, job'[j] # job[j]
        PROVE  /\ job'[j].status = "finished"
               /\ job'[j].outcome = "cancelled"
               /\ job'[j].cancellationRequested
    <2>1. RowStep(j) /\ RowHistory(j) /\ job[j] \in JobRow /\ lastId \in Int /\ j \in Int
      BY <1>1, StepMoves DEF StoreInv, RowInv, Moves, TypeOK, Jobs
    <2>2. ~Stays(j) /\ ~TimedOut(j) /\ ~CancelledInQueue(j) /\ ~Granted(j)
          /\ ~Flagged(j) /\ ~Deleted(j)
      BY <1>1 DEF Stays, TimedOut, CancelledInQueue, Granted, Flagged, Deleted,
                  TerminalJobIsExpired, Queued, Processing, Finished
    <2>3. ~Admitted(j)
      BY <1>1, <2>1 DEF Admitted, RowHistory, Processing, Exists
    <2>4. job'[j] = FinishedRow(job[j], "cancelled", "none")
      BY <1>1, <2>1, <2>2, <2>3 DEF RowStep, Settled
    <2> QED BY <1>1, <2>1, <2>4, FinishedRowFields DEF Outcome, ErrorCode
  <1>2. StoreInv /\ [Next]_vars =>
          [\A j \in Jobs :
             Processing(j) /\ job[j].cancellationRequested /\ job'[j] # job[j]
               => /\ job'[j].status = "finished"
                  /\ job'[j].outcome = "cancelled"
                  /\ job'[j].cancellationRequested]_vars
    BY <1>1
  <1> QED BY <1>2, StoreInvariant, PTL DEF Spec, AcceptedCancellationHolds

-----------------------------------------------------------------------------
(* What a polling client sees. *)

\* Every row that is there decodes.
LEMMA RowDecodes ==
    ASSUME NEW j \in Jobs, RowLifecycle(j), job[j] \in JobRow, Exists(j)
    PROVE  Decodes(job[j])
  <1>1. Queued(j) \/ Processing(j) \/ Finished(j)
    BY DEF JobRow, Exists, Queued, Processing, Finished
  <1>2. CASE Queued(j)
    BY <1>2 DEF Queued, Decodes
  <1>3. CASE Processing(j)
    BY <1>3 DEF Processing, RowLifecycle, ProcessingRowOK, Decodes
  <1>4. CASE Finished(j)
    BY <1>4 DEF Finished, RowLifecycle, FinishedRowOK, NoError, Decodes
  <1> QED BY <1>1, <1>2, <1>3, <1>4

\* Therefore the answer is the row, as long as it is visible.
AnswersAreRows ==
    \A j \in Jobs :
        get_job(j) = IF ~Exists(j) \/ TerminalJobIsExpired(j)
                     THEN Answer("unknown", AbsentRow)
                     ELSE Answer(job[j].status, job[j])

LEMMA AnswerOfRow == StoreInv => AnswersAreRows
  BY RowDecodes DEF StoreInv, TypeOK, RowInv, AnswersAreRows, get_job

\* Only the clock's own step moves the clock.
LEMMA ClockOrRows == [Next]_vars => now' = now \/ job' = job
  BY DEF Next, vars, create_queued, expire_queued_jobs, claim_dispatch, ClaimTimesOut,
     ClaimGranted, heartbeat_claims, recover_expired_claims, delete_expired_terminal_jobs,
     request_cancellation, Publish, publish_cancelled, publish_success, publish_failure, Tick

\* What a client is shown is never undecodable and never goes backwards.
THEOREM PollingMonotone == Spec => PollingNeverGoesBack
  <1>1. ASSUME StoreInv, [Next]_vars, NEW j \in 1 .. lastId
        PROVE  MayFollow(get_job(j), get_job(j)')
    <2> DEFINE r == job[j]
               q == job'[j]
    <2>1. /\ j \in Jobs /\ j \in Int /\ r \in JobRow /\ q \in JobRow
          /\ lastId \in Int /\ now \in Nat /\ now' \in Nat /\ now' >= now
          /\ RowLifecycle(j) /\ RowLifecycle(j)' /\ RowHistory(j) /\ RowStep(j)
      <3>1. Moves /\ StoreInv'
        BY <1>1, StepMoves, StepInv DEF StoreInv
      <3>2. j \in Jobs /\ j \in Int /\ lastId \in Int
        BY <1>1, BoundsAssumption DEF StoreInv, TypeOK, Jobs
      <3> QED BY <1>1, <3>1, <3>2 DEF StoreInv, RowInv, Moves, TypeOK, Time
    <2>2. get_job(j) = IF ~Exists(j) \/ TerminalJobIsExpired(j)
                       THEN Answer("unknown", AbsentRow) ELSE Answer(r.status, r)
      BY <1>1, <2>1, AnswerOfRow DEF AnswersAreRows
    <2>3. get_job(j)' = IF ~Exists(j)' \/ TerminalJobIsExpired(j)'
                        THEN Answer("unknown", AbsentRow) ELSE Answer(q.status, q)
      <3>1. AnswersAreRows'
        BY <1>1, StepInv, AnswerOfRow, PTL
      <3> QED BY <2>1, <3>1 DEF AnswersAreRows
    <2>4. ~Admitted(j)
      BY <2>1 DEF Admitted
    <2>5. CASE Stays(j)
      <3>1. q = r
        BY <2>5 DEF Stays
      <3>2. TerminalJobIsExpired(j) => TerminalJobIsExpired(j)'
        BY <2>1, <3>1, PolicyAssumption DEF TerminalJobIsExpired, Finished, JobRow, Time, NoTime
      <3>3. r.status # "finished" => ~TerminalJobIsExpired(j)'
        BY <3>1 DEF TerminalJobIsExpired, Finished
      <3> QED BY <2>1, <2>2, <2>3, <3>1, <3>2, <3>3
              DEF MayFollow, Answer, Exists, JobRow, AbsentRow
    <2>6. CASE TimedOut(j) \/ CancelledInQueue(j) \/ Settled(j)
      <3>1. /\ r.status \in {"queued", "processing"}
            /\ q.status = "finished" /\ q.finishedAt = now /\ q.startedAt = r.startedAt
            /\ r.status = "processing" /\ r.cancellationRequested => q.outcome = "cancelled"
        BY ZenonT(60), <2>1, <2>6
           DEF TimedOut, CancelledInQueue, Settled, FinishedRow, JobRow, Queued, Processing
      <3>2. now' = now
        BY <1>1, <3>1, ClockOrRows
      <3>3. ~TerminalJobIsExpired(j)'
        BY <2>1, <3>1, <3>2, PolicyAssumption DEF TerminalJobIsExpired
      <3>4. Exists(j) /\ Exists(j)' /\ ~TerminalJobIsExpired(j)
        BY <3>1 DEF Exists, TerminalJobIsExpired, Finished
      <3>5. get_job(j) = Answer(r.status, r) /\ get_job(j)' = Answer("finished", q)
        BY <2>2, <2>3, <3>1, <3>3, <3>4
      <3> QED BY <3>1, <3>5 DEF MayFollow, Answer
    <2>7. CASE Granted(j) \/ Flagged(j)
      <3>1. /\ r.status \in {"queued", "processing"} /\ q.status = "processing"
            /\ r.status = "processing" => q.cancellationRequested /\ q.startedAt = r.startedAt
        BY <2>1, <2>7 DEF Granted, Flagged, JobRow, Queued, Processing
      <3>2. /\ Exists(j) /\ ~TerminalJobIsExpired(j)
            /\ Exists(j)' /\ ~TerminalJobIsExpired(j)'
        BY <3>1 DEF Exists, TerminalJobIsExpired, Finished
      <3>3. get_job(j) = Answer(r.status, r) /\ get_job(j)' = Answer("processing", q)
        BY <2>2, <2>3, <3>1, <3>2
      <3>4. r.status = "processing" => get_job(j)'.cancelling
        <4>1. Answer("processing", q).cancelling = q.cancellationRequested
          BY <2>1 DEF Answer, JobRow
        <4> QED BY <3>1, <3>3, <4>1
      <3>5. /\ get_job(j).status = r.status /\ get_job(j)'.status = "processing"
            /\ get_job(j).startedAt = r.startedAt /\ get_job(j)'.startedAt = q.startedAt
        BY <3>3 DEF Answer
      <3> QED BY <3>1, <3>4, <3>5 DEF MayFollow
    <2>8. CASE Deleted(j)
      <3>1. TerminalJobIsExpired(j) /\ ~Exists(j)'
        BY <2>8 DEF Deleted, AbsentRow, Exists
      <3>2. /\ get_job(j) = Answer("unknown", AbsentRow)
            /\ get_job(j)' = Answer("unknown", AbsentRow)
        BY <2>2, <2>3, <3>1
      <3> QED BY <3>2 DEF MayFollow, Answer
    <2> QED BY <2>1, <2>4, <2>5, <2>6, <2>7, <2>8 DEF RowStep
  <1>2. StoreInv /\ [Next]_vars =>
          [\A j \in 1 .. lastId : MayFollow(get_job(j), get_job(j)')]_vars
    BY <1>1
  <1> QED BY <1>2, StoreInvariant, PTL DEF Spec, PollingNeverGoesBack

-----------------------------------------------------------------------------
(* Invariants that relate several rows. *)

\* A row that is there after a step was there before it, submitted under the
\* same key at the same time, or is the one just admitted.
LEMMA RowPersists ==
    ASSUME StoreInv, Moves, NEW j \in Jobs, Exists(j)', ~Admitted(j)
    PROVE  /\ Exists(j)
           /\ job'[j].key = job[j].key
           /\ job'[j].submittedAt = job[j].submittedAt
           /\ job'[j].startedAt = job[j].startedAt \/ Granted(j)
           /\ Queued(j)' => Queued(j)
           /\ j \in Outstanding' => j \in Outstanding
  <1>1. RowStep(j) /\ job[j] \in JobRow
    BY DEF Moves, StoreInv, TypeOK
  <1>2. CASE Stays(j)
    BY <1>2 DEF Stays, Exists, Queued, Outstanding
  <1>3. CASE TimedOut(j) \/ CancelledInQueue(j)
    BY <1>1, <1>3 DEF TimedOut, CancelledInQueue, FinishedRow, JobRow, Exists, Queued,
       Outstanding
  <1>4. CASE Granted(j)
    BY <1>1, <1>4 DEF Granted, JobRow, Exists, Queued, Outstanding
  <1>5. CASE Flagged(j)
    BY <1>1, <1>5 DEF Flagged, JobRow, Exists, Queued, Processing, Outstanding
  <1>6. CASE Settled(j)
    BY <1>1, <1>6 DEF Settled, FinishedRow, JobRow, Exists, Queued, Processing, Outstanding
  <1>7. CASE Deleted(j)
    BY <1>7 DEF Deleted, AbsentRow, Exists
  <1> QED BY <1>1, <1>2, <1>3, <1>4, <1>5, <1>6, <1>7 DEF RowStep

\* Idempotency: a key names at most one retained job.
THEOREM KeysUnique == Spec => []KeyNamesOneJob
  <1>1. Init => KeyNamesOneJob
    BY DEF Init, KeyNamesOneJob, Exists, AbsentRow
  <1>2. StoreInv /\ KeyNamesOneJob /\ [Next]_vars => KeyNamesOneJob'
    <2> SUFFICES ASSUME StoreInv, KeyNamesOneJob, [Next]_vars,
                        NEW i \in Jobs, NEW j \in Jobs,
                        Exists(i)', Exists(j)', job'[i].key = job'[j].key
                 PROVE  i = j
      BY DEF KeyNamesOneJob
    <2>1. Moves
      BY StepMoves DEF StoreInv
    <2>2. ASSUME NEW a \in Jobs, NEW b \in Jobs, Exists(b)', Admitted(a), ~Admitted(b)
          PROVE  job'[a].key # job'[b].key
      <3>1. PICK key \in Keys, request \in Requests :
              Replayed(key) = {} /\ job'[a] = NewRow(key, request, now)
        BY <2>2 DEF Admitted
      <3>2. job'[a].key = key
        BY <3>1 DEF NewRow, AbsentRow
      <3>3. Exists(b) /\ job'[b].key = job[b].key
        BY <2>1, <2>2, RowPersists
      <3> QED BY <3>1, <3>2, <3>3 DEF Replayed
    <2>3. CASE Admitted(i) /\ Admitted(j)
      BY <2>3 DEF Admitted
    <2>4. CASE ~Admitted(i) /\ ~Admitted(j)
      BY <2>1, <2>4, RowPersists DEF KeyNamesOneJob
    <2> QED BY <2>2, <2>3, <2>4
  <1> QED BY <1>1, <1>2, StoreInvariant, PTL DEF Spec

\* FIFO: no claimable job waits behind a later one that was started.
THEOREM FifoOrder == Spec => []NoOvertaking
  <1>1. Init => NoOvertaking
    BY DEF Init, NoOvertaking, Exists, AbsentRow
  <1>2. StoreInv /\ NoOvertaking /\ [Next]_vars => NoOvertaking'
    <2> SUFFICES ASSUME StoreInv, NoOvertaking, [Next]_vars,
                        NEW i \in Jobs, NEW j \in Jobs,
                        i \in Eligible', Exists(j)', job'[j].startedAt # NoTime
                 PROVE  ~OlderThan(i, j)'
      BY DEF NoOvertaking
    <2>1. Moves
      BY StepMoves DEF StoreInv
    <2>2. /\ now \in Int /\ now' \in Int /\ now <= now' /\ lastId \in Int
          /\ i \in Int /\ j \in Int /\ QueueTimeout \in Int
          /\ job[i] \in JobRow /\ job[j] \in JobRow
          /\ job[i].submittedAt \in Int /\ job[j].submittedAt \in Int
      <3>1. job[i] \in JobRow /\ job[j] \in JobRow
        BY DEF StoreInv, TypeOK
      <3>2. job[i].submittedAt \in Int /\ job[j].submittedAt \in Int
        BY <3>1 DEF JobRow, Time, NoTime
      <3>3. now \in Int /\ now' \in Int /\ now <= now' /\ lastId \in Int
        BY <2>1 DEF StoreInv, TypeOK, Moves, Time
      <3>4. i \in Int /\ j \in Int /\ QueueTimeout \in Int
        BY PolicyAssumption DEF Jobs
      <3> QED BY <3>1, <3>2, <3>3, <3>4
    <2>3. Exists(i)' /\ Queued(i)'
      BY DEF Eligible, Queued, Exists
    <2>4. ~Admitted(j)
      BY DEF Admitted, NewRow, AbsentRow
    <2>5. /\ Exists(j) /\ job'[j].submittedAt = job[j].submittedAt
          /\ job'[j].startedAt = job[j].startedAt \/ Granted(j)
      BY <2>1, <2>4, RowPersists
    <2>6. CASE Admitted(i)
      <3>1. i = lastId + 1 /\ job'[i].submittedAt = now
        BY <2>6 DEF Admitted, NewRow, AbsentRow
      <3>2. j <= lastId /\ job[j].submittedAt <= now
        BY <2>5 DEF StoreInv, RowInv, RowHistory
      <3> QED BY <2>2, <2>5, <3>1, <3>2 DEF OlderThan
    <2>7. CASE ~Admitted(i)
      <3>1. Queued(i) /\ job'[i].submittedAt = job[i].submittedAt
        BY <2>1, <2>3, <2>7, RowPersists
      <3>2. i \in Eligible
        BY <2>2, <3>1 DEF Eligible, DeadlineReached, QueueDeadline
      <3>3. CASE Granted(j)
        <4>1. i # j
          BY <2>2, <2>3, <3>3 DEF Granted, Queued, JobRow
        <4>2. OlderThan(j, i)
          BY <3>2, <3>3, <4>1 DEF Granted
        <4> QED BY <2>2, <2>5, <3>1, <4>2 DEF OlderThan
      <3>4. CASE job'[j].startedAt = job[j].startedAt
        <4>1. ~OlderThan(i, j)
          BY <2>5, <3>2, <3>4 DEF NoOvertaking
        <4> QED BY <2>5, <3>1, <4>1 DEF OlderThan
      <3> QED BY <2>5, <3>3, <3>4
    <2> QED BY <2>6, <2>7
  <1> QED BY <1>1, <1>2, StoreInvariant, PTL DEF Spec

\* Outstanding is finite, so its cardinality is a number.
LEMMA OutstandingFinite ==
    IsFiniteSet(Outstanding) /\ Cardinality(Outstanding) \in Nat
  <1>1. IsFiniteSet(Jobs)
    BY BoundsAssumption, FS_Interval DEF Jobs
  <1>2. Outstanding \subseteq Jobs
    BY DEF Outstanding
  <1> QED BY <1>1, <1>2, FS_Subset, FS_CardinalityType

\* Admission control holds for every capacity.
THEOREM CapacityHolds == Spec => []CapacityRespected
  <1>1. Init => CapacityRespected
    <2> SUFFICES ASSUME Init PROVE CapacityRespected
      OBVIOUS
    <2>1. Outstanding = {}
      BY DEF Init, Outstanding, AbsentRow
    <2> QED BY <2>1, FS_EmptySet, PolicyAssumption DEF CapacityRespected
  <1>2. StoreInv /\ CapacityRespected /\ [Next]_vars => CapacityRespected'
    <2> SUFFICES ASSUME StoreInv, CapacityRespected, [Next]_vars PROVE CapacityRespected'
      OBVIOUS
    <2>1. Moves
      BY StepMoves DEF StoreInv
    <2>2. \A j \in Outstanding' : j \in Outstanding \/ Admitted(j)
      BY <2>1, RowPersists DEF Outstanding, Exists
    <2>3. CASE \E a \in Jobs : Admitted(a)
      <3>1. PICK a \in Jobs : Admitted(a)
        BY <2>3
      <3>2. Outstanding' \subseteq Outstanding \cup {a}
        BY <2>2, <3>1 DEF Admitted
      <3>3. /\ IsFiniteSet(Outstanding \cup {a})
            /\ Cardinality(Outstanding \cup {a}) <= Cardinality(Outstanding) + 1
        BY OutstandingFinite, FS_AddElement
      <3>4. /\ Cardinality(Outstanding \cup {a}) \in Nat
            /\ Cardinality(Outstanding') \in Nat
            /\ Cardinality(Outstanding') <= Cardinality(Outstanding \cup {a})
        BY <3>2, <3>3, FS_Subset, FS_CardinalityType
      <3>5. Cardinality(Outstanding) < MaxOutstanding
        BY <3>1 DEF Admitted
      <3> QED BY <3>3, <3>4, <3>5, OutstandingFinite, PolicyAssumption DEF CapacityRespected
    <2>4. CASE ~\E a \in Jobs : Admitted(a)
      <3>1. Outstanding' \subseteq Outstanding
        BY <2>2, <2>4 DEF Outstanding
      <3>2. /\ Cardinality(Outstanding') \in Nat
            /\ Cardinality(Outstanding') <= Cardinality(Outstanding)
        BY <3>1, OutstandingFinite, FS_Subset, FS_CardinalityType
      <3> QED BY <3>2, OutstandingFinite, PolicyAssumption DEF CapacityRespected
    <2> QED BY <2>3, <2>4
  <1> QED BY <1>1, <1>2, StoreInvariant, PTL DEF Spec

-----------------------------------------------------------------------------
(* The store implements the contract of module TranscriptionJob. *)

\* The contract's view of each row, status by status.
ViewInv ==
    \A j \in Jobs :
        /\ Queued(j) => phaseView[j] = "queued"
        /\ Processing(j) => phaseView[j] = "processing"
        /\ Finished(j) => phaseView[j] = job[j].outcome
        /\ ~Exists(j) => phaseView[j] = IF j <= lastId THEN "deleted" ELSE "unsubmitted"
        /\ Finished(j) <=> phaseView[j] \in Contract!Terminal
        /\ j \in Outstanding <=> phaseView[j] \in Contract!Active
        /\ phaseView[j] \in Contract!Phase
        /\ cancellingView[j] = job[j].cancellationRequested
        /\ cancellingView[j] \in BOOLEAN

\* The view is well defined in every state of the store.
LEMMA ViewOfRow == StoreInv => ViewInv
  <1> SUFFICES ASSUME StoreInv, NEW j \in Jobs
               PROVE  ViewInv!(j)
    BY DEF ViewInv
  <1>1. job[j] \in JobRow /\ RowLifecycle(j)
    BY DEF StoreInv, TypeOK, RowInv
  <1>2. phaseView[j] = IF Finished(j) THEN job[j].outcome
                       ELSE IF Exists(j) THEN job[j].status
                       ELSE IF j <= lastId THEN "deleted" ELSE "unsubmitted"
    BY DEF phaseView
  <1>3. Finished(j) => job[j].outcome \in {"succeeded", "failed", "cancelled"}
    BY <1>1 DEF RowLifecycle, FinishedRowOK
  <1>4. job[j].status \in {"absent", "queued", "processing", "finished"}
        /\ job[j].cancellationRequested \in BOOLEAN
    BY <1>1 DEF JobRow
  <1>5. cancellingView[j] = job[j].cancellationRequested
    BY DEF cancellingView
  <1> QED
    BY <1>2, <1>3, <1>4, <1>5
       DEF Queued, Processing, Finished, Exists, Outstanding,
           Contract!Terminal, Contract!Active, Contract!Phase

\* A submission is the contract's Admit.
LEMMA CreateAdmits ==
    ASSUME StoreInv, StoreInv', NEW key \in Keys, NEW request \in Requests,
           create_queued(key, request)
    PROVE  Contract!Admit(lastId + 1)
  <1> DEFINE a == lastId + 1
  <1>1. /\ a \in Jobs /\ lastId \in Int
        /\ lastId' = a
        /\ job' = [job EXCEPT ![a] = NewRow(key, request, now)]
        /\ job \in [Jobs -> JobRow]
    BY BoundsAssumption DEF StoreInv, TypeOK, create_queued, Jobs
  <1>2. ~Exists(a) /\ job[a] = AbsentRow
    BY <1>1 DEF StoreInv, RowInv, RowHistory
  <1>3. phaseView[a] = "unsubmitted"
    BY <1>1, <1>2, ViewOfRow DEF ViewInv
  <1>4. Contract!JobsIn(Contract!Active) = Outstanding
    BY ViewOfRow DEF ViewInv, Contract!JobsIn, Outstanding
  <1>5. phaseView' = [phaseView EXCEPT ![a] = "queued"]
    <2>1. ASSUME NEW j \in Jobs
          PROVE  phaseView'[j] = IF j = a THEN "queued" ELSE phaseView[j]
      <3>1. CASE j = a
        BY <1>1, <3>1 DEF phaseView, Finished, Exists, NewRow, AbsentRow
      <3>2. CASE j # a
        <4>1. job'[j] = job[j] /\ (j <= lastId' <=> j <= lastId)
          BY <1>1, <3>2 DEF Jobs
        <4> QED BY <4>1, <3>2 DEF phaseView, Finished, Exists
      <3> QED BY <3>1, <3>2
    <2> QED BY <2>1 DEF phaseView
  <1>6. UNCHANGED cancellingView
    <2>1. ASSUME NEW j \in Jobs PROVE job'[j].cancellationRequested = job[j].cancellationRequested
      BY <1>1, <1>2 DEF NewRow, AbsentRow
    <2> QED BY <2>1 DEF cancellingView
  <1>7. Cardinality(Outstanding) < MaxOutstanding
    BY DEF create_queued
  <1>8. Contract!Cardinality(Outstanding) = Cardinality(Outstanding)
    BY DEF Contract!Cardinality, Cardinality
  <1> QED BY <1>3, <1>4, <1>5, <1>6, <1>7, <1>8 DEF Contract!Admit

\* Any other call is a Move: each row makes a step of the contract.
LEMMA CallMoves ==
    ASSUME StoreInv, StoreInv', Moves, UNCHANGED lastId
    PROVE  Contract!Move
  <1>1. ViewInv /\ ViewInv'
    BY ViewOfRow, PTL
  <1>2. phaseView' \in [Jobs -> Contract!Phase] /\ cancellingView' \in [Jobs -> BOOLEAN]
    BY <1>1 DEF ViewInv, phaseView, cancellingView
  <1>3. ASSUME NEW j \in Jobs PROVE Contract!JobStep(j)
    <2> DEFINE c == job[j].cancellationRequested
               d == job'[j].cancellationRequested
    <2>1. /\ RowStep(j) /\ RowLifecycle(j) /\ RowHistory(j) /\ job[j] \in JobRow
          /\ lastId \in Int
      BY DEF Moves, StoreInv, RowInv, TypeOK
    <2>2. cancellingView[j] = c /\ cancellingView'[j] = d
      BY <1>1 DEF ViewInv
    <2>3. CASE Stays(j)
      <3>1. phaseView'[j] = phaseView[j] /\ d = c
        BY <2>3 DEF Stays, phaseView, Finished, Exists
      <3> QED BY <2>2, <3>1 DEF Contract!JobStep, Contract!Stay
    <2>4. CASE TimedOut(j) \/ CancelledInQueue(j)
      <3>1. phaseView[j] = "queued" /\ ~c
        BY <1>1, <2>1, <2>4 DEF ViewInv, TimedOut, CancelledInQueue, RowLifecycle, QueuedRowOK
      <3>2. /\ job'[j].status = "finished" /\ job'[j].outcome \in {"failed", "cancelled"}
            /\ d = c
        BY <2>1, <2>4 DEF TimedOut, CancelledInQueue, FinishedRow, JobRow
      <3>3. phaseView'[j] \in {"failed", "cancelled"}
        BY <1>1, <3>2 DEF ViewInv, Finished
      <3> QED BY <2>2, <3>1, <3>2, <3>3 DEF Contract!JobStep, Contract!LeaveQueue
    <2>5. CASE Granted(j)
      <3>1. phaseView[j] = "queued" /\ ~c
        BY <1>1, <2>1, <2>5 DEF ViewInv, Granted, RowLifecycle, QueuedRowOK
      <3>2. job'[j].status = "processing" /\ d = c
        BY <2>1, <2>5 DEF Granted, JobRow
      <3>3. phaseView'[j] = "processing"
        BY <1>1, <3>2 DEF ViewInv, Processing
      <3> QED BY <2>2, <3>1, <3>2, <3>3 DEF Contract!JobStep, Contract!Start
    <2>6. CASE Flagged(j)
      <3>1. phaseView[j] = "processing" /\ ~c
        BY <1>1, <2>6 DEF ViewInv, Flagged
      <3>2. job'[j].status = "processing" /\ d = TRUE
        BY <2>1, <2>6 DEF Flagged, Processing, JobRow
      <3>3. phaseView'[j] = "processing"
        BY <1>1, <3>2 DEF ViewInv, Processing
      <3> QED BY <2>2, <3>1, <3>2, <3>3 DEF Contract!JobStep, Contract!AcceptCancellation
    <2>7. CASE Settled(j)
      <3>1. phaseView[j] = "processing"
        BY <1>1, <2>7 DEF ViewInv, Settled
      <3>2. /\ job'[j].status = "finished" /\ d = c
            /\ job'[j].outcome \in IF c THEN {"cancelled"} ELSE {"succeeded", "failed"}
        <4>1. CASE c
          <5>1. job'[j] = FinishedRow(job[j], "cancelled", "none")
            BY <2>7, <4>1 DEF Settled
          <5>2. /\ job'[j].status = "finished" /\ job'[j].outcome = "cancelled" /\ d = c
            BY <2>1, <5>1, FinishedRowFields DEF Outcome, ErrorCode
          <5> QED BY <4>1, <5>2
        <4>2. CASE ~c
          BY <2>1, <2>7, <4>2 DEF Settled, FinishedRow, JobRow
        <4> QED BY <4>1, <4>2
      <3>3. phaseView'[j] = job'[j].outcome
        BY <1>1, <3>2 DEF ViewInv, Finished
      <3> QED BY <2>2, <3>1, <3>2, <3>3 DEF Contract!JobStep, Contract!Finish
    <2>8. CASE Deleted(j)
      <3>1. Finished(j) /\ Exists(j) /\ j <= lastId'
        BY <2>1, <2>8 DEF Deleted, TerminalJobIsExpired, Finished, Exists, RowHistory
      <3>2. phaseView[j] \in Contract!Terminal
        BY <1>1, <3>1 DEF ViewInv
      <3>3. ~Exists(j)' /\ d = FALSE
        BY <2>8 DEF Deleted, AbsentRow, Exists
      <3>4. phaseView'[j] = "deleted"
        BY <1>1, <3>1, <3>3 DEF ViewInv
      <3> QED BY <2>2, <3>2, <3>3, <3>4 DEF Contract!JobStep, Contract!Forget
    <2>9. ~Admitted(j)
      BY <2>1 DEF Admitted
    <2> QED BY <2>1, <2>3, <2>4, <2>5, <2>6, <2>7, <2>8, <2>9 DEF RowStep
  <1> QED BY <1>2, <1>3 DEF Contract!Move

\* The detailed store refines the contract: what clients see of a job moves
\* as promised, for any number of processes, jobs and any policy.
THEOREM StoreImplementsContract == Spec => ImplementsContract
  <1>1. Init => Contract!Init
    <2> SUFFICES ASSUME Init PROVE Contract!Init
      OBVIOUS
    <2>1. ASSUME NEW j \in Jobs
          PROVE  phaseView[j] = "unsubmitted" /\ cancellingView[j] = FALSE
      BY DEF Init, phaseView, cancellingView, Finished, Exists, AbsentRow, Jobs
    <2> QED BY <2>1 DEF Contract!Init, phaseView, cancellingView
  <1>2. StoreInv /\ StoreInv' /\ [Next]_vars => [Contract!Next]_(Contract!jobVars)
    <2> SUFFICES ASSUME StoreInv, StoreInv', [Next]_vars
                 PROVE  Contract!Next
      OBVIOUS
    <2>1. ASSUME NEW key \in Keys, NEW request \in Requests, create_queued(key, request)
          PROVE  Contract!Next
      <3>1. lastId + 1 \in Jobs
        BY <2>1, BoundsAssumption DEF StoreInv, TypeOK, create_queued, Jobs
      <3>2. Contract!Admit(lastId + 1)
        BY <2>1, CreateAdmits
      <3> QED BY <3>1, <3>2 DEF Contract!Next
    <2>2. CASE ~\E key \in Keys, request \in Requests : create_queued(key, request)
      <3>1. UNCHANGED lastId
        BY <2>2 DEF Next, vars, expire_queued_jobs, claim_dispatch, ClaimTimesOut,
                    ClaimGranted, heartbeat_claims, recover_expired_claims,
                    delete_expired_terminal_jobs, request_cancellation, Publish,
                    publish_cancelled, publish_success, publish_failure, Tick
      <3>2. Moves
        BY StepMoves DEF StoreInv
      <3> QED BY <3>1, <3>2, CallMoves DEF Contract!Next
    <2> QED BY <2>1, <2>2
  <1> QED BY <1>1, <1>2, StoreInvariant, PTL DEF Spec, ImplementsContract, Contract!Spec

-----------------------------------------------------------------------------
(* Part 2: statement by statement. *)

\* Row versions of some of the jobs.
Versions(S) == UNION {[D -> S] : D \in SUBSET Jobs}

Publications == {"publish_cancelled", "publish_success", "publish_failure"}

\* Every method begins at the statement of its own name.
Methods ==
    {"create_queued", "expire_queued_jobs", "claim_dispatch", "heartbeat_claims",
     "recover_expired_claims", "delete_expired_terminal_jobs", "request_cancellation"}
    \cup Publications

\* The statements before the first lock, and the others.
Opening == Methods \cup {"insert", "head", "start", "cancel", "flag"}
Later == {"expire", "own", "recover", "clear claims", "clear claim", "commit"}

Transaction ==
    [op : Methods \cup {"none"}, pc : Opening \cup Later \cup {"idle"},
     at : Time \cup {NoTime}, j : Nat, w : Workers \cup {Null},
     key : Keys \cup {Null}, batch : SUBSET Jobs, flagged : SUBSET Jobs,
     rows : Versions(JobRow), attempts : Versions(Claim)]

-----------------------------------------------------------------------------
(* What a transaction may do to a row: r is the committed version, q the   *)
(* one it has written at time t.                                           *)

Ended(r, outcome, error, t) ==
    [r EXCEPT !.status = "finished", !.outcome = outcome, !.error = error, !.finishedAt = t]

LeftQueue(r, q, t) ==
    /\ r.status = "queued" /\ r.submittedAt <= t
    /\ q = Ended(r, "failed", "queue_timeout", t) \/ q = Ended(r, "cancelled", "none", t)

Started(r, q, t) ==
    /\ r.status = "queued" /\ r.submittedAt <= t
    /\ q = [r EXCEPT !.status = "processing", !.startedAt = t]

FlagRaised(r, q) ==
    /\ r.status = "processing" /\ ~r.cancellationRequested
    /\ q = [r EXCEPT !.cancellationRequested = TRUE]

Concluded(r, q, t) ==
    /\ r.status = "processing" /\ r.startedAt <= t
    /\ IF r.cancellationRequested THEN q = Ended(r, "cancelled", "none", t)
       ELSE \/ q = [Ended(r, "succeeded", "none", t) EXCEPT !.hasResult = TRUE]
            \/ q = Ended(r, "failed", "execution_error", t)
            \/ q = Ended(r, "failed", "worker_interrupted", t)

Removed(r, q, t) ==
    r.status = "finished" /\ r.finishedAt <= t - Retention /\ q = AbsentRow

-----------------------------------------------------------------------------
(* The inductive invariant. *)

\* Which method a statement belongs to.
MethodOf(p) ==
    /\ p.pc \in Methods => p.op = p.pc
    /\ p.pc = "insert" => p.op = "create_queued"
    /\ p.pc \in {"head", "start", "own"} => p.op = "claim_dispatch"
    /\ p.pc \in {"cancel", "flag"} => p.op = "request_cancellation"
    /\ p.pc = "expire" => p.op = "expire_queued_jobs"
    /\ p.pc \in {"recover", "clear claims"} => p.op = "recover_expired_claims"
    /\ p.pc = "clear claim" => p.op \in Publications

\* The arguments name what was committed when the method was called, and the
\* clock it read is not ahead; both stay true while others commit.
ArgumentsInv(p) ==
    /\ p.at \in Time /\ p.at <= now
    /\ p.op = "create_queued" => p.key \in Keys
    /\ p.op \in {"claim_dispatch", "request_cancellation"} \cup Publications =>
         p.j \in 1 .. lastId /\ job[p.j].submittedAt <= p.at
    /\ p.op \in {"claim_dispatch"} \cup Publications => p.w \in Workers
    /\ p.op \in Publications => ~Queued(p.j) /\ job[p.j].startedAt <= p.at
    /\ p.op = "heartbeat_claims" =>
         \A j \in p.batch : j <= lastId /\ ~Queued(j) /\ job[j].startedAt <= p.at

\* A row written without its attempt: the job keeps its owner or has none.
RowAlone(p, j) ==
    \/ LeftQueue(job[j], p.rows[j], p.at)
    \/ p.op = "request_cancellation" /\ FlagRaised(job[j], p.rows[j])

\* Both written: ownership begins or ends with the status.
RowAndAttempt(p, j) ==
    \/ /\ Started(job[j], p.rows[j], p.at)
       /\ p.attempts[j].owner # Null /\ p.attempts[j].expiresAt \in Time
       /\ p.attempts[j].expiresAt >= p.at
    \/ Concluded(job[j], p.rows[j], p.at) /\ p.attempts[j] = NoClaim
    \/ Removed(job[j], p.rows[j], p.at) /\ p.attempts[j] = NoClaim

\* An attempt written without its row: a renewal under the same owner.
AttemptAlone(p, j) ==
    /\ Processing(j)
    /\ p.attempts[j].owner = claim[j].owner
    /\ p.attempts[j].expiresAt \in Time /\ p.attempts[j].expiresAt >= job[j].startedAt

\* What is locked before each statement, and what the earlier ones found.
LocksInv(p) ==
    LET R == DOMAIN p.rows
        A == DOMAIN p.attempts
    IN  /\ p.pc \in Opening => R = {} /\ A = {}
        /\ p.pc = "expire" =>
             A = {} /\ \A j \in R : Queued(j) /\ job[j].submittedAt <= p.at
        /\ p.pc = "own" =>
             R = {p.j} /\ A = {} /\ Started(job[p.j], p.rows[p.j], p.at)
        /\ p.pc = "recover" =>
             /\ R = {} /\ A = p.batch
             /\ \A j \in A : AttemptAlone(p, j) /\ claim[j].expiresAt <= p.at
        /\ p.pc = "clear claims" =>
             /\ R = p.batch /\ A = p.batch
             /\ \A j \in R : Concluded(job[j], p.rows[j], p.at) /\ claim[j].expiresAt <= p.at
        /\ p.pc = "clear claim" =>
             /\ R = {p.j} /\ A = {}
             /\ Concluded(job[p.j], p.rows[p.j], p.at) /\ claim[p.j].owner = p.w
        /\ p.pc = "commit" =>
             /\ \A j \in R \ A : RowAlone(p, j)
             /\ \A j \in R \cap A : RowAndAttempt(p, j)
             /\ \A j \in A \ R : AttemptAlone(p, j)

TxInv(p) ==
    \/ p = Idle
    \/ p.pc \in Opening \cup Later /\ MethodOf(p) /\ ArgumentsInv(p) /\ LocksInv(p)

\* No row and no attempt is locked twice.
LocksExclusive ==
    \A s, t \in Sessions :
        s # t => /\ DOMAIN tx[s].rows \cap DOMAIN tx[t].rows = {}
                 /\ DOMAIN tx[s].attempts \cap DOMAIN tx[t].attempts = {}

\* Only the API submits, one job at a time, so the id it was promised is free.
CreateInv ==
    \A s \in Sessions : tx[s].op = "create_queued" => s = "api" /\ lastId < MaxJobs

\* A lease outlasts the start it was granted for.
LeaseInv == \A j \in Jobs : Processing(j) => claim[j].expiresAt >= job[j].startedAt

\* The row counts that row locks alone do not settle.
Mismatches == {"request_cancellation", "recover_expired_claims"}

PgInv ==
    /\ StoreInv /\ LeaseInv
    /\ tx \in [Sessions -> Transaction]
    /\ LocksExclusive /\ CreateInv
    /\ \A s \in Sessions : TxInv(tx[s])
    /\ mismatch \subseteq Mismatches

-----------------------------------------------------------------------------
(* Row versions. *)

\* A set of row versions is a function on some of the jobs.
LEMMA VersionsAre ==
    ASSUME NEW S, NEW f
    PROVE  f \in Versions(S) <=> /\ f = [j \in DOMAIN f |-> f[j]]
                                 /\ DOMAIN f \subseteq Jobs
                                 /\ \A j \in DOMAIN f : f[j] \in S
  <1>1. ASSUME f \in Versions(S)
        PROVE  /\ f = [j \in DOMAIN f |-> f[j]] /\ DOMAIN f \subseteq Jobs
               /\ \A j \in DOMAIN f : f[j] \in S
    <2>1. PICK D \in SUBSET Jobs : f \in [D -> S]
      BY <1>1 DEF Versions
    <2> QED BY <2>1
  <1>2. ASSUME f = [j \in DOMAIN f |-> f[j]], DOMAIN f \subseteq Jobs,
               \A j \in DOMAIN f : f[j] \in S
        PROVE  f \in Versions(S)
    <2>1. f \in [DOMAIN f -> S] /\ DOMAIN f \in SUBSET Jobs
      BY <1>2
    <2> QED BY <2>1 DEF Versions
  <1> QED BY <1>1, <1>2

\* Written versions go on top of the earlier ones.
LEMMA OverVersions ==
    ASSUME NEW S, NEW f \in Versions(S), NEW g \in Versions(S)
    PROVE  /\ Over(f, g) \in Versions(S)
           /\ DOMAIN Over(f, g) = DOMAIN f \cup DOMAIN g
           /\ \A j \in DOMAIN f : Over(f, g)[j] = f[j]
           /\ \A j \in DOMAIN g \ DOMAIN f : Over(f, g)[j] = g[j]
  <1>1. /\ DOMAIN f \subseteq Jobs /\ \A j \in DOMAIN f : f[j] \in S
        /\ DOMAIN g \subseteq Jobs /\ \A j \in DOMAIN g : g[j] \in S
    BY VersionsAre
  <1>2. /\ DOMAIN Over(f, g) = DOMAIN f \cup DOMAIN g
        /\ \A j \in DOMAIN f : Over(f, g)[j] = f[j]
        /\ \A j \in DOMAIN g \ DOMAIN f : Over(f, g)[j] = g[j]
        /\ Over(f, g) = [j \in DOMAIN Over(f, g) |-> Over(f, g)[j]]
    BY DEF Over
  <1> QED BY <1>1, <1>2, VersionsAre

\* What a statement writes at once.
LEMMA WrittenVersions ==
    ASSUME NEW S, NEW D \in SUBSET Jobs, NEW f, f = [j \in D |-> f[j]],
           \A j \in D : f[j] \in S
    PROVE  f \in Versions(S)
  BY VersionsAre

LEMMA JustVersions ==
    ASSUME NEW S, NEW j \in Jobs, NEW v \in S
    PROVE  /\ Just(j, v) \in Versions(S)
           /\ DOMAIN Just(j, v) = {j} /\ Just(j, v)[j] = v
  <1>1. /\ Just(j, v) = [i \in {j} |-> Just(j, v)[i]]
        /\ DOMAIN Just(j, v) = {j} /\ Just(j, v)[j] = v
    BY DEF Just
  <1> QED BY <1>1, VersionsAre

LEMMA NoVersions ==
    ASSUME NEW S
    PROVE  NoRows \in Versions(S) /\ DOMAIN NoRows = {}
  <1>1. DOMAIN NoRows = {} /\ NoRows = [j \in DOMAIN NoRows |-> NoRows[j]]
    BY DEF NoRows
  <1> QED BY <1>1, VersionsAre

LEMMA IdleTransaction ==
    /\ Idle \in Transaction
    /\ Idle.op = "none" /\ Idle.pc = "idle"
    /\ DOMAIN Idle.rows = {} /\ DOMAIN Idle.attempts = {}
  <1>1. NoRows \in Versions(JobRow) /\ NoRows \in Versions(Claim) /\ DOMAIN NoRows = {}
    BY NoVersions
  <1>2. /\ Idle.op = "none" /\ Idle.pc = "idle" /\ Idle.rows = NoRows /\ Idle.attempts = NoRows
    BY DEF Idle
  <1>3. Idle \in Transaction
    BY <1>1 DEF Idle, Transaction, Opening
  <1> QED BY <1>1, <1>2, <1>3

\* The final UPDATE of FinishAt.
LEMMA FinishAtIs ==
    ASSUME NEW s \in Sessions, NEW row \in JobRow, NEW outcome \in Outcome,
           NEW error \in ErrorCode, now \in Time, tx[s].at \in Time
    PROVE  FinishAt(s, row, outcome, error) = Ended(row, outcome, error, tx[s].at)
  <1> DEFINE f == FinishAt(s, row, outcome, error)
             e == Ended(row, outcome, error, tx[s].at)
  <1>1. f \in JobRow /\ e \in JobRow
    BY DEF FinishAt, FinishedRow, Ended, JobRow
  <1>2. /\ f.status = e.status /\ f.outcome = e.outcome /\ f.error = e.error
        /\ f.cancellationRequested = e.cancellationRequested
        /\ f.submittedAt = e.submittedAt /\ f.startedAt = e.startedAt
        /\ f.finishedAt = e.finishedAt /\ f.hasResult = e.hasResult
        /\ f.key = e.key /\ f.request = e.request
    BY DEF FinishAt, FinishedRow, Ended, JobRow
  <1> HIDE DEF f, e
  <1>3. f = e
    BY <1>1, <1>2 DEF JobRow
  <1> QED BY <1>3 DEF f, e

\* Every change leads to a row of the table.
LEMMA ChangedRowType ==
    ASSUME NEW r \in JobRow, NEW t \in Time, NEW q,
           \/ LeftQueue(r, q, t) \/ Started(r, q, t) \/ FlagRaised(r, q)
           \/ Concluded(r, q, t) \/ Removed(r, q, t)
    PROVE  q \in JobRow
  <1>1. \A outcome \in Outcome, error \in ErrorCode : Ended(r, outcome, error, t) \in JobRow
    BY DEF Ended, JobRow
  <1>2. [Ended(r, "succeeded", "none", t) EXCEPT !.hasResult = TRUE] \in JobRow
    BY DEF Ended, JobRow, Outcome, ErrorCode
  <1>3. CASE LeftQueue(r, q, t)
    BY <1>1, <1>3 DEF LeftQueue, Outcome, ErrorCode
  <1>4. CASE Started(r, q, t)
    BY <1>4 DEF Started, JobRow
  <1>5. CASE FlagRaised(r, q)
    BY <1>5 DEF FlagRaised, JobRow
  <1>6. CASE Concluded(r, q, t)
    BY <1>1, <1>2, <1>6 DEF Concluded, Outcome, ErrorCode
  <1>7. CASE Removed(r, q, t)
    BY <1>7, FreshRowTypes DEF Removed
  <1> QED BY <1>3, <1>4, <1>5, <1>6, <1>7

-----------------------------------------------------------------------------
(* How a statement leaves its transaction. *)

\* The transactions of the other sessions are left alone.
OnlyTx(s) ==
    /\ tx' \in [Sessions -> Transaction]
    /\ \A t \in Sessions \ {s} : tx'[t] = tx[t]

\* The call and the locked versions that a statement takes over.
SameCall(p, q) ==
    /\ q.op = p.op /\ q.at = p.at /\ q.j = p.j /\ q.w = p.w
    /\ q.key = p.key /\ q.batch = p.batch

LEMMA GotoEffect ==
    ASSUME tx \in [Sessions -> Transaction], NEW s \in Sessions,
           NEW pc \in Opening \cup Later, Goto(s, pc)
    PROVE  /\ OnlyTx(s) /\ SameCall(tx[s], tx'[s]) /\ tx'[s].pc = pc
           /\ tx'[s].rows = tx[s].rows /\ tx'[s].attempts = tx[s].attempts
  <1>1. tx' = [tx EXCEPT ![s] = [tx[s] EXCEPT !.pc = pc]]
    BY DEF Goto
  <1>2. \A t \in Sessions \ {s} : tx'[t] = tx[t]
    BY <1>1
  <1>3. ASSUME NEW p, p = tx[s], p \in Transaction
        PROVE  /\ [p EXCEPT !.pc = pc] \in Transaction
               /\ SameCall(p, [p EXCEPT !.pc = pc]) /\ [p EXCEPT !.pc = pc].pc = pc
               /\ [p EXCEPT !.pc = pc].rows = p.rows
               /\ [p EXCEPT !.pc = pc].attempts = p.attempts
    BY <1>3 DEF Transaction, SameCall
  <1>4. tx'[s] = [tx[s] EXCEPT !.pc = pc] /\ tx[s] \in Transaction
    BY <1>1
  <1>5. tx' \in [Sessions -> Transaction]
    BY <1>1, <1>3, <1>4
  <1> QED BY <1>2, <1>3, <1>4, <1>5 DEF OnlyTx

LEMMA EndEffect ==
    ASSUME tx \in [Sessions -> Transaction], NEW s \in Sessions, End(s)
    PROVE  OnlyTx(s) /\ tx'[s] = Idle
  BY IdleTransaction DEF End, OnlyTx

LEMMA WriteRowsEffect ==
    ASSUME tx \in [Sessions -> Transaction], NEW s \in Sessions, NEW pc \in Opening \cup Later,
           NEW written \in Versions(JobRow), WriteRows(s, pc, written)
    PROVE  /\ OnlyTx(s) /\ SameCall(tx[s], tx'[s]) /\ tx'[s].pc = pc
           /\ tx'[s].attempts = tx[s].attempts
           /\ DOMAIN tx'[s].rows = DOMAIN written \cup DOMAIN tx[s].rows
           /\ \A j \in DOMAIN written : tx'[s].rows[j] = written[j]
  <1> DEFINE over == Over(written, tx[s].rows)
  <1>1. tx' = [tx EXCEPT ![s] = [tx[s] EXCEPT !.pc = pc, !.rows = over]]
    BY DEF WriteRows
  <1>2. \A t \in Sessions \ {s} : tx'[t] = tx[t]
    BY <1>1
  <1>3. tx'[s] = [tx[s] EXCEPT !.pc = pc, !.rows = over] /\ tx[s] \in Transaction
    BY <1>1
  <1>4. /\ over \in Versions(JobRow)
        /\ DOMAIN over = DOMAIN written \cup DOMAIN tx[s].rows
        /\ \A j \in DOMAIN written : over[j] = written[j]
    <2>1. tx[s].rows \in Versions(JobRow)
      BY DEF Transaction
    <2>2. ASSUME NEW g \in Versions(JobRow)
          PROVE  /\ Over(written, g) \in Versions(JobRow)
                 /\ DOMAIN Over(written, g) = DOMAIN written \cup DOMAIN g
                 /\ \A j \in DOMAIN written : Over(written, g)[j] = written[j]
      BY OverVersions
    <2> QED BY <2>1, <2>2
  <1> HIDE DEF over
  <1>5. ASSUME NEW p, p = tx[s], p \in Transaction, NEW q, q = [p EXCEPT !.pc = pc, !.rows = over]
        PROVE  /\ q \in Transaction /\ SameCall(p, q) /\ q.pc = pc
               /\ q.attempts = p.attempts /\ q.rows = over
    BY <1>4, <1>5 DEF Transaction, SameCall
  <1>6. /\ tx'[s] \in Transaction /\ SameCall(tx[s], tx'[s]) /\ tx'[s].pc = pc
        /\ tx'[s].attempts = tx[s].attempts /\ tx'[s].rows = over
    BY <1>3, <1>5
  <1>7. tx' \in [Sessions -> Transaction]
    BY <1>1, <1>3, <1>6
  <1> QED BY <1>2, <1>4, <1>6, <1>7 DEF OnlyTx

LEMMA WriteAttemptsEffect ==
    ASSUME tx \in [Sessions -> Transaction], NEW s \in Sessions, NEW pc \in Opening \cup Later,
           NEW written \in Versions(Claim), WriteAttempts(s, pc, written)
    PROVE  /\ OnlyTx(s) /\ SameCall(tx[s], tx'[s]) /\ tx'[s].pc = pc
           /\ tx'[s].rows = tx[s].rows
           /\ DOMAIN tx'[s].attempts = DOMAIN written \cup DOMAIN tx[s].attempts
           /\ \A j \in DOMAIN written : tx'[s].attempts[j] = written[j]
  <1> DEFINE over == Over(written, tx[s].attempts)
  <1>1. tx' = [tx EXCEPT ![s] = [tx[s] EXCEPT !.pc = pc, !.attempts = over]]
    BY DEF WriteAttempts
  <1>2. \A t \in Sessions \ {s} : tx'[t] = tx[t]
    BY <1>1
  <1>3. tx'[s] = [tx[s] EXCEPT !.pc = pc, !.attempts = over] /\ tx[s] \in Transaction
    BY <1>1
  <1>4. /\ over \in Versions(Claim)
        /\ DOMAIN over = DOMAIN written \cup DOMAIN tx[s].attempts
        /\ \A j \in DOMAIN written : over[j] = written[j]
    <2>1. tx[s].attempts \in Versions(Claim)
      BY DEF Transaction
    <2>2. ASSUME NEW g \in Versions(Claim)
          PROVE  /\ Over(written, g) \in Versions(Claim)
                 /\ DOMAIN Over(written, g) = DOMAIN written \cup DOMAIN g
                 /\ \A j \in DOMAIN written : Over(written, g)[j] = written[j]
      BY OverVersions
    <2> QED BY <2>1, <2>2
  <1> HIDE DEF over
  <1>5. ASSUME NEW p, p = tx[s], p \in Transaction,
               NEW q, q = [p EXCEPT !.pc = pc, !.attempts = over]
        PROVE  /\ q \in Transaction /\ SameCall(p, q) /\ q.pc = pc
               /\ q.rows = p.rows /\ q.attempts = over
    BY <1>4, <1>5 DEF Transaction, SameCall
  <1>6. /\ tx'[s] \in Transaction /\ SameCall(tx[s], tx'[s]) /\ tx'[s].pc = pc
        /\ tx'[s].rows = tx[s].rows /\ tx'[s].attempts = over
    BY <1>3, <1>5
  <1>7. tx' \in [Sessions -> Transaction]
    BY <1>1, <1>3, <1>6
  <1> QED BY <1>2, <1>4, <1>6, <1>7 DEF OnlyTx

\* A statement that commits nothing keeps the invariant if it leaves its own
\* transaction as it should be and locks only what nobody else has locked.
LEMMA StatementKeeps ==
    ASSUME PgInv, NEW s \in Sessions, OnlyTx(s), UNCHANGED vars,
           mismatch' \subseteq Mismatches,
           TxInv(tx'[s]),
           DOMAIN tx'[s].rows \cap RowsLocked(s) = {},
           DOMAIN tx'[s].attempts \cap AttemptsLocked(s) = {},
           tx'[s].op = "create_queued" => s = "api" /\ lastId < MaxJobs
    PROVE  PgInv'
  <1>1. StoreInv' /\ LeaseInv'
    BY DEF PgInv, vars, StoreInv, LeaseInv, TypeOK, RowInv, RowHistory, RowLifecycle,
           RowOwned, RowStarts, Exists, Queued, Processing, Finished
  <1>2. tx' \in [Sessions -> Transaction] /\ mismatch' \subseteq Mismatches
    BY DEF OnlyTx
  <1>3. LocksExclusive'
    <2> SUFFICES ASSUME NEW t \in Sessions, NEW u \in Sessions, t # u
                 PROVE  /\ DOMAIN tx'[t].rows \cap DOMAIN tx'[u].rows = {}
                        /\ DOMAIN tx'[t].attempts \cap DOMAIN tx'[u].attempts = {}
      BY DEF LocksExclusive
    <2>1. \A v \in Sessions \ {s} :
             /\ DOMAIN tx'[s].rows \cap DOMAIN tx'[v].rows = {}
             /\ DOMAIN tx'[s].attempts \cap DOMAIN tx'[v].attempts = {}
      BY DEF OnlyTx, RowsLocked, AttemptsLocked
    <2>2. CASE t # s /\ u # s
      BY <2>2 DEF PgInv, LocksExclusive, OnlyTx
    <2> QED BY <2>1, <2>2
  <1>4. CreateInv'
    BY SMTT(40) DEF PgInv, CreateInv, OnlyTx, vars
  <1>5. ASSUME NEW t \in Sessions PROVE TxInv(tx[t])'
    <2>1. TxInv(tx'[t])
      BY DEF PgInv, OnlyTx
    <2> QED BY <2>1 DEF vars, TxInv, ArgumentsInv, LocksInv, MethodOf, RowAlone, RowAndAttempt,
                       AttemptAlone, Queued, Processing
  <1> QED BY <1>1, <1>2, <1>3, <1>4, <1>5 DEF PgInv

-----------------------------------------------------------------------------
(* What a running transaction may count on. *)

LEMMA Running ==
    ASSUME PgInv, NEW s \in Sessions, tx[s].pc # "idle"
    PROVE  /\ tx[s] \in Transaction /\ tx[s].pc \in Opening \cup Later
           /\ MethodOf(tx[s]) /\ ArgumentsInv(tx[s]) /\ LocksInv(tx[s])
           /\ tx[s].op = "create_queued" => s = "api" /\ lastId < MaxJobs
           /\ tx[s].batch \subseteq Jobs
  <1>1. tx[s] \in Transaction /\ TxInv(tx[s]) /\ tx[s] # Idle
    BY IdleTransaction DEF PgInv
  <1>2. tx[s].batch \subseteq Jobs
    BY <1>1 DEF Transaction
  <1> QED BY <1>1, <1>2 DEF TxInv, PgInv, CreateInv

LEMMA Committed ==
    ASSUME PgInv
    PROVE  /\ tx \in [Sessions -> Transaction]
           /\ now \in Time /\ lastId \in 0 .. MaxJobs
           /\ job \in [Jobs -> JobRow] /\ claim \in [Jobs -> Claim] /\ starts \in [Jobs -> Nat]
           /\ mismatch \subseteq Mismatches
           /\ \A j \in Jobs : RowInv(j)
  BY DEF PgInv, StoreInv, TypeOK

LEMMA OwnLocks ==
    ASSUME PgInv, NEW s \in Sessions
    PROVE  /\ DOMAIN tx[s].rows \cap RowsLocked(s) = {}
           /\ DOMAIN tx[s].attempts \cap AttemptsLocked(s) = {}
           /\ DOMAIN tx[s].rows \subseteq Jobs /\ DOMAIN tx[s].attempts \subseteq Jobs
           /\ \A j \in DOMAIN tx[s].rows : tx[s].rows[j] \in JobRow
           /\ \A j \in DOMAIN tx[s].attempts : tx[s].attempts[j] \in Claim
  <1>1. /\ DOMAIN tx[s].rows \cap RowsLocked(s) = {}
        /\ DOMAIN tx[s].attempts \cap AttemptsLocked(s) = {}
    BY DEF PgInv, LocksExclusive, RowsLocked, AttemptsLocked
  <1>2. tx[s].rows \in Versions(JobRow) /\ tx[s].attempts \in Versions(Claim)
    BY DEF PgInv, Transaction
  <1> QED BY <1>1, <1>2, VersionsAre

\* The transaction ends, or is rolled back.
LEMMA EndKeeps ==
    ASSUME PgInv, NEW s \in Sessions, End(s), UNCHANGED vars,
           mismatch' \subseteq Mismatches
    PROVE  PgInv'
  <1>1. OnlyTx(s) /\ tx'[s] = Idle
    BY Committed, EndEffect
  <1>2. TxInv(tx'[s])
    BY <1>1 DEF TxInv
  <1> QED BY <1>1, <1>2, IdleTransaction, StatementKeeps

\* A SELECT that locks nothing leads to the next statement.
LEMMA OpeningKeeps ==
    ASSUME PgInv, NEW s \in Sessions, tx[s].pc \in Opening, OnlyTx(s),
           UNCHANGED <<vars, mismatch>>,
           tx'[s].pc \in Opening, tx'[s].op = tx[s].op, MethodOf(tx'[s]), ArgumentsInv(tx'[s]),
           tx'[s].rows = tx[s].rows, tx'[s].attempts = tx[s].attempts
    PROVE  PgInv'
  <1>1. tx[s].pc # "idle"
    BY DEF Opening, Methods, Publications
  <1>2. DOMAIN tx'[s].rows = {} /\ DOMAIN tx'[s].attempts = {}
    BY <1>1, Running DEF LocksInv
  <1>3. LocksInv(tx'[s])
    BY <1>2 DEF LocksInv, Opening, Methods, Publications
  <1>4. TxInv(tx'[s])
    BY <1>3 DEF TxInv
  <1>5. tx'[s].op = "create_queued" => s = "api" /\ lastId < MaxJobs
    BY <1>1, Running
  <1> QED BY <1>2, <1>4, <1>5, Committed, StatementKeeps

LEMMA ReplaceEffect ==
    ASSUME tx \in [Sessions -> Transaction], NEW s \in Sessions, NEW q \in Transaction,
           tx' = [tx EXCEPT ![s] = q]
    PROVE  OnlyTx(s) /\ tx'[s] = q
  BY DEF OnlyTx

-----------------------------------------------------------------------------
(* One lemma per statement. *)

LEMMA CreateSelectKeeps ==
    ASSUME PgInv, NEW s \in Sessions, CreateSelect(s)
    PROVE  PgInv'
  <1>1. /\ tx[s].pc = "create_queued" /\ UNCHANGED <<vars, mismatch>>
        /\ tx' = [tx EXCEPT ![s].pc = "insert", ![s].at = now] \/ End(s)
    BY DEF CreateSelect, At, Statement
  <1>2. CASE tx' = [tx EXCEPT ![s].pc = "insert", ![s].at = now]
    <2> DEFINE p == tx[s]
               q == [tx[s] EXCEPT !.pc = "insert", !.at = now]
    <2>1. tx' = [tx EXCEPT ![s] = q]
      BY <1>2, Committed
    <2>2. p \in Transaction /\ now \in Time
      BY Committed
    <2>3. ASSUME NEW r \in Transaction
          PROVE  LET e == [r EXCEPT !.pc = "insert", !.at = now]
                 IN  /\ e \in Transaction /\ e.pc = "insert" /\ e.op = r.op /\ e.at = now
                     /\ e.key = r.key /\ e.rows = r.rows /\ e.attempts = r.attempts
      BY <2>2 DEF Transaction, Opening
    <2>4. /\ q \in Transaction /\ q.pc = "insert" /\ q.op = p.op /\ q.at = now
          /\ q.key = p.key /\ q.rows = p.rows /\ q.attempts = p.attempts
      BY <2>2, <2>3
    <2>5. OnlyTx(s) /\ tx'[s] = q
      BY <2>1, <2>4, Committed, ReplaceEffect
    <2> HIDE DEF q
    <2>6. p.op = "create_queued" /\ p.key \in Keys
      BY <1>1, Running DEF MethodOf, ArgumentsInv, Methods
    <2>7. MethodOf(q)
      BY <2>4, <2>6 DEF MethodOf, Methods, Publications
    <2>8. ArgumentsInv(q)
      BY <2>2, <2>4, <2>6 DEF ArgumentsInv, Publications, Time
    <2>9. tx[s].pc \in Opening /\ q.pc \in Opening
      BY <1>1, <2>4 DEF Opening, Methods
    <2> QED BY <1>1, <2>4, <2>5, <2>7, <2>8, <2>9, OpeningKeeps
  <1>3. CASE End(s)
    BY <1>1, <1>3, EndKeeps, Committed DEF vars
  <1> QED BY <1>1, <1>2, <1>3

\* The arguments of a transaction that has only moved on.
LEMMA SameArguments ==
    ASSUME NEW p, NEW q, SameCall(p, q), ArgumentsInv(p)
    PROVE  ArgumentsInv(q)
  BY DEF SameCall, ArgumentsInv

LEMMA GotoKeeps ==
    ASSUME PgInv, NEW s \in Sessions, NEW pc \in Opening, tx[s].pc \in Opening, Goto(s, pc),
           UNCHANGED <<vars, mismatch>>,
           \/ pc \in {"head", "start"} /\ tx[s].op = "claim_dispatch"
           \/ pc = "flag" /\ tx[s].op = "request_cancellation"
    PROVE  PgInv'
  <1>1. /\ OnlyTx(s) /\ SameCall(tx[s], tx'[s]) /\ tx'[s].pc = pc
        /\ tx'[s].rows = tx[s].rows /\ tx'[s].attempts = tx[s].attempts
    BY Committed, GotoEffect
  <1>2. tx[s].pc # "idle"
    BY DEF Opening, Methods, Publications
  <1>3. ArgumentsInv(tx'[s])
    BY <1>1, <1>2, Running, SameArguments
  <1>4. MethodOf(tx'[s]) /\ tx'[s].op = tx[s].op
    BY <1>1 DEF MethodOf, SameCall, Methods, Publications
  <1> QED BY <1>1, <1>3, <1>4, OpeningKeeps

LEMMA ExpireSelectKeeps ==
    ASSUME PgInv, NEW s \in Sessions, ExpireSelect(s)
    PROVE  PgInv'
  <1> DEFINE due == {j \in Jobs : Queued(j) /\ QueueDeadline(j) <= tx[s].at} \ RowsLocked(s)
             batch == FirstOf(due, BatchLimit, OlderThan)
             written == [j \in batch |-> job[j]]
  <1>1. /\ tx[s].pc = "expire_queued_jobs" /\ UNCHANGED <<vars, mismatch>>
        /\ End(s) \/ WriteRows(s, "expire", written)
    BY DEF ExpireSelect, At, Statement
  <1>2. batch \subseteq due
    BY ExpiredBatchSelected
  <1>3. CASE WriteRows(s, "expire", written)
    <2>1. written \in Versions(JobRow) /\ DOMAIN written = batch
      <3>1. batch \in SUBSET Jobs /\ \A j \in batch : written[j] \in JobRow
        BY <1>2, Committed
      <3> QED BY <3>1, WrittenVersions
    <2> HIDE DEF written
    <2>2. /\ OnlyTx(s) /\ SameCall(tx[s], tx'[s]) /\ tx'[s].pc = "expire"
          /\ tx'[s].attempts = tx[s].attempts
          /\ DOMAIN tx'[s].rows = batch \cup DOMAIN tx[s].rows
      <3>1. "expire" \in Opening \cup Later
        BY DEF Later
      <3>2. tx \in [Sessions -> Transaction]
        BY Committed
      <3>3. /\ OnlyTx(s) /\ SameCall(tx[s], tx'[s]) /\ tx'[s].pc = "expire"
            /\ tx'[s].attempts = tx[s].attempts
            /\ DOMAIN tx'[s].rows = DOMAIN written \cup DOMAIN tx[s].rows
        BY <1>3, <2>1, <3>1, <3>2, WriteRowsEffect, Zenon
      <3> QED BY <2>1, <3>3
    <2>3. /\ DOMAIN tx[s].rows = {} /\ DOMAIN tx[s].attempts = {}
          /\ tx[s].op = "expire_queued_jobs"
          /\ ArgumentsInv(tx[s])
      BY <1>1, Running DEF LocksInv, MethodOf, Opening, Methods
    <2>4. \A j \in batch : Queued(j) /\ job[j].submittedAt <= tx[s].at /\ j \notin RowsLocked(s)
      <3> SUFFICES ASSUME NEW j \in batch
                   PROVE  Queued(j) /\ job[j].submittedAt <= tx[s].at /\ j \notin RowsLocked(s)
        OBVIOUS
      <3>1. j \in Jobs /\ Queued(j) /\ QueueDeadline(j) <= tx[s].at /\ j \notin RowsLocked(s)
        BY <1>2
      <3>2. job[j].submittedAt \in Int /\ tx[s].at \in Int /\ QueueTimeout \in Nat
        BY <2>3, <3>1, Committed, PolicyAssumption DEF JobRow, ArgumentsInv, Time, NoTime
      <3> QED BY <3>1, <3>2 DEF QueueDeadline
    <2> HIDE DEF batch
    <2>5. ArgumentsInv(tx'[s])
      BY <2>2, <2>3, SameArguments
    <2>6. MethodOf(tx'[s])
      BY <2>2, <2>3 DEF SameCall, MethodOf, Methods, Publications
    <2>7. LocksInv(tx'[s])
      BY <2>2, <2>3, <2>4 DEF SameCall, LocksInv, Opening, Methods, Publications
    <2>8. TxInv(tx'[s])
      BY <2>2, <2>5, <2>6, <2>7 DEF TxInv, Later
    <2>9. /\ DOMAIN tx'[s].rows \cap RowsLocked(s) = {}
          /\ DOMAIN tx'[s].attempts \cap AttemptsLocked(s) = {}
          /\ tx'[s].op # "create_queued"
      BY <2>2, <2>3, <2>4 DEF SameCall
    <2> QED BY <1>1, <2>2, <2>8, <2>9, Committed, StatementKeeps DEF vars
  <1>4. CASE End(s)
    BY <1>1, <1>4, EndKeeps, Committed DEF vars
  <1> QED BY <1>1, <1>3, <1>4

LEMMA ExpireUpdateKeeps ==
    ASSUME PgInv, NEW s \in Sessions, ExpireUpdate(s)
    PROVE  PgInv'
  <1> DEFINE batch == DOMAIN tx[s].rows
             written == [j \in batch |-> FinishAt(s, job[j], "failed", "queue_timeout")]
  <1>1. /\ tx[s].pc = "expire" /\ UNCHANGED <<vars, mismatch>>
        /\ WriteRows(s, "commit", written)
    BY DEF ExpireUpdate, At, Statement
  <1>2. /\ tx[s].op = "expire_queued_jobs" /\ ArgumentsInv(tx[s])
        /\ DOMAIN tx[s].attempts = {}
        /\ \A j \in batch : Queued(j) /\ job[j].submittedAt <= tx[s].at
    BY <1>1, Running DEF LocksInv, MethodOf
  <1>3. ASSUME NEW j \in batch
        PROVE  written[j] \in JobRow /\ LeftQueue(job[j], written[j], tx[s].at)
    <2>1. j \in Jobs /\ job[j] \in JobRow /\ now \in Time /\ tx[s].at \in Time
      BY <1>2, OwnLocks, Committed DEF ArgumentsInv
    <2>2. written[j] = Ended(job[j], "failed", "queue_timeout", tx[s].at)
      BY <2>1, FinishAtIs DEF Outcome, ErrorCode
    <2> HIDE DEF written
    <2>3. LeftQueue(job[j], written[j], tx[s].at)
      BY <1>2, <2>2 DEF LeftQueue, Queued
    <2> QED BY <2>1, <2>3, ChangedRowType
  <1>4. written \in Versions(JobRow) /\ DOMAIN written = batch
    BY <1>3, OwnLocks, WrittenVersions
  <1> HIDE DEF written
  <1>5. /\ OnlyTx(s) /\ SameCall(tx[s], tx'[s]) /\ tx'[s].pc = "commit"
        /\ tx'[s].attempts = tx[s].attempts
        /\ DOMAIN tx'[s].rows = batch /\ \A j \in batch : tx'[s].rows[j] = written[j]
    <2>1. "commit" \in Opening \cup Later
      BY DEF Later
    <2>2. tx \in [Sessions -> Transaction]
      BY Committed
    <2>3. /\ OnlyTx(s) /\ SameCall(tx[s], tx'[s]) /\ tx'[s].pc = "commit"
          /\ tx'[s].attempts = tx[s].attempts
          /\ DOMAIN tx'[s].rows = DOMAIN written \cup batch
          /\ \A j \in DOMAIN written : tx'[s].rows[j] = written[j]
      BY <1>1, <1>4, <2>1, <2>2, WriteRowsEffect, Zenon
    <2> QED BY <1>4, <2>3
  <1>6. \A j \in DOMAIN tx'[s].rows : RowAlone(tx'[s], j)
    BY <1>3, <1>5 DEF RowAlone, SameCall
  <1>7. LocksInv(tx'[s])
    BY <1>2, <1>5, <1>6 DEF LocksInv, Opening, Methods, Publications
  <1>8. TxInv(tx'[s]) /\ tx'[s].op # "create_queued"
    <2>1. MethodOf(tx'[s])
      BY <1>5 DEF MethodOf, Methods, Publications
    <2>2. ArgumentsInv(tx'[s])
      BY <1>2, <1>5, SameArguments
    <2> QED BY <1>2, <1>5, <1>7, <2>1, <2>2 DEF TxInv, Later, SameCall
  <1>9. /\ DOMAIN tx'[s].rows \cap RowsLocked(s) = {}
        /\ DOMAIN tx'[s].attempts \cap AttemptsLocked(s) = {}
    BY <1>5, OwnLocks
  <1> QED BY <1>1, <1>5, <1>8, <1>9, Committed, StatementKeeps DEF vars

\* The first UPDATE of a transaction, of one row that nobody has locked.
LEMMA OneRowWritten ==
    ASSUME PgInv, NEW s \in Sessions, tx[s].pc \in Opening,
           NEW pc \in Later, NEW j \in Jobs, NEW v \in JobRow,
           CanUpdateRows(s, {j}), WriteRows(s, pc, Just(j, v))
    PROVE  /\ OnlyTx(s) /\ SameCall(tx[s], tx'[s]) /\ tx'[s].pc = pc
           /\ DOMAIN tx'[s].rows = {j} /\ tx'[s].rows[j] = v
           /\ DOMAIN tx'[s].attempts = {} /\ ArgumentsInv(tx'[s])
           /\ DOMAIN tx'[s].rows \cap RowsLocked(s) = {}
           /\ DOMAIN tx'[s].attempts \cap AttemptsLocked(s) = {}
           /\ tx'[s].op = "create_queued" => s = "api" /\ lastId < MaxJobs
  <1>1. tx[s].pc # "idle"
    BY DEF Opening, Methods, Publications
  <1>2. /\ DOMAIN tx[s].rows = {} /\ DOMAIN tx[s].attempts = {} /\ ArgumentsInv(tx[s])
        /\ tx[s].op = "create_queued" => s = "api" /\ lastId < MaxJobs
    BY <1>1, Running DEF LocksInv
  <1>3. /\ Just(j, v) \in Versions(JobRow)
        /\ DOMAIN Just(j, v) = {j} /\ Just(j, v)[j] = v
    BY JustVersions
  <1>4. tx \in [Sessions -> Transaction] /\ pc \in Opening \cup Later
    BY Committed
  <1>5. /\ OnlyTx(s) /\ SameCall(tx[s], tx'[s]) /\ tx'[s].pc = pc
        /\ tx'[s].attempts = tx[s].attempts
        /\ DOMAIN tx'[s].rows = DOMAIN Just(j, v) \cup DOMAIN tx[s].rows
        /\ \A i \in DOMAIN Just(j, v) : tx'[s].rows[i] = Just(j, v)[i]
    BY <1>3, <1>4, WriteRowsEffect, Zenon
  <1>6. /\ DOMAIN tx'[s].rows = {j} /\ tx'[s].rows[j] = v /\ DOMAIN tx'[s].attempts = {}
    BY <1>2, <1>3, <1>5
  <1>7. ArgumentsInv(tx'[s])
    BY <1>2, <1>5, SameArguments
  <1>8. DOMAIN tx'[s].rows \cap RowsLocked(s) = {}
    BY <1>6 DEF CanUpdateRows
  <1> QED BY <1>2, <1>5, <1>6, <1>7, <1>8 DEF SameCall

\* It leaves the queue or raises the flag, and is committed next.
LEMMA RowAloneKeeps ==
    ASSUME PgInv, NEW s \in Sessions, tx[s].pc \in Opening,
           NEW j \in Jobs, NEW v, CanUpdateRows(s, {j}), WriteRows(s, "commit", Just(j, v)),
           \/ LeftQueue(job[j], v, tx[s].at)
           \/ tx[s].op = "request_cancellation" /\ FlagRaised(job[j], v),
           UNCHANGED <<vars, mismatch>>
    PROVE  PgInv'
  <1>1. tx[s].pc # "idle"
    BY DEF Opening, Methods, Publications
  <1>2. tx[s].at \in Time /\ job[j] \in JobRow
    BY <1>1, Running, Committed DEF ArgumentsInv
  <1>3. v \in JobRow
    BY <1>2, ChangedRowType
  <1>4. "commit" \in Later
    BY DEF Later
  <1>5. /\ OnlyTx(s) /\ SameCall(tx[s], tx'[s]) /\ tx'[s].pc = "commit"
        /\ DOMAIN tx'[s].rows = {j} /\ tx'[s].rows[j] = v
        /\ DOMAIN tx'[s].attempts = {} /\ ArgumentsInv(tx'[s])
        /\ DOMAIN tx'[s].rows \cap RowsLocked(s) = {}
        /\ DOMAIN tx'[s].attempts \cap AttemptsLocked(s) = {}
        /\ tx'[s].op = "create_queued" => s = "api" /\ lastId < MaxJobs
    BY <1>3, <1>4, OneRowWritten
  <1>6. RowAlone(tx'[s], j)
    BY <1>5 DEF RowAlone, SameCall
  <1>7. LocksInv(tx'[s])
    BY <1>5, <1>6 DEF LocksInv, Opening, Methods, Publications
  <1>8. MethodOf(tx'[s])
    BY <1>5 DEF MethodOf, Methods, Publications
  <1>9. TxInv(tx'[s])
    BY <1>4, <1>5, <1>7, <1>8 DEF TxInv
  <1> QED BY <1>5, <1>9, Committed, StatementKeeps

\* The arguments of the methods that name a job.
LEMMA NamedJob ==
    ASSUME PgInv, NEW s \in Sessions, tx[s].pc # "idle",
           tx[s].op \in {"claim_dispatch", "request_cancellation"} \cup Publications
    PROVE  /\ tx[s].j \in Jobs /\ tx[s].at \in Time /\ now \in Time
           /\ job[tx[s].j] \in JobRow /\ claim[tx[s].j] \in Claim
           /\ job[tx[s].j].submittedAt <= tx[s].at
  BY Running, Committed, BoundsAssumption DEF ArgumentsInv, Jobs

LEMMA ClaimTimeoutKeeps ==
    ASSUME PgInv, NEW s \in Sessions, ClaimTimeout(s)
    PROVE  PgInv'
  <1> DEFINE j == tx[s].j
             v == FinishAt(s, job[j], "failed", "queue_timeout")
  <1>1. /\ tx[s].pc = "claim_dispatch" /\ UNCHANGED <<vars, mismatch>>
        /\ \/ Queued(j) /\ CanUpdateRows(s, {j}) /\ WriteRows(s, "commit", Just(j, v))
           \/ Goto(s, "head")
    BY DEF ClaimTimeout, At, Statement
  <1>2. tx[s].op = "claim_dispatch" /\ tx[s].pc \in Opening
    BY <1>1, Running DEF MethodOf, Opening, Methods
  <1>3. CASE Queued(j) /\ CanUpdateRows(s, {j}) /\ WriteRows(s, "commit", Just(j, v))
    <2>1. /\ j \in Jobs /\ tx[s].at \in Time /\ now \in Time /\ job[j] \in JobRow
          /\ job[j].submittedAt <= tx[s].at
      BY <1>1, <1>2, NamedJob
    <2>2. v = Ended(job[j], "failed", "queue_timeout", tx[s].at)
      BY <2>1, FinishAtIs DEF Outcome, ErrorCode
    <2> HIDE DEF v
    <2>3. LeftQueue(job[j], v, tx[s].at)
      BY <1>3, <2>1, <2>2 DEF LeftQueue, Queued
    <2> HIDE DEF j
    <2> QED BY <1>1, <1>2, <1>3, <2>1, <2>3, RowAloneKeeps
  <1>4. CASE Goto(s, "head")
    <2>1. "head" \in Opening
      BY DEF Opening
    <2> QED BY <1>1, <1>2, <1>4, <2>1, GotoKeeps
  <1> QED BY <1>1, <1>3, <1>4

LEMMA ClaimHeadKeeps ==
    ASSUME PgInv, NEW s \in Sessions, ClaimHead(s)
    PROVE  PgInv'
  <1>1. /\ tx[s].pc = "head" /\ UNCHANGED <<vars, mismatch>>
        /\ Goto(s, "start") \/ End(s)
    BY DEF ClaimHead, At, Statement
  <1>2. tx[s].op = "claim_dispatch" /\ tx[s].pc \in Opening /\ "start" \in Opening
    BY <1>1, Running DEF MethodOf, Opening
  <1>3. CASE Goto(s, "start")
    BY <1>1, <1>2, <1>3, GotoKeeps
  <1>4. CASE End(s)
    BY <1>1, <1>4, EndKeeps, Committed DEF vars
  <1> QED BY <1>1, <1>3, <1>4

LEMMA ClaimStartKeeps ==
    ASSUME PgInv, NEW s \in Sessions, ClaimStart(s)
    PROVE  PgInv'
  <1> DEFINE j == tx[s].j
             v == [job[j] EXCEPT !.status = "processing", !.startedAt = tx[s].at]
  <1>1. /\ tx[s].pc = "start" /\ UNCHANGED <<vars, mismatch>>
        /\ \/ /\ j \in ClaimableAt(tx[s].at) /\ CanUpdateRows(s, {j})
              /\ WriteRows(s, "own", Just(j, v))
           \/ End(s)
    BY DEF ClaimStart, At, Statement
  <1>2. tx[s].op = "claim_dispatch" /\ tx[s].pc \in Opening /\ "own" \in Later
    BY <1>1, Running DEF MethodOf, Opening, Later
  <1>3. CASE /\ j \in ClaimableAt(tx[s].at) /\ CanUpdateRows(s, {j})
             /\ WriteRows(s, "own", Just(j, v))
    <2>1. /\ j \in Jobs /\ tx[s].at \in Time /\ job[j] \in JobRow
          /\ job[j].submittedAt <= tx[s].at /\ Queued(j)
      BY <1>1, <1>2, <1>3, NamedJob DEF ClaimableAt
    <2>2. Started(job[j], v, tx[s].at)
      BY <2>1 DEF Started, Queued
    <2> HIDE DEF v
    <2>3. v \in JobRow
      BY <2>1, <2>2, ChangedRowType
    <2>4. /\ OnlyTx(s) /\ SameCall(tx[s], tx'[s]) /\ tx'[s].pc = "own"
          /\ DOMAIN tx'[s].rows = {j} /\ tx'[s].rows[j] = v
          /\ DOMAIN tx'[s].attempts = {} /\ ArgumentsInv(tx'[s])
          /\ DOMAIN tx'[s].rows \cap RowsLocked(s) = {}
          /\ DOMAIN tx'[s].attempts \cap AttemptsLocked(s) = {}
          /\ tx'[s].op = "create_queued" => s = "api" /\ lastId < MaxJobs
      <3> HIDE DEF j
      <3> QED BY <1>2, <1>3, <2>1, <2>3, OneRowWritten
    <2>5. LocksInv(tx'[s])
      BY <2>2, <2>4 DEF LocksInv, SameCall, Opening, Methods, Publications
    <2>6. MethodOf(tx'[s])
      BY <1>2, <2>4 DEF MethodOf, SameCall, Methods, Publications
    <2>7. TxInv(tx'[s])
      BY <1>2, <2>4, <2>5, <2>6 DEF TxInv
    <2> QED BY <1>1, <2>4, <2>7, Committed, StatementKeeps
  <1>4. CASE End(s)
    BY <1>1, <1>4, EndKeeps, Committed DEF vars
  <1> QED BY <1>1, <1>3, <1>4

LEMMA CancelQueuedKeeps ==
    ASSUME PgInv, NEW s \in Sessions, CancelQueued(s)
    PROVE  PgInv'
  <1> DEFINE j == tx[s].j
             v == FinishAt(s, job[j], "cancelled", "none")
  <1>1. /\ tx[s].pc = "cancel" /\ UNCHANGED vars
        /\ \/ /\ Queued(j) /\ CanUpdateRows(s, {j}) /\ WriteRows(s, "commit", Just(j, v))
              /\ UNCHANGED mismatch
           \/ Raise(s)
    BY DEF CancelQueued, At
  <1>2. tx[s].op = "request_cancellation" /\ tx[s].pc \in Opening
    BY <1>1, Running DEF MethodOf, Opening
  <1>3. CASE /\ Queued(j) /\ CanUpdateRows(s, {j}) /\ WriteRows(s, "commit", Just(j, v))
             /\ UNCHANGED mismatch
    <2>1. /\ j \in Jobs /\ tx[s].at \in Time /\ now \in Time /\ job[j] \in JobRow
          /\ job[j].submittedAt <= tx[s].at
      BY <1>1, <1>2, NamedJob
    <2>2. v = Ended(job[j], "cancelled", "none", tx[s].at)
      BY <2>1, FinishAtIs DEF Outcome, ErrorCode
    <2> HIDE DEF v
    <2>3. LeftQueue(job[j], v, tx[s].at)
      BY <1>3, <2>1, <2>2 DEF LeftQueue, Queued
    <2> HIDE DEF j
    <2> QED BY <1>1, <1>2, <1>3, <2>1, <2>3, RowAloneKeeps
  <1>4. CASE Raise(s)
    <2>1. mismatch' \subseteq Mismatches /\ End(s)
      BY <1>2, <1>4, Committed DEF Raise, Mismatches
    <2> QED BY <1>1, <2>1, EndKeeps
  <1> QED BY <1>1, <1>3, <1>4

LEMMA CancelProcessingKeeps ==
    ASSUME PgInv, NEW s \in Sessions, CancelProcessing(s)
    PROVE  PgInv'
  <1> DEFINE j == tx[s].j
             v == [job[j] EXCEPT !.cancellationRequested = TRUE]
  <1>1. /\ tx[s].pc = "flag" /\ UNCHANGED <<vars, mismatch>>
        /\ \/ /\ Processing(j) /\ ~Cancelling(j) /\ CanUpdateRows(s, {j})
              /\ WriteRows(s, "commit", Just(j, v))
           \/ End(s)
    BY DEF CancelProcessing, At, Statement
  <1>2. tx[s].op = "request_cancellation" /\ tx[s].pc \in Opening
    BY <1>1, Running DEF MethodOf, Opening
  <1>3. CASE /\ Processing(j) /\ ~Cancelling(j) /\ CanUpdateRows(s, {j})
             /\ WriteRows(s, "commit", Just(j, v))
    <2>1. j \in Jobs
      BY <1>1, <1>2, NamedJob
    <2>2. FlagRaised(job[j], v)
      BY <1>3 DEF FlagRaised, Processing, Cancelling
    <2> HIDE DEF v, j
    <2> QED BY <1>1, <1>2, <1>3, <2>1, <2>2, RowAloneKeeps
  <1>4. CASE End(s)
    BY <1>1, <1>4, EndKeeps, Committed DEF vars
  <1> QED BY <1>1, <1>3, <1>4

LEMMA CancelSelectKeeps ==
    ASSUME PgInv, NEW s \in Sessions, CancelSelect(s)
    PROVE  PgInv'
  <1> DEFINE p == tx[s]
  <1>1. /\ p.pc = "request_cancellation" /\ UNCHANGED <<vars, mismatch>>
        /\ \/ tx' = [tx EXCEPT ![s] = [p EXCEPT !.pc = "cancel", !.at = now]]
           \/ Goto(s, "flag")
           \/ End(s)
    BY Committed DEF CancelSelect, At, Statement, Goto, End
  <1>2. p.op = "request_cancellation" /\ p.pc \in Opening /\ "flag" \in Opening
    BY <1>1, Running DEF MethodOf, Opening, Methods
  <1>3. CASE tx' = [tx EXCEPT ![s] = [p EXCEPT !.pc = "cancel", !.at = now]]
    <2>1. p \in Transaction /\ now \in Time
      BY Committed
    <2>2. ASSUME NEW r \in Transaction
          PROVE  LET e == [r EXCEPT !.pc = "cancel", !.at = now]
                 IN  /\ e \in Transaction /\ e.pc = "cancel" /\ e.op = r.op /\ e.at = now
                     /\ e.j = r.j /\ e.rows = r.rows /\ e.attempts = r.attempts
      BY <2>1 DEF Transaction, Opening
    <2> DEFINE q == [p EXCEPT !.pc = "cancel", !.at = now]
    <2>3. /\ q \in Transaction /\ q.pc = "cancel" /\ q.op = p.op /\ q.at = now
          /\ q.j = p.j /\ q.rows = p.rows /\ q.attempts = p.attempts
      BY <2>1, <2>2
    <2>4. OnlyTx(s) /\ tx'[s] = q
      BY <1>3, <2>3, Committed, ReplaceEffect
    <2> HIDE DEF q
    <2>5. MethodOf(q) /\ q.pc \in Opening
      BY <1>2, <2>3 DEF MethodOf, Opening, Methods, Publications
    <2>6. p.j \in 1 .. lastId /\ job[p.j].submittedAt \in Int /\ job[p.j].submittedAt <= now
      <3>1. /\ p.j \in 1 .. lastId /\ job[p.j].submittedAt <= p.at
            /\ p.at \in Time /\ p.at <= now
        BY <1>1, <1>2, Running DEF ArgumentsInv
      <3>2. job[p.j].submittedAt \in Int
        BY <1>1, <1>2, NamedJob DEF JobRow, Time, NoTime
      <3> QED BY <2>1, <3>1, <3>2 DEF Time
    <2>7. ArgumentsInv(q)
      BY <1>2, <2>1, <2>3, <2>6 DEF ArgumentsInv, Publications, Time
    <2> QED BY <1>1, <1>2, <2>3, <2>4, <2>5, <2>7, OpeningKeeps
  <1>4. CASE Goto(s, "flag")
    BY <1>1, <1>2, <1>4, GotoKeeps
  <1>5. CASE End(s)
    BY <1>1, <1>5, EndKeeps, Committed DEF vars
  <1> QED BY <1>1, <1>3, <1>4, <1>5

LEMMA PublishUpdateKeeps ==
    ASSUME PgInv, NEW s \in Sessions, PublishUpdate(s)
    PROVE  PgInv'
  <1> DEFINE j == tx[s].j
             v == Published(s, j)
  <1>1. /\ tx[s].pc = tx[s].op /\ tx[s].op \in Publications /\ UNCHANGED <<vars, mismatch>>
        /\ \/ /\ Processing(j) /\ (Cancelling(j) <=> tx[s].op = "publish_cancelled")
              /\ claim[j].owner = tx[s].w
              /\ CanUpdateRows(s, {j}) /\ WriteRows(s, "clear claim", Just(j, v))
           \/ End(s)
    BY DEF PublishUpdate, At, Statement, Publications
  <1>2. tx[s].pc \in Opening /\ tx[s].pc # "idle" /\ "clear claim" \in Later
    BY <1>1 DEF Opening, Later, Methods, Publications
  <1>3. CASE /\ Processing(j) /\ (Cancelling(j) <=> tx[s].op = "publish_cancelled")
             /\ claim[j].owner = tx[s].w
             /\ CanUpdateRows(s, {j}) /\ WriteRows(s, "clear claim", Just(j, v))
    <2>1. /\ j \in Jobs /\ tx[s].at \in Time /\ now \in Time /\ job[j] \in JobRow
          /\ job[j].startedAt <= tx[s].at
      BY <1>1, <1>2, NamedJob, Running DEF ArgumentsInv
    <2>2. /\ FinishAt(s, job[j], "cancelled", "none") = Ended(job[j], "cancelled", "none", tx[s].at)
          /\ FinishAt(s, job[j], "succeeded", "none") = Ended(job[j], "succeeded", "none", tx[s].at)
          /\ FinishAt(s, job[j], "failed", "execution_error")
               = Ended(job[j], "failed", "execution_error", tx[s].at)
      BY <2>1, FinishAtIs DEF Outcome, ErrorCode
    <2>3. Concluded(job[j], v, tx[s].at)
      <3>1. CASE tx[s].op = "publish_cancelled"
        <4>1. v = Ended(job[j], "cancelled", "none", tx[s].at) /\ job[j].cancellationRequested
          BY <1>3, <2>2, <3>1 DEF Published, Cancelling
        <4> HIDE DEF v
        <4> QED BY <1>3, <2>1, <4>1 DEF Concluded, Processing
      <3>2. CASE tx[s].op = "publish_failure"
        <4>1. /\ v = Ended(job[j], "failed", "execution_error", tx[s].at)
              /\ ~job[j].cancellationRequested
          BY <1>3, <2>2, <3>2 DEF Published, Cancelling
        <4> HIDE DEF v
        <4> QED BY <1>3, <2>1, <4>1 DEF Concluded, Processing
      <3>3. CASE tx[s].op = "publish_success"
        <4>1. /\ v = [Ended(job[j], "succeeded", "none", tx[s].at) EXCEPT !.hasResult = TRUE]
              /\ ~job[j].cancellationRequested
          BY <1>3, <2>2, <3>3 DEF Published, Cancelling
        <4> HIDE DEF v
        <4> QED BY <1>3, <2>1, <4>1 DEF Concluded, Processing
      <3> QED BY <1>1, <3>1, <3>2, <3>3 DEF Publications
    <2> HIDE DEF v
    <2>4. v \in JobRow
      BY <2>1, <2>3, ChangedRowType
    <2>5. /\ OnlyTx(s) /\ SameCall(tx[s], tx'[s]) /\ tx'[s].pc = "clear claim"
          /\ DOMAIN tx'[s].rows = {j} /\ tx'[s].rows[j] = v
          /\ DOMAIN tx'[s].attempts = {} /\ ArgumentsInv(tx'[s])
          /\ DOMAIN tx'[s].rows \cap RowsLocked(s) = {}
          /\ DOMAIN tx'[s].attempts \cap AttemptsLocked(s) = {}
          /\ tx'[s].op = "create_queued" => s = "api" /\ lastId < MaxJobs
      <3> HIDE DEF j
      <3> QED BY <1>2, <1>3, <2>1, <2>4, OneRowWritten
    <2>6. LocksInv(tx'[s])
      BY <1>3, <2>3, <2>5 DEF LocksInv, SameCall, Opening, Methods, Publications
    <2>7. MethodOf(tx'[s])
      BY <1>1, <2>5 DEF MethodOf, SameCall, Methods, Publications
    <2>8. TxInv(tx'[s])
      BY <1>2, <2>5, <2>6, <2>7 DEF TxInv
    <2> QED BY <1>1, <2>5, <2>8, Committed, StatementKeeps
  <1>4. CASE End(s)
    BY <1>1, <1>4, EndKeeps, Committed DEF vars
  <1> QED BY <1>1, <1>3, <1>4

\* The last UPDATE of a transaction, of attempts that include every one it
\* has locked and those of every row it has written.
LEMMA AttemptsKeep ==
    ASSUME PgInv, NEW s \in Sessions, tx[s].pc # "idle",
           NEW written \in Versions(Claim),
           CanUpdateAttempts(s, DOMAIN written), WriteAttempts(s, "commit", written),
           DOMAIN tx[s].attempts \subseteq DOMAIN written,
           DOMAIN tx[s].rows \subseteq DOMAIN written,
           \A j \in DOMAIN tx[s].rows :
               \/ /\ Started(job[j], tx[s].rows[j], tx[s].at)
                  /\ written[j].owner # Null /\ written[j].expiresAt \in Time
                  /\ written[j].expiresAt >= tx[s].at
               \/ Concluded(job[j], tx[s].rows[j], tx[s].at) /\ written[j] = NoClaim,
           \A j \in DOMAIN written \ DOMAIN tx[s].rows :
               /\ Processing(j) /\ written[j].owner = claim[j].owner
               /\ written[j].expiresAt \in Time /\ written[j].expiresAt >= job[j].startedAt,
           UNCHANGED <<vars, mismatch>>
    PROVE  PgInv'
  <1>1. tx \in [Sessions -> Transaction] /\ "commit" \in Opening \cup Later
    BY Committed DEF Later
  <1>2. /\ OnlyTx(s) /\ SameCall(tx[s], tx'[s]) /\ tx'[s].pc = "commit"
        /\ tx'[s].rows = tx[s].rows
        /\ DOMAIN tx'[s].attempts = DOMAIN written \cup DOMAIN tx[s].attempts
        /\ \A j \in DOMAIN written : tx'[s].attempts[j] = written[j]
    BY <1>1, WriteAttemptsEffect, Zenon
  <1>3. /\ DOMAIN tx'[s].attempts = DOMAIN written
        /\ tx'[s].at = tx[s].at /\ tx'[s].op = tx[s].op
    BY <1>2 DEF SameCall
  <1>4. \A j \in DOMAIN tx'[s].rows : RowAndAttempt(tx'[s], j)
    BY <1>2, <1>3 DEF RowAndAttempt
  <1>5. \A j \in DOMAIN written \ DOMAIN tx'[s].rows : AttemptAlone(tx'[s], j)
    BY <1>2, <1>3 DEF AttemptAlone
  <1>6. LocksInv(tx'[s])
    BY <1>2, <1>3, <1>4, <1>5 DEF LocksInv, Opening, Methods, Publications
  <1>7. MethodOf(tx'[s])
    BY <1>2 DEF MethodOf, Methods, Publications
  <1>8. ArgumentsInv(tx'[s])
    BY <1>2, Running, SameArguments
  <1>9. TxInv(tx'[s])
    BY <1>1, <1>2, <1>6, <1>7, <1>8 DEF TxInv
  <1>10. /\ DOMAIN tx'[s].rows \cap RowsLocked(s) = {}
         /\ DOMAIN tx'[s].attempts \cap AttemptsLocked(s) = {}
         /\ tx'[s].op = "create_queued" => s = "api" /\ lastId < MaxJobs
    BY <1>2, <1>3, OwnLocks, Running DEF CanUpdateAttempts
  <1> QED BY <1>2, <1>9, <1>10, Committed, StatementKeeps

\* The job is still queued, so its attempt has no owner.
LEMMA ClaimOwnKeeps ==
    ASSUME PgInv, NEW s \in Sessions, ClaimOwn(s)
    PROVE  PgInv'
  <1> DEFINE j == tx[s].j
             v == [owner |-> tx[s].w, expiresAt |-> tx[s].at + ClaimLease]
  <1>1. /\ tx[s].pc = "own" /\ UNCHANGED vars
        /\ claim[j].owner = Null =>
             /\ CanUpdateAttempts(s, {j}) /\ WriteAttempts(s, "commit", Just(j, v))
             /\ UNCHANGED mismatch
    BY DEF ClaimOwn, At
  <1>2. /\ tx[s].op = "claim_dispatch" /\ DOMAIN tx[s].rows = {j} /\ DOMAIN tx[s].attempts = {}
        /\ Started(job[j], tx[s].rows[j], tx[s].at)
        /\ tx[s].w \in Workers
    BY <1>1, Running DEF MethodOf, LocksInv, ArgumentsInv
  <1>3. j \in Jobs /\ tx[s].at \in Nat /\ ClaimLease \in Nat
    BY <1>1, <1>2, NamedJob, PolicyAssumption DEF Time
  <1>4. claim[j].owner = Null
    BY <1>2, <1>3, Committed DEF RowInv, RowOwned, Started, Processing
  <1>5. /\ v \in Claim /\ v.owner # Null /\ v.expiresAt \in Time /\ v.expiresAt >= tx[s].at
    BY <1>2, <1>3, NullAssumption DEF Claim, Time
  <1> HIDE DEF v, j
  <1>6. Just(j, v) \in Versions(Claim) /\ DOMAIN Just(j, v) = {j} /\ Just(j, v)[j] = v
    BY <1>3, <1>5, JustVersions
  <1>7. CanUpdateAttempts(s, DOMAIN Just(j, v))
    BY <1>1, <1>4, <1>6
  <1> QED BY <1>1, <1>2, <1>4, <1>5, <1>6, <1>7, AttemptsKeep

\* The owner is still the one the terminal UPDATE matched.
LEMMA PublishClearKeeps ==
    ASSUME PgInv, NEW s \in Sessions, PublishClear(s)
    PROVE  PgInv'
  <1> DEFINE j == tx[s].j
  <1>1. /\ tx[s].pc = "clear claim" /\ UNCHANGED vars
        /\ claim[j].owner = tx[s].w =>
             /\ CanUpdateAttempts(s, {j}) /\ WriteAttempts(s, "commit", Just(j, NoClaim))
             /\ UNCHANGED mismatch
    BY DEF PublishClear, At
  <1>2. /\ tx[s].op \in Publications /\ DOMAIN tx[s].rows = {j} /\ DOMAIN tx[s].attempts = {}
        /\ Concluded(job[j], tx[s].rows[j], tx[s].at)
        /\ claim[j].owner = tx[s].w
    BY <1>1, Running DEF MethodOf, LocksInv
  <1>3. j \in Jobs
    BY <1>1, <1>2, NamedJob
  <1> HIDE DEF j
  <1>4. /\ Just(j, NoClaim) \in Versions(Claim)
        /\ DOMAIN Just(j, NoClaim) = {j} /\ Just(j, NoClaim)[j] = NoClaim
    BY <1>3, FreshRowTypes, JustVersions
  <1>5. CanUpdateAttempts(s, DOMAIN Just(j, NoClaim))
    BY <1>1, <1>2, <1>4
  <1> QED BY <1>1, <1>2, <1>4, <1>5, AttemptsKeep

\* A renewal keeps the owner, and the job was started before it was asked for.
LEMMA HeartbeatKeeps ==
    ASSUME PgInv, NEW s \in Sessions, HeartbeatUpdate(s)
    PROVE  PgInv'
  <1> DEFINE live == {j \in tx[s].batch : /\ Processing(j)
                                          /\ claim[j].owner = tx[s].w
                                          /\ claim[j].expiresAt > tx[s].at}
             written == [j \in live |-> [claim[j] EXCEPT !.expiresAt = tx[s].at + ClaimLease]]
  <1>1. /\ tx[s].pc = "heartbeat_claims" /\ UNCHANGED <<vars, mismatch>>
        /\ CanUpdateAttempts(s, live) /\ WriteAttempts(s, "commit", written)
    BY DEF HeartbeatUpdate, At, Statement
  <1>2. /\ tx[s].op = "heartbeat_claims" /\ tx[s].batch \subseteq Jobs
        /\ DOMAIN tx[s].rows = {} /\ DOMAIN tx[s].attempts = {}
        /\ tx[s].at \in Nat /\ ClaimLease \in Nat
        /\ \A j \in tx[s].batch : job[j].startedAt <= tx[s].at
    BY ZenonT(60), <1>1, Running, PolicyAssumption
       DEF MethodOf, LocksInv, ArgumentsInv, Opening, Methods, Time
  <1>3. ASSUME NEW j \in live
        PROVE  /\ j \in Jobs /\ Processing(j) /\ written[j] \in Claim
               /\ written[j].owner = claim[j].owner
               /\ written[j].expiresAt \in Time /\ written[j].expiresAt >= job[j].startedAt
    <2>1. /\ j \in Jobs /\ Processing(j) /\ claim[j] \in Claim /\ job[j].startedAt \in Int
          /\ job[j].startedAt <= tx[s].at
      BY <1>2, Committed DEF JobRow, Time, NoTime
    <2>2. written[j] = [claim[j] EXCEPT !.expiresAt = tx[s].at + ClaimLease]
      OBVIOUS
    <2> HIDE DEF written
    <2> QED BY <1>2, <2>1, <2>2 DEF Claim, Time
  <1>4. written \in Versions(Claim) /\ DOMAIN written = live
    <2>1. live \in SUBSET Jobs
      BY <1>2
    <2> QED BY <1>3, <2>1, WrittenVersions
  <1> HIDE DEF written, live
  <1>5. CanUpdateAttempts(s, DOMAIN written)
    BY <1>1, <1>4
  <1> QED BY <1>1, <1>2, <1>3, <1>4, <1>5, AttemptsKeep

\* What the SELECT of recover_expired_claims finds and locks.
LEMMA ExpiredAtFound ==
    ASSUME PgInv, NEW s \in Sessions, tx[s].at \in Time, NEW j \in ExpiredAt(s)
    PROVE  /\ j \in Jobs /\ j \notin AttemptsLocked(s) /\ claim[j] \in Claim
           /\ Processing(j) /\ claim[j].expiresAt <= tx[s].at
           /\ claim[j].expiresAt \in Time /\ claim[j].expiresAt >= job[j].startedAt
  <1>1. /\ j \in Jobs /\ j \notin AttemptsLocked(s) /\ Processing(j)
        /\ claim[j].expiresAt <= tx[s].at
    BY ExpiredBatchSelected DEF ExpiredAt
  <1>2. claim[j] \in Claim /\ claim[j].expiresAt # NoTime
    BY <1>1, Committed DEF RowInv, RowOwned
  <1>3. claim[j].expiresAt >= job[j].startedAt
    BY <1>1 DEF PgInv, LeaseInv
  <1> QED BY <1>1, <1>2, <1>3 DEF Claim

LEMMA RecoverSelectKeeps ==
    ASSUME PgInv, NEW s \in Sessions, RecoverSelect(s)
    PROVE  PgInv'
  <1> DEFINE batch == ExpiredAt(s)
             flagged == {j \in batch : Cancelling(j)}
             locked == [j \in batch |-> claim[j]]
  <1>1. /\ tx[s].pc = "recover_expired_claims" /\ UNCHANGED <<vars, mismatch>>
        /\ \/ tx' = [tx EXCEPT ![s].pc = "recover", ![s].batch = batch,
                               ![s].flagged = flagged, ![s].attempts = locked]
           \/ End(s)
    BY DEF RecoverSelect, At, Statement
  <1>2. CASE tx' = [tx EXCEPT ![s].pc = "recover", ![s].batch = batch,
                              ![s].flagged = flagged, ![s].attempts = locked]
    <2>1. /\ tx[s].op = "recover_expired_claims" /\ ArgumentsInv(tx[s]) /\ tx[s].at \in Time
          /\ DOMAIN tx[s].rows = {} /\ DOMAIN tx[s].attempts = {}
      BY <1>1, Running DEF MethodOf, LocksInv, ArgumentsInv, Opening, Methods
    <2>2. \A j \in batch :
             /\ j \in Jobs /\ j \notin AttemptsLocked(s) /\ claim[j] \in Claim
             /\ Processing(j) /\ claim[j].expiresAt <= tx[s].at
             /\ claim[j].expiresAt \in Time /\ claim[j].expiresAt >= job[j].startedAt
      BY <2>1, ExpiredAtFound
    <2>3. /\ locked \in Versions(Claim) /\ DOMAIN locked = batch
          /\ \A j \in batch : locked[j] = claim[j]
      BY <2>2, WrittenVersions
    <2> DEFINE q == [tx[s] EXCEPT !.pc = "recover", !.batch = batch, !.flagged = flagged,
                                  !.attempts = locked]
    <2>4. tx' = [tx EXCEPT ![s] = q]
      BY <1>2, Committed
    <2>14. flagged \in SUBSET Jobs
      BY <2>2
    <2> HIDE DEF batch, flagged, locked
    <2>5. ASSUME NEW r \in Transaction
          PROVE  LET e == [r EXCEPT !.pc = "recover", !.batch = batch, !.flagged = flagged,
                                    !.attempts = locked]
                 IN  /\ e \in Transaction /\ e.pc = "recover" /\ e.batch = batch
                     /\ e.attempts = locked /\ e.rows = r.rows /\ e.op = r.op /\ e.at = r.at
      BY <2>2, <2>3, <2>14 DEF Transaction, Later
    <2>6. /\ q \in Transaction /\ q.pc = "recover" /\ q.batch = batch
          /\ q.attempts = locked /\ q.rows = tx[s].rows /\ q.op = tx[s].op /\ q.at = tx[s].at
      BY <2>5, Committed
    <2>7. OnlyTx(s) /\ tx'[s] = q
      BY <2>4, <2>6, Committed, ReplaceEffect
    <2> HIDE DEF q
    <2>8. MethodOf(q)
      BY <2>1, <2>6 DEF MethodOf, Methods, Publications
    <2>9. ArgumentsInv(q)
      BY <2>1, <2>6 DEF ArgumentsInv, Publications
    <2>10. \A j \in batch : AttemptAlone(q, j) /\ claim[j].expiresAt <= q.at
      BY <2>2, <2>3, <2>6 DEF AttemptAlone
    <2>11. LocksInv(q)
      BY <2>1, <2>3, <2>6, <2>10 DEF LocksInv, Opening, Methods, Publications
    <2>12. TxInv(q) /\ q.op # "create_queued"
      BY <2>1, <2>6, <2>8, <2>9, <2>11 DEF TxInv, Later
    <2>13. /\ DOMAIN q.rows \cap RowsLocked(s) = {}
           /\ DOMAIN q.attempts \cap AttemptsLocked(s) = {}
      BY <2>1, <2>2, <2>3, <2>6
    <2> QED BY <1>1, <2>7, <2>12, <2>13, Committed, StatementKeeps
  <1>3. CASE End(s)
    BY <1>1, <1>3, EndKeeps, Committed DEF vars
  <1> QED BY <1>1, <1>2, <1>3

\* Every job of the batch is still processing; if the flags are not the ones
\* selected, the transaction ends.
LEMMA RecoverFinishKeeps ==
    ASSUME PgInv, NEW s \in Sessions, RecoverFinish(s)
    PROVE  PgInv'
  <1> DEFINE batch == tx[s].batch
             written == [j \in batch |->
                           IF j \in tx[s].flagged THEN FinishAt(s, job[j], "cancelled", "none")
                           ELSE FinishAt(s, job[j], "failed", "worker_interrupted")]
             agrees == \A j \in batch : Processing(j) /\ (Cancelling(j) <=> j \in tx[s].flagged)
  <1>a. /\ tx[s].pc = "recover" /\ UNCHANGED vars
        /\ agrees => /\ CanUpdateRows(s, batch) /\ WriteRows(s, "clear claims", written)
                     /\ UNCHANGED mismatch
        /\ ~agrees => Raise(s)
    BY DEF RecoverFinish, At
  <1>b. CASE ~agrees
    <2>1. tx[s].op = "recover_expired_claims"
      BY <1>a, Running DEF MethodOf
    <2>2. mismatch' \subseteq Mismatches /\ End(s)
      BY <1>a, <1>b, <2>1, Committed DEF Raise, Mismatches
    <2> QED BY <1>a, <2>2, EndKeeps
  <1> SUFFICES ASSUME agrees PROVE PgInv'
    BY <1>b
  <1>1. /\ tx[s].pc = "recover" /\ UNCHANGED vars
        /\ CanUpdateRows(s, batch) /\ WriteRows(s, "clear claims", written)
        /\ UNCHANGED mismatch
    BY <1>a
  <1>c. \A j \in batch : j \in tx[s].flagged <=> job[j].cancellationRequested
    BY DEF Cancelling
  <1>2. /\ tx[s].op = "recover_expired_claims" /\ ArgumentsInv(tx[s]) /\ tx[s].at \in Time
        /\ DOMAIN tx[s].rows = {} /\ DOMAIN tx[s].attempts = batch /\ batch \in SUBSET Jobs
        /\ \A j \in batch : Processing(j) /\ claim[j].expiresAt <= tx[s].at
    <2>1. /\ DOMAIN tx[s].rows = {} /\ DOMAIN tx[s].attempts = batch /\ batch \in SUBSET Jobs
          /\ \A j \in batch : AttemptAlone(tx[s], j) /\ claim[j].expiresAt <= tx[s].at
      BY <1>1, Running DEF LocksInv
    <2>2. tx[s].op = "recover_expired_claims" /\ ArgumentsInv(tx[s])
      BY <1>1, Running DEF MethodOf
    <2> QED BY <2>1, <2>2 DEF ArgumentsInv, AttemptAlone
  <1>3. ASSUME NEW j \in batch
        PROVE  written[j] \in JobRow /\ Concluded(job[j], written[j], tx[s].at)
    <2>1. /\ j \in Jobs /\ job[j] \in JobRow /\ now \in Time /\ claim[j] \in Claim
          /\ claim[j].expiresAt >= job[j].startedAt
      BY <1>2, Committed DEF PgInv, LeaseInv
    <2>2. job[j].startedAt <= tx[s].at
      BY <1>2, <2>1 DEF JobRow, Claim, Time, NoTime
    <2>3. written[j] = IF job[j].cancellationRequested
                       THEN Ended(job[j], "cancelled", "none", tx[s].at)
                       ELSE Ended(job[j], "failed", "worker_interrupted", tx[s].at)
      BY <1>2, <1>c, <2>1, FinishAtIs DEF Outcome, ErrorCode
    <2> HIDE DEF written
    <2>4. Concluded(job[j], written[j], tx[s].at)
      BY <1>2, <2>2, <2>3 DEF Concluded, Processing
    <2> QED BY <1>2, <2>1, <2>4, ChangedRowType
  <1>4. written \in Versions(JobRow) /\ DOMAIN written = batch
    BY <1>2, <1>3, WrittenVersions
  <1> HIDE DEF written
  <1>5. /\ OnlyTx(s) /\ SameCall(tx[s], tx'[s]) /\ tx'[s].pc = "clear claims"
        /\ tx'[s].attempts = tx[s].attempts
        /\ DOMAIN tx'[s].rows = batch /\ \A j \in batch : tx'[s].rows[j] = written[j]
    <2>1. tx \in [Sessions -> Transaction] /\ "clear claims" \in Opening \cup Later
      BY Committed DEF Later
    <2>2. WriteRows(s, "clear claims", written)
      BY <1>1, <1>2
    <2>3. /\ OnlyTx(s) /\ SameCall(tx[s], tx'[s]) /\ tx'[s].pc = "clear claims"
          /\ tx'[s].attempts = tx[s].attempts
          /\ DOMAIN tx'[s].rows = DOMAIN written \cup DOMAIN tx[s].rows
          /\ \A j \in DOMAIN written : tx'[s].rows[j] = written[j]
      BY <1>4, <2>1, <2>2, WriteRowsEffect, Zenon
    <2> QED BY <1>2, <1>4, <2>3
  <1>6. LocksInv(tx'[s])
    BY <1>2, <1>3, <1>5 DEF LocksInv, SameCall, Opening, Methods, Publications
  <1>7. TxInv(tx'[s]) /\ tx'[s].op # "create_queued"
    <2>1. MethodOf(tx'[s])
      BY <1>2, <1>5 DEF MethodOf, SameCall, Methods, Publications
    <2>2. ArgumentsInv(tx'[s])
      BY <1>2, <1>5, SameArguments
    <2> QED BY <1>2, <1>5, <1>6, <2>1, <2>2 DEF TxInv, Later, SameCall
  <1>8. /\ DOMAIN tx'[s].rows \cap RowsLocked(s) = {}
        /\ DOMAIN tx'[s].attempts \cap AttemptsLocked(s) = {}
    BY <1>1, <1>2, <1>5, OwnLocks DEF CanUpdateRows
  <1> QED BY <1>1, <1>2, <1>5, <1>7, <1>8, Committed, StatementKeeps

\* The locked claims are as expired as they were.
LEMMA RecoverClearKeeps ==
    ASSUME PgInv, NEW s \in Sessions, RecoverClear(s)
    PROVE  PgInv'
  <1> DEFINE batch == tx[s].batch
             expired == {j \in batch : claim[j].expiresAt <= tx[s].at}
             written == [j \in batch |-> NoClaim]
  <1>1. /\ tx[s].pc = "clear claims" /\ UNCHANGED vars /\ CanUpdateAttempts(s, expired)
        /\ expired = batch => WriteAttempts(s, "commit", written) /\ UNCHANGED mismatch
    BY DEF RecoverClear, At
  <1>2. /\ DOMAIN tx[s].rows = batch /\ DOMAIN tx[s].attempts = batch /\ batch \in SUBSET Jobs
        /\ \A j \in batch : /\ Concluded(job[j], tx[s].rows[j], tx[s].at)
                            /\ claim[j].expiresAt <= tx[s].at
    BY <1>1, Running DEF LocksInv
  <1>3. expired = batch
    BY <1>2
  <1>4. /\ written \in Versions(Claim) /\ DOMAIN written = batch
        /\ \A j \in batch : written[j] = NoClaim
    <2>1. \A j \in batch : written[j] \in Claim
      BY FreshRowTypes
    <2> QED BY <1>2, <2>1, WrittenVersions
  <1> HIDE DEF written, batch, expired
  <1>5. CanUpdateAttempts(s, DOMAIN written)
    BY <1>1, <1>3, <1>4
  <1> QED BY <1>1, <1>2, <1>3, <1>4, <1>5, AttemptsKeep

LEMMA DeleteKeeps ==
    ASSUME PgInv, NEW s \in Sessions, Delete(s)
    PROVE  PgInv'
  <1> DEFINE old == {j \in Jobs : Finished(j) /\ job[j].finishedAt <= tx[s].at - Retention}
             rows == [j \in old |-> AbsentRow]
             attempts == [j \in old |-> NoClaim]
  <1>1. /\ tx[s].pc = "delete_expired_terminal_jobs" /\ UNCHANGED <<vars, mismatch>>
        /\ CanUpdateRows(s, old) /\ CanUpdateAttempts(s, old)
        /\ tx' = [tx EXCEPT ![s].pc = "commit", ![s].rows = rows, ![s].attempts = attempts]
    BY DEF Delete, At, Statement
  <1>2. tx[s].op = "delete_expired_terminal_jobs" /\ ArgumentsInv(tx[s])
    BY <1>1, Running DEF MethodOf, Methods
  <1>3. /\ rows \in Versions(JobRow) /\ DOMAIN rows = old /\ \A j \in old : rows[j] = AbsentRow
        /\ attempts \in Versions(Claim) /\ DOMAIN attempts = old
        /\ \A j \in old : attempts[j] = NoClaim
    <2>1. AbsentRow \in JobRow /\ NoClaim \in Claim /\ old \in SUBSET Jobs
      BY FreshRowTypes
    <2> HIDE DEF old
    <2>2. \A j \in old : rows[j] \in JobRow /\ attempts[j] \in Claim
      BY <2>1
    <2>3. rows \in Versions(JobRow)
      BY <2>1, <2>2, WrittenVersions
    <2>4. attempts \in Versions(Claim)
      BY <2>1, <2>2, WrittenVersions
    <2> QED BY <2>3, <2>4
  <1> DEFINE q == [tx[s] EXCEPT !.pc = "commit", !.rows = rows, !.attempts = attempts]
  <1>4. tx' = [tx EXCEPT ![s] = q]
    BY <1>1, Committed
  <1>5. \A j \in old : Finished(j) /\ job[j].finishedAt <= tx[s].at - Retention
    OBVIOUS
  <1> HIDE DEF old, rows, attempts
  <1>6. ASSUME NEW r \in Transaction
        PROVE  LET e == [r EXCEPT !.pc = "commit", !.rows = rows, !.attempts = attempts]
               IN  /\ e \in Transaction /\ e.pc = "commit" /\ e.rows = rows
                   /\ e.attempts = attempts /\ e.op = r.op /\ e.at = r.at
    BY <1>3 DEF Transaction, Later
  <1>7. /\ q \in Transaction /\ q.pc = "commit" /\ q.rows = rows
        /\ q.attempts = attempts /\ q.op = tx[s].op /\ q.at = tx[s].at
    BY <1>6, Committed
  <1>8. OnlyTx(s) /\ tx'[s] = q
    BY <1>4, <1>7, Committed, ReplaceEffect
  <1> HIDE DEF q
  <1>9. \A j \in old : RowAndAttempt(q, j)
    BY <1>3, <1>5, <1>7 DEF RowAndAttempt, Removed, Finished
  <1>10. LocksInv(q)
    BY <1>3, <1>7, <1>9 DEF LocksInv, Opening, Methods, Publications
  <1>11. TxInv(q) /\ q.op # "create_queued"
    <2>1. MethodOf(q)
      BY <1>7 DEF MethodOf, Methods, Publications
    <2>2. ArgumentsInv(q)
      BY <1>2, <1>7 DEF ArgumentsInv, Publications
    <2> QED BY <1>2, <1>7, <1>10, <2>1, <2>2 DEF TxInv, Later
  <1>12. DOMAIN q.rows \cap RowsLocked(s) = {} /\ DOMAIN q.attempts \cap AttemptsLocked(s) = {}
    BY <1>1, <1>3, <1>7 DEF CanUpdateRows, CanUpdateAttempts
  <1> QED BY <1>1, <1>8, <1>11, <1>12, Committed, StatementKeeps

-----------------------------------------------------------------------------
(* Calls and rollbacks. *)

LEMMA RollbackKeeps ==
    ASSUME PgInv, NEW s \in Sessions, Rollback(s)
    PROVE  PgInv'
  BY EndKeeps, Committed DEF Rollback, Statement, vars

\* A call names what is committed now.
LEMMA BeginKeeps ==
    ASSUME PgInv, NEW s \in Sessions, NEW op \in Methods, NEW j \in Nat,
           NEW w \in Workers \cup {Null}, NEW key \in Keys \cup {Null}, NEW batch \in SUBSET Jobs,
           Begin(s, op, j, w, key, batch),
           op = "create_queued" => s = "api" /\ lastId < MaxJobs /\ key \in Keys,
           op \in {"claim_dispatch", "request_cancellation"} \cup Publications => j \in 1 .. lastId,
           op \in {"claim_dispatch"} \cup Publications => w \in Workers,
           op \in Publications => starts[j] > 0,
           op = "heartbeat_claims" => \A i \in batch : Processing(i)
    PROVE  PgInv'
  <1> DEFINE q == [Idle EXCEPT !.op = op, !.pc = op, !.at = now, !.j = j,
                               !.w = w, !.key = key, !.batch = batch]
  <1>1. tx' = [tx EXCEPT ![s] = q] /\ UNCHANGED <<vars, mismatch>>
    BY DEF Begin, Statement
  <1>2. now \in Time
    BY Committed
  <1>3. /\ q \in Transaction /\ q.op = op /\ q.pc = op /\ q.at = now /\ q.j = j /\ q.w = w
        /\ q.key = key /\ q.batch = batch /\ DOMAIN q.rows = {} /\ DOMAIN q.attempts = {}
    <2>1. op \in Opening
      BY DEF Opening
    <2>2. ASSUME NEW r \in Transaction
          PROVE  LET e == [r EXCEPT !.op = op, !.pc = op, !.at = now, !.j = j,
                                    !.w = w, !.key = key, !.batch = batch]
                 IN  /\ e \in Transaction /\ e.op = op /\ e.pc = op /\ e.at = now
                     /\ e.j = j /\ e.w = w /\ e.key = key /\ e.batch = batch
                     /\ e.rows = r.rows /\ e.attempts = r.attempts
      BY <1>2, <2>1 DEF Transaction
    <2> QED BY <2>2, IdleTransaction
  <1>4. OnlyTx(s) /\ tx'[s] = q
    BY <1>1, <1>3, Committed, ReplaceEffect
  <1> HIDE DEF q
  <1>5. ASSUME NEW i \in Jobs
        PROVE  /\ job[i].submittedAt <= now /\ job[i].startedAt <= now
               /\ starts[i] > 0 => ~Queued(i)
               /\ Processing(i) => i <= lastId /\ ~Queued(i)
    BY Committed DEF RowInv, RowHistory, RowStarts, Exists, Processing, Queued
  <1>6. op \in {"claim_dispatch", "request_cancellation"} \cup Publications => j \in Jobs
    BY Committed, BoundsAssumption DEF Jobs
  <1>7. MethodOf(q)
    BY <1>3 DEF MethodOf, Methods, Publications
  <1>8. ArgumentsInv(q)
    <2>1. q.at \in Time /\ q.at <= now
      BY <1>2, <1>3 DEF Time
    <2>2. /\ q.op \in {"claim_dispatch", "request_cancellation"} \cup Publications =>
               q.j \in 1 .. lastId /\ job[q.j].submittedAt <= q.at
          /\ q.op \in Publications => ~Queued(q.j) /\ job[q.j].startedAt <= q.at
      BY <1>3, <1>5, <1>6
    <2>3. q.op = "heartbeat_claims" =>
             \A i \in q.batch : i <= lastId /\ ~Queued(i) /\ job[i].startedAt <= q.at
      BY <1>3, <1>5
    <2> QED BY <1>3, <2>1, <2>2, <2>3 DEF ArgumentsInv
  <1>9. LocksInv(q)
    BY <1>3 DEF LocksInv, Methods, Publications
  <1>10. TxInv(q)
    BY <1>3, <1>7, <1>8, <1>9 DEF TxInv, Opening
  <1> QED BY <1>1, <1>3, <1>4, <1>10, Committed, StatementKeeps

LEMMA CallKeeps ==
    ASSUME PgInv, Call
    PROVE  PgInv'
  <1>1. \A j \in 1 .. lastId : j \in Nat
    OBVIOUS
  <1>2. {} \in SUBSET Jobs /\ 0 \in Nat
    OBVIOUS
  <1>3. ASSUME NEW key \in Keys, lastId < MaxJobs, Begin("api", "create_queued", 0, Null, key, {})
        PROVE  PgInv'
    <2>1. "create_queued" \in Methods
           /\ "create_queued" \notin {"claim_dispatch", "request_cancellation"} \cup Publications
      BY DEF Methods, Publications
    <2> QED BY <1>2, <1>3, <2>1, BeginKeeps DEF Sessions
  <1>4. ASSUME NEW j \in 1 .. lastId, Begin("api", "request_cancellation", j, Null, Null, {})
        PROVE  PgInv'
    <2>1. "request_cancellation" \in Methods
           /\ "request_cancellation" \notin {"claim_dispatch"} \cup Publications
      BY DEF Methods, Publications
    <2> QED BY <1>1, <1>2, <1>4, <2>1, BeginKeeps DEF Sessions
  <1>5. ASSUME NEW j \in 1 .. lastId, NEW w \in Workers,
               Begin("worker", "claim_dispatch", j, w, Null, {})
        PROVE  PgInv'
    <2>1. "claim_dispatch" \in Methods /\ "claim_dispatch" \notin Publications
      BY DEF Methods, Publications
    <2> QED BY <1>1, <1>2, <1>5, <2>1, BeginKeeps DEF Sessions
  <1>6. ASSUME NEW j \in 1 .. lastId, NEW w \in Workers, NEW op \in Publications,
               starts[j] > 0, Begin("worker", op, j, w, Null, {})
        PROVE  PgInv'
    <2>1. op \in Methods /\ op # "create_queued" /\ op # "heartbeat_claims"
      BY <1>6 DEF Methods, Publications
    <2> QED BY <1>1, <1>2, <1>6, <2>1, BeginKeeps DEF Sessions
  <1>7. ASSUME NEW w \in Workers, NEW batch \in SUBSET {j \in Jobs : Processing(j)},
               Begin("monitor", "heartbeat_claims", 0, w, Null, batch)
        PROVE  PgInv'
    <2>1. /\ "heartbeat_claims" \in Methods
          /\ "heartbeat_claims" \notin {"claim_dispatch", "request_cancellation"} \cup Publications
      BY DEF Methods, Publications
    <2>2. batch \in SUBSET Jobs /\ \A i \in batch : Processing(i)
      OBVIOUS
    <2> QED BY <1>2, <1>7, <2>1, <2>2, BeginKeeps DEF Sessions
  <1>8. ASSUME NEW op \in {"expire_queued_jobs", "recover_expired_claims",
                            "delete_expired_terminal_jobs"},
               Begin("reconciler", op, 0, Null, Null, {})
        PROVE  PgInv'
    <2>1. /\ op \in Methods /\ op # "create_queued" /\ op # "heartbeat_claims"
          /\ op \notin {"claim_dispatch", "request_cancellation"} \cup Publications
      BY <1>8 DEF Methods, Publications
    <2> QED BY <1>2, <1>8, <2>1, BeginKeeps DEF Sessions
  <1> QED BY <1>3, <1>4, <1>5, <1>6, <1>7, <1>8 DEF Call, Publications

-----------------------------------------------------------------------------
(* What a commit does to a row. *)

Lease(j) == Processing(j) => claim[j].expiresAt >= job[j].startedAt

\* The owner is kept and the lease still outlasts the start.
Renewed(j) ==
    \/ claim'[j] = claim[j]
    \/ /\ Processing(j) /\ claim'[j].owner = claim[j].owner
       /\ claim'[j].expiresAt \in Time /\ claim'[j].expiresAt >= job[j].startedAt

\* The five changes, and none; t is the clock the transaction has read.
Change(j, t) ==
    \/ job'[j] = job[j] /\ Renewed(j)
    \/ LeftQueue(job[j], job'[j], t) /\ claim'[j] = claim[j]
    \/ FlagRaised(job[j], job'[j]) /\ claim'[j] = claim[j]
    \/ /\ Started(job[j], job'[j], t) /\ claim'[j].owner # Null
       /\ claim'[j].expiresAt \in Time /\ claim'[j].expiresAt >= t
    \/ Concluded(job[j], job'[j], t) /\ claim'[j] = NoClaim
    \/ Removed(job[j], job'[j], t) /\ claim'[j] = NoClaim

LEMMA CommitEffect ==
    ASSUME PgInv, NEW s \in Sessions, Commit(s)
    PROVE  /\ OnlyTx(s) /\ tx'[s] = Idle /\ tx[s].pc = "commit"
           /\ UNCHANGED <<now, lastId, mismatch>>
           /\ job' \in [Jobs -> JobRow] /\ claim' \in [Jobs -> Claim]
           /\ starts' \in [Jobs -> Nat]
           /\ \A j \in Jobs :
                /\ job'[j] = IF j \in DOMAIN tx[s].rows THEN tx[s].rows[j] ELSE job[j]
                /\ claim'[j] = IF j \in DOMAIN tx[s].attempts THEN tx[s].attempts[j] ELSE claim[j]
                /\ starts'[j] = starts[j] + IF Processing(j)' /\ ~Processing(j) THEN 1 ELSE 0
  <1>1. /\ tx[s].pc = "commit" /\ End(s) /\ UNCHANGED <<now, lastId, mismatch>>
        /\ job' = Over(tx[s].rows, job) /\ claim' = Over(tx[s].attempts, claim)
        /\ starts' = [j \in Jobs |->
                        starts[j] + IF job'[j].status = "processing" /\ ~Processing(j)
                                    THEN 1 ELSE 0]
    BY DEF Commit, At
  <1>2. OnlyTx(s) /\ tx'[s] = Idle
    BY <1>1, EndEffect, Committed
  <1>3. /\ job \in [Jobs -> JobRow] /\ claim \in [Jobs -> Claim] /\ starts \in [Jobs -> Nat]
        /\ DOMAIN tx[s].rows \subseteq Jobs /\ DOMAIN tx[s].attempts \subseteq Jobs
        /\ \A j \in DOMAIN tx[s].rows : tx[s].rows[j] \in JobRow
        /\ \A j \in DOMAIN tx[s].attempts : tx[s].attempts[j] \in Claim
    BY Committed, OwnLocks
  <1>4. job' = [j \in Jobs |-> IF j \in DOMAIN tx[s].rows THEN tx[s].rows[j] ELSE job[j]]
    BY <1>1, <1>3 DEF Over
  <1>5. claim' = [j \in Jobs |->
                   IF j \in DOMAIN tx[s].attempts THEN tx[s].attempts[j] ELSE claim[j]]
    BY <1>1, <1>3 DEF Over
  <1>6. job' \in [Jobs -> JobRow] /\ claim' \in [Jobs -> Claim]
    BY <1>3, <1>4, <1>5
  <1>7. /\ starts' \in [Jobs -> Nat]
        /\ \A j \in Jobs :
             starts'[j] = starts[j] + IF Processing(j)' /\ ~Processing(j) THEN 1 ELSE 0
    BY <1>1, <1>3 DEF Processing
  <1> QED BY <1>1, <1>2, <1>4, <1>5, <1>6, <1>7

LEMMA CommitChanges ==
    ASSUME PgInv, NEW s \in Sessions, Commit(s), NEW j \in Jobs
    PROVE  /\ Change(j, tx[s].at)
           /\ j \in DOMAIN tx[s].rows /\ j \notin DOMAIN tx[s].attempts => RowAlone(tx[s], j)
           /\ j \notin DOMAIN tx[s].rows /\ j \in DOMAIN tx[s].attempts => AttemptAlone(tx[s], j)
  <1> DEFINE R == DOMAIN tx[s].rows
             A == DOMAIN tx[s].attempts
  <1>1. /\ job'[j] = IF j \in R THEN tx[s].rows[j] ELSE job[j]
        /\ claim'[j] = IF j \in A THEN tx[s].attempts[j] ELSE claim[j]
        /\ tx[s].pc = "commit"
    BY CommitEffect
  <1>2. /\ j \in R \ A => RowAlone(tx[s], j)
        /\ j \in R \cap A => RowAndAttempt(tx[s], j)
        /\ j \in A \ R => AttemptAlone(tx[s], j)
    BY <1>1, Running DEF LocksInv
  <1> HIDE DEF R, A
  <1>3. Change(j, tx[s].at)
    <2>1. CASE j \in R \ A
      <3>1. job'[j] = tx[s].rows[j] /\ claim'[j] = claim[j] /\ RowAlone(tx[s], j)
        BY <1>1, <1>2, <2>1
      <3>2. LeftQueue(job[j], job'[j], tx[s].at) \/ FlagRaised(job[j], job'[j])
        BY <3>1 DEF RowAlone
      <3> QED BY <3>1, <3>2 DEF Change
    <2>2. CASE j \in R \cap A
      <3>1. job'[j] = tx[s].rows[j] /\ claim'[j] = tx[s].attempts[j] /\ RowAndAttempt(tx[s], j)
        BY <1>1, <1>2, <2>2
      <3> QED BY <3>1 DEF RowAndAttempt, Change
    <2>3. CASE j \in A \ R
      <3>1. job'[j] = job[j] /\ claim'[j] = tx[s].attempts[j] /\ AttemptAlone(tx[s], j)
        BY <1>1, <1>2, <2>3
      <3> QED BY <3>1 DEF AttemptAlone, Change, Renewed
    <2>4. CASE j \notin A \cup R
      <3>1. job'[j] = job[j] /\ claim'[j] = claim[j]
        BY <1>1, <2>4
      <3> QED BY <3>1 DEF Change, Renewed
    <2> QED BY <2>1, <2>2, <2>3, <2>4
  <1> QED BY <1>2, <1>3 DEF R, A

LEMMA EndedFields ==
    ASSUME NEW r \in JobRow, NEW outcome, NEW error, NEW t
    PROVE  LET q == Ended(r, outcome, error, t)
           IN  /\ q.status = "finished" /\ q.outcome = outcome /\ q.error = error
               /\ q.cancellationRequested = r.cancellationRequested
               /\ q.submittedAt = r.submittedAt /\ q.startedAt = r.startedAt
               /\ q.finishedAt = t /\ q.hasResult = r.hasResult
               /\ q.key = r.key
  BY DEF Ended, JobRow

\* The fields after each change.
LEMMA LeftQueueFields ==
    ASSUME NEW r \in JobRow, NEW q, NEW t, LeftQueue(r, q, t)
    PROVE  /\ r.status = "queued" /\ r.submittedAt <= t
           /\ q.status = "finished" /\ q.finishedAt = t /\ q.startedAt = r.startedAt
           /\ \/ q.outcome = "failed" /\ q.error = "queue_timeout"
              \/ q.outcome = "cancelled" /\ q.error = "none"
           /\ q.hasResult = r.hasResult
           /\ q.cancellationRequested = r.cancellationRequested
           /\ q.submittedAt = r.submittedAt /\ q.key = r.key
  BY EndedFields DEF LeftQueue

LEMMA StartedFields ==
    ASSUME NEW r \in JobRow, NEW q, NEW t, Started(r, q, t)
    PROVE  /\ r.status = "queued" /\ r.submittedAt <= t
           /\ q.status = "processing" /\ q.startedAt = t /\ q.finishedAt = r.finishedAt
           /\ q.outcome = r.outcome /\ q.error = r.error /\ q.hasResult = r.hasResult
           /\ q.cancellationRequested = r.cancellationRequested
           /\ q.submittedAt = r.submittedAt /\ q.key = r.key
  BY DEF Started, JobRow

LEMMA FlagRaisedFields ==
    ASSUME NEW r \in JobRow, NEW q, FlagRaised(r, q)
    PROVE  /\ r.status = "processing" /\ ~r.cancellationRequested
           /\ q.status = "processing" /\ q.startedAt = r.startedAt
           /\ q.finishedAt = r.finishedAt /\ q.outcome = r.outcome /\ q.error = r.error
           /\ q.hasResult = r.hasResult /\ q.cancellationRequested = TRUE
           /\ q.submittedAt = r.submittedAt /\ q.key = r.key
  BY DEF FlagRaised, JobRow

LEMMA ConcludedFields ==
    ASSUME NEW r \in JobRow, NEW q, NEW t \in Time, Concluded(r, q, t)
    PROVE  /\ r.status = "processing" /\ r.startedAt <= t
           /\ q.status = "finished" /\ q.finishedAt = t /\ q.startedAt = r.startedAt
           /\ r.cancellationRequested =>
                q.outcome = "cancelled" /\ q.error = "none" /\ q.hasResult = r.hasResult
           /\ ~r.cancellationRequested =>
                \/ q.outcome = "succeeded" /\ q.error = "none" /\ q.hasResult = TRUE
                \/ q.outcome = "failed" /\ q.error # "none" /\ q.hasResult = r.hasResult
           /\ q.cancellationRequested = r.cancellationRequested
           /\ q.submittedAt = r.submittedAt /\ q.key = r.key
  <1>1. r.status = "processing" /\ r.startedAt <= t
    BY DEF Concluded
  <1>2. CASE /\ q = [Ended(r, "succeeded", "none", t) EXCEPT !.hasResult = TRUE]
             /\ ~r.cancellationRequested
    <2> DEFINE e == Ended(r, "succeeded", "none", t)
    <2>1. e \in JobRow
      BY DEF Ended, JobRow, Outcome, ErrorCode
    <2>2. /\ e.status = "finished" /\ e.outcome = "succeeded" /\ e.error = "none"
          /\ e.cancellationRequested = r.cancellationRequested
          /\ e.submittedAt = r.submittedAt /\ e.startedAt = r.startedAt /\ e.finishedAt = t
          /\ e.key = r.key
      BY EndedFields
    <2>3. q = [e EXCEPT !.hasResult = TRUE]
      BY <1>2
    <2> HIDE DEF e
    <2>4. /\ q.status = e.status /\ q.outcome = e.outcome /\ q.error = e.error
          /\ q.cancellationRequested = e.cancellationRequested
          /\ q.submittedAt = e.submittedAt /\ q.startedAt = e.startedAt
          /\ q.finishedAt = e.finishedAt /\ q.hasResult = TRUE /\ q.key = e.key
      BY <2>1, <2>3 DEF JobRow
    <2> QED BY <1>1, <1>2, <2>2, <2>4
  <1>3. CASE /\ ~r.cancellationRequested
             /\ \/ q = Ended(r, "failed", "execution_error", t)
                \/ q = Ended(r, "failed", "worker_interrupted", t)
    <2>1. /\ q.status = "finished" /\ q.outcome = "failed" /\ q.error # "none"
          /\ q.cancellationRequested = r.cancellationRequested
          /\ q.submittedAt = r.submittedAt /\ q.startedAt = r.startedAt
          /\ q.finishedAt = t /\ q.hasResult = r.hasResult /\ q.key = r.key
      BY <1>3, EndedFields
    <2> QED BY <1>1, <1>3, <2>1, Zenon
  <1>4. CASE r.cancellationRequested /\ q = Ended(r, "cancelled", "none", t)
    <2>1. q = Ended(r, "cancelled", "none", t)
      BY <1>4
    <2>2. /\ q.status = "finished" /\ q.outcome = "cancelled" /\ q.error = "none"
          /\ q.cancellationRequested = r.cancellationRequested
          /\ q.submittedAt = r.submittedAt /\ q.startedAt = r.startedAt
          /\ q.finishedAt = t /\ q.hasResult = r.hasResult /\ q.key = r.key
      BY <2>1, EndedFields
    <2> QED BY <1>1, <1>4, <2>2, Zenon
  <1> QED BY <1>2, <1>3, <1>4 DEF Concluded

\* Every change of a row keeps what the invariant says of it.
LEMMA ChangeKeepsRow ==
    ASSUME NEW j \in Jobs, NEW t \in Time, t <= now, now \in Time,
           UNCHANGED <<now, lastId>>, lastId \in Nat,
           job[j] \in JobRow, job'[j] \in JobRow, claim[j] \in Claim, claim'[j] \in Claim,
           starts[j] \in Nat,
           starts'[j] = starts[j] + IF Processing(j)' /\ ~Processing(j) THEN 1 ELSE 0,
           Change(j, t), RowInv(j), Lease(j)
    PROVE  RowInv(j)' /\ Lease(j)'
  <1> DEFINE r == job[j]
             q == job'[j]
  <1>r. /\ r \in JobRow /\ q \in JobRow
        /\ r.submittedAt \in Int /\ r.startedAt \in Int /\ r.finishedAt \in Int
        /\ t \in Nat /\ now \in Nat /\ j \in Int
        /\ claim[j].expiresAt \in Int /\ claim'[j].expiresAt \in Int
        /\ NoTime = -1 /\ NoTime \notin Time
    BY DEF JobRow, Claim, Time, NoTime, Jobs
  <1>1. /\ r.status # "absent" => j <= lastId /\ r.submittedAt # NoTime
        /\ r.status = "absent" => r = AbsentRow
        /\ r.submittedAt <= now /\ r.startedAt <= now /\ r.finishedAt <= now
    BY DEF RowInv, RowHistory, Exists
  <1>2. /\ r.status = "queued" => QueuedRowOK(r)
        /\ r.status = "processing" => ProcessingRowOK(r)
        /\ r.status = "finished" => FinishedRowOK(r)
        /\ r.status # "absent" => TimestampsOrdered(r)
        /\ r.hasResult <=> r.outcome = "succeeded"
    BY DEF RowInv, RowLifecycle, Queued, Processing, Finished, Exists
  <1>3. /\ claim[j].owner # Null <=> r.status = "processing"
        /\ claim[j].expiresAt # NoTime <=> r.status = "processing"
        /\ starts[j] <= 1
        /\ r.status = "queued" \/ j > lastId => starts[j] = 0
        /\ r.status = "processing" => claim[j].expiresAt >= r.startedAt
    BY DEF RowInv, RowOwned, RowStarts, Queued, Processing, Lease
  <1>s. starts'[j] = starts[j]
                       + IF q.status = "processing" /\ r.status # "processing" THEN 1 ELSE 0
    BY DEF Processing
  \* The goal, field by field.
  <1> DEFINE History == /\ q.status = "absent" => q = AbsentRow
                        /\ q.status # "absent" => j <= lastId /\ q.submittedAt # NoTime
                        /\ q.submittedAt <= now /\ q.startedAt <= now /\ q.finishedAt <= now
             Shape == /\ q.status = "queued" => QueuedRowOK(q)
                      /\ q.status = "processing" => ProcessingRowOK(q)
                      /\ q.status = "finished" => FinishedRowOK(q)
                      /\ q.status # "absent" => TimestampsOrdered(q)
                      /\ q.hasResult <=> q.outcome = "succeeded"
             Owned == /\ claim'[j].owner # Null <=> q.status = "processing"
                      /\ claim'[j].expiresAt # NoTime <=> q.status = "processing"
                      /\ q.status = "processing" => claim'[j].expiresAt >= q.startedAt
             Starts == /\ starts'[j] <= 1
                       /\ q.status = "queued" \/ j > lastId => starts'[j] = 0
  <1>g. SUFFICES History /\ Shape /\ Owned /\ Starts
    <2>1. History => RowHistory(j)'
      BY DEF RowHistory, Exists
    <2>2. Shape => RowLifecycle(j)'
      BY DEF RowLifecycle, Queued, Processing, Finished, Exists
    <2>3. Owned => RowOwned(j)' /\ Lease(j)'
      BY DEF RowOwned, Processing, Lease
    <2>4. Starts => RowStarts(j)'
      BY DEF RowStarts, Queued
    <2> QED BY <2>1, <2>2, <2>3, <2>4 DEF RowInv
  <1>4. CASE q = r /\ Renewed(j)
    <2>1. History /\ Shape
      BY <1>1, <1>2, <1>4
    <2>2. Owned
      BY <1>r, <1>3, <1>4 DEF Renewed, Processing
    <2>3. Starts
      BY <1>3, <1>4, <1>s
    <2> QED BY <2>1, <2>2, <2>3
  <1>5. CASE LeftQueue(r, q, t) /\ claim'[j] = claim[j]
    <2>1. /\ r.status = "queued" /\ r.submittedAt <= t /\ QueuedRowOK(r)
          /\ q.status = "finished" /\ q.finishedAt = t /\ q.startedAt = r.startedAt
          /\ \/ q.outcome = "failed" /\ q.error = "queue_timeout"
             \/ q.outcome = "cancelled" /\ q.error = "none"
          /\ q.hasResult = r.hasResult
          /\ q.cancellationRequested = r.cancellationRequested
          /\ q.submittedAt = r.submittedAt
      BY <1>r, <1>2, <1>5, LeftQueueFields
    <2> HIDE DEF r, q
    <2>2. History
      BY <1>r, <1>1, <2>1
    <2>3. Shape
      BY <1>r, <1>1, <1>2, <2>1
         DEF QueuedRowOK, FinishedRowOK, NoError, TimestampsOrdered
    <2>4. Owned /\ Starts
      BY <1>r, <1>3, <1>5, <2>1, <1>s
    <2> QED BY <2>2, <2>3, <2>4
  <1>6. CASE FlagRaised(r, q) /\ claim'[j] = claim[j]
    <2>1. /\ r.status = "processing" /\ ProcessingRowOK(r)
          /\ q.status = "processing" /\ q.startedAt = r.startedAt
          /\ q.finishedAt = r.finishedAt /\ q.outcome = r.outcome /\ q.error = r.error
          /\ q.hasResult = r.hasResult /\ q.submittedAt = r.submittedAt
      <3> HIDE DEF r, q
      <3>1. FlagRaised(r, q) /\ r.status = "processing"
        BY <1>6 DEF FlagRaised
      <3>2. ProcessingRowOK(r)
        BY <1>2, <3>1
      <3> QED BY <1>r, <3>1, <3>2, FlagRaisedFields, Zenon
    <2> HIDE DEF r, q
    <2>2. History
      BY <1>r, <1>1, <2>1
    <2>3. Shape
      BY <1>r, <1>1, <1>2, <2>1 DEF ProcessingRowOK, NoError, TimestampsOrdered
    <2>4. Owned /\ Starts
      BY <1>r, <1>3, <1>6, <2>1, <1>s
    <2> QED BY <2>2, <2>3, <2>4
  <1>7. CASE /\ Started(r, q, t) /\ claim'[j].owner # Null
             /\ claim'[j].expiresAt \in Time /\ claim'[j].expiresAt >= t
    <2>1. /\ r.status = "queued" /\ r.submittedAt <= t /\ QueuedRowOK(r)
          /\ q.status = "processing" /\ q.startedAt = t /\ q.finishedAt = r.finishedAt
          /\ q.outcome = r.outcome /\ q.error = r.error /\ q.hasResult = r.hasResult
          /\ q.submittedAt = r.submittedAt
      BY <1>r, <1>2, <1>7, StartedFields
    <2> HIDE DEF r, q
    <2>2. History
      BY <1>r, <1>1, <2>1
    <2>3. Shape
      BY <1>r, <1>1, <1>2, <2>1
         DEF QueuedRowOK, ProcessingRowOK, NoError, TimestampsOrdered
    <2>4. Owned /\ Starts
      BY <1>r, <1>1, <1>3, <1>7, <2>1, <1>s
    <2> QED BY <2>2, <2>3, <2>4
  <1>8. CASE Concluded(r, q, t) /\ claim'[j] = NoClaim
    <2>1. /\ r.status = "processing" /\ r.startedAt <= t /\ ProcessingRowOK(r)
          /\ q.status = "finished" /\ q.finishedAt = t /\ q.startedAt = r.startedAt
          /\ r.cancellationRequested =>
               q.outcome = "cancelled" /\ q.error = "none" /\ q.hasResult = r.hasResult
          /\ ~r.cancellationRequested =>
               \/ q.outcome = "succeeded" /\ q.error = "none" /\ q.hasResult = TRUE
               \/ q.outcome = "failed" /\ q.error # "none" /\ q.hasResult = r.hasResult
          /\ q.cancellationRequested = r.cancellationRequested
          /\ q.submittedAt = r.submittedAt
      <3> HIDE DEF r, q
      <3>1. r \in JobRow /\ t \in Time /\ Concluded(r, q, t)
        BY <1>r, <1>8
      <3>2. r.status = "processing"
        BY <3>1 DEF Concluded
      <3>3. ProcessingRowOK(r)
        BY <1>2, <3>2
      <3> QED BY ZenonT(60), <3>1, <3>3, ConcludedFields
    <2> HIDE DEF r, q
    <2>2. History
      BY <1>r, <1>1, <2>1
    <2>3. Shape
      BY <1>r, <1>1, <1>2, <2>1
         DEF ProcessingRowOK, FinishedRowOK, NoError, TimestampsOrdered
    <2>4. Owned /\ Starts
      BY <1>r, <1>3, <1>8, <2>1, <1>s DEF NoClaim
    <2> QED BY <2>2, <2>3, <2>4
  <1>9. CASE Removed(r, q, t) /\ claim'[j] = NoClaim
    <2>1. r.status = "finished" /\ q = AbsentRow
      BY <1>9 DEF Removed
    <2> HIDE DEF r, q
    <2>2. History
      BY <1>r, <2>1 DEF AbsentRow
    <2>3. Shape
      BY <2>1 DEF AbsentRow
    <2>4. Owned /\ Starts
      BY <1>r, <1>3, <1>9, <2>1, <1>s DEF NoClaim, AbsentRow
    <2> QED BY <2>2, <2>3, <2>4
  <1> QED BY <1>4, <1>5, <1>6, <1>7, <1>8, <1>9 DEF Change

-----------------------------------------------------------------------------
(* What others commit does not disturb a transaction. *)

\* What a transaction may see change between two of its statements: neither
\* its rows nor its attempts, not the owner of a job whose row it has locked
\* and not the start of a job whose attempt it has locked; and no job it was
\* called for is queued or started again.
Undisturbed(p) ==
    /\ now' >= now /\ lastId' >= lastId
    /\ \A j \in DOMAIN p.rows : job'[j] = job[j] /\ claim'[j].owner = claim[j].owner
    /\ \A j \in DOMAIN p.attempts :
         /\ claim'[j] = claim[j]
         /\ Processing(j) => Processing(j)' /\ job'[j].startedAt = job[j].startedAt
    /\ \A j \in 1 .. lastId :
         /\ job'[j].submittedAt = job[j].submittedAt \/ job'[j].submittedAt = NoTime
         /\ ~Queued(j) =>
              /\ ~Queued(j)'
              /\ job'[j].startedAt = job[j].startedAt \/ job'[j].startedAt = NoTime

LEMMA TxStable ==
    ASSUME NEW p \in Transaction, TxInv(p), Undisturbed(p),
           now \in Time, now' \in Time, lastId \in Nat, lastId' \in Nat, p.batch \subseteq Jobs
    PROVE  TxInv(p)'
  <1>1. CASE p = Idle
    BY <1>1 DEF TxInv
  <1>2. CASE p # Idle
    <2>1. p.pc \in Opening \cup Later /\ MethodOf(p) /\ ArgumentsInv(p) /\ LocksInv(p)
      BY <1>2 DEF TxInv
    <2>2. ArgumentsInv(p)'
      <3>1. p.at \in Time /\ p.at <= now' /\ NoTime <= p.at
        BY <2>1 DEF ArgumentsInv, Undisturbed, Time, NoTime
      <3>2. p.op \in {"claim_dispatch", "request_cancellation"} \cup Publications =>
              p.j \in 1 .. lastId' /\ job'[p.j].submittedAt <= p.at
        BY <2>1, <3>1 DEF ArgumentsInv, Undisturbed
      <3>3. p.op \in Publications => ~Queued(p.j)' /\ job'[p.j].startedAt <= p.at
        BY <2>1, <3>1 DEF ArgumentsInv, Undisturbed
      <3>4. p.op = "heartbeat_claims" =>
              \A j \in p.batch : j <= lastId' /\ ~Queued(j)' /\ job'[j].startedAt <= p.at
        <4> SUFFICES ASSUME p.op = "heartbeat_claims", NEW j \in p.batch
                     PROVE  j <= lastId' /\ ~Queued(j)' /\ job'[j].startedAt <= p.at
          OBVIOUS
        <4>1. j \in Jobs /\ j <= lastId /\ ~Queued(j) /\ job[j].startedAt <= p.at
          BY <2>1 DEF ArgumentsInv
        <4>2. j \in 1 .. lastId /\ j <= lastId'
          BY <4>1 DEF Undisturbed, Jobs
        <4> QED BY <3>1, <4>1, <4>2 DEF Undisturbed
      <3> QED BY <2>1, <3>1, <3>2, <3>3, <3>4 DEF ArgumentsInv
    <2>3. LocksInv(p)'
      <3>1. \A j \in DOMAIN p.rows : job'[j] = job[j] /\ claim'[j].owner = claim[j].owner
        BY DEF Undisturbed
      <3>2. \A j \in DOMAIN p.attempts :
              /\ claim'[j] = claim[j]
              /\ Processing(j) => Processing(j)' /\ job'[j].startedAt = job[j].startedAt
        BY DEF Undisturbed
      <3>3. \A j \in DOMAIN p.attempts : AttemptAlone(p, j) => AttemptAlone(p, j)'
        BY <3>2 DEF AttemptAlone
      <3>4. CASE p.pc \in Opening
        BY <2>1, <3>4 DEF LocksInv, Opening, Methods, Publications
      <3>5. CASE p.pc = "expire"
        BY <2>1, <3>1, <3>5 DEF LocksInv, Queued, Opening, Methods, Publications
      <3>6. CASE p.pc = "own"
        BY <2>1, <3>1, <3>6 DEF LocksInv, Opening, Methods, Publications
      <3>7. CASE p.pc = "recover"
        BY <2>1, <3>2, <3>3, <3>7 DEF LocksInv, Opening, Methods, Publications
      <3>8. CASE p.pc = "clear claims"
        BY <2>1, <3>1, <3>2, <3>8 DEF LocksInv, Opening, Methods, Publications
      <3>9. CASE p.pc = "clear claim"
        BY <2>1, <3>1, <3>9 DEF LocksInv, Opening, Methods, Publications
      <3>10. CASE p.pc = "commit"
        <4>1. \A j \in DOMAIN p.rows \ DOMAIN p.attempts : RowAlone(p, j)'
          BY <2>1, <3>1, <3>10 DEF LocksInv, RowAlone
        <4>2. \A j \in DOMAIN p.rows \cap DOMAIN p.attempts : RowAndAttempt(p, j)'
          BY <2>1, <3>1, <3>10 DEF LocksInv, RowAndAttempt
        <4>3. \A j \in DOMAIN p.attempts \ DOMAIN p.rows : AttemptAlone(p, j)'
          BY <2>1, <3>3, <3>10 DEF LocksInv
        <4> QED BY <3>10, <4>1, <4>2, <4>3 DEF LocksInv, Opening, Methods, Publications
      <3> QED BY <2>1, <3>4, <3>5, <3>6, <3>7, <3>8, <3>9, <3>10 DEF Later
    <2> QED BY <2>1, <2>2, <2>3 DEF TxInv, MethodOf
  <1> QED BY <1>1, <1>2

\* What is locked is there.
LEMMA LockedExist ==
    ASSUME NEW p \in Transaction, TxInv(p), NEW j \in DOMAIN p.rows \cup DOMAIN p.attempts
    PROVE  Exists(j)
  <1>1. /\ p.pc \in Opening \cup Later /\ LocksInv(p) /\ p.pc \notin Opening
    <2>1. p # Idle
      BY IdleTransaction
    <2> QED BY <2>1 DEF TxInv, LocksInv
  <1>2. Queued(j) \/ Processing(j) \/ Finished(j)
    <2>1. CASE p.pc = "expire"
      BY <1>1, <2>1 DEF LocksInv
    <2>2. CASE p.pc = "own"
      BY <1>1, <2>2 DEF LocksInv, Started, Queued
    <2>3. CASE p.pc = "recover"
      BY <1>1, <2>3 DEF LocksInv, AttemptAlone
    <2>4. CASE p.pc = "clear claims" \/ p.pc = "clear claim"
      BY <1>1, <2>4 DEF LocksInv, Concluded, Processing
    <2>5. CASE p.pc = "commit"
      <3>1. CASE j \in DOMAIN p.rows \ DOMAIN p.attempts
        BY <1>1, <2>5, <3>1 DEF LocksInv, RowAlone, LeftQueue, FlagRaised, Queued, Processing
      <3>2. CASE j \in DOMAIN p.rows \cap DOMAIN p.attempts
        BY <1>1, <2>5, <3>2 DEF LocksInv, RowAndAttempt, Started, Concluded, Removed,
                                Queued, Processing, Finished
      <3>3. CASE j \in DOMAIN p.attempts \ DOMAIN p.rows
        BY <1>1, <2>5, <3>3 DEF LocksInv, AttemptAlone
      <3> QED BY <3>1, <3>2, <3>3
    <2> QED BY <1>1, <2>1, <2>2, <2>3, <2>4, <2>5 DEF Later
  <1> QED BY <1>2 DEF Queued, Processing, Finished, Exists

\* A step that changes committed rows keeps the invariant if the rows stay as
\* they should be and no open transaction is disturbed.
LEMMA CommittedKeeps ==
    ASSUME PgInv, tx' \in [Sessions -> Transaction], StoreInv', LeaseInv', CreateInv',
           UNCHANGED mismatch,
           \A t \in Sessions : tx'[t] = Idle \/ (tx'[t] = tx[t] /\ Undisturbed(tx[t]))
    PROVE  PgInv'
  <1>1. mismatch' \subseteq Mismatches
    BY DEF PgInv
  <1>2. LocksExclusive'
    <2> SUFFICES ASSUME NEW t \in Sessions, NEW u \in Sessions, t # u
                 PROVE  /\ DOMAIN tx'[t].rows \cap DOMAIN tx'[u].rows = {}
                        /\ DOMAIN tx'[t].attempts \cap DOMAIN tx'[u].attempts = {}
      BY DEF LocksExclusive
    <2>1. CASE tx'[t] = Idle \/ tx'[u] = Idle
      BY <2>1, IdleTransaction
    <2>2. CASE tx'[t] = tx[t] /\ tx'[u] = tx[u]
      BY <2>2 DEF PgInv, LocksExclusive
    <2> QED BY <2>1, <2>2
  <1>3. ASSUME NEW t \in Sessions PROVE TxInv(tx[t])'
    <2>1. CASE tx'[t] = Idle
      BY Zenon, <2>1 DEF TxInv
    <2>2. CASE tx'[t] = tx[t] /\ Undisturbed(tx[t])
      <3>1. now \in Time /\ now' \in Time /\ lastId \in Nat /\ lastId' \in Nat
        BY DEF PgInv, StoreInv, TypeOK
      <3>2. TxInv(tx[t]) /\ tx[t] \in Transaction /\ tx[t].batch \subseteq Jobs
        BY DEF PgInv, Transaction
      <3>3. ASSUME NEW p, p = tx[t], p \in Transaction, TxInv(p), Undisturbed(p),
                   p.batch \subseteq Jobs
            PROVE  TxInv(p)'
        BY <3>1, <3>3, TxStable
      <3>4. PICK p : p = tx[t]
        OBVIOUS
      <3>5. TxInv(p)'
        BY <2>2, <3>2, <3>3, <3>4
      <3> QED BY ZenonT(60), <2>2, <3>4, <3>5
                 DEF TxInv, MethodOf, ArgumentsInv, LocksInv, RowAlone, RowAndAttempt,
                     AttemptAlone
    <2> QED BY <2>1, <2>2
  <1> QED BY <1>1, <1>2, <1>3 DEF PgInv

\* A change never puts a job back into the queue or moves its start.
LEMMA ChangeGoesOn ==
    ASSUME NEW j \in Jobs, NEW t \in Time, job[j] \in JobRow, Change(j, t)
    PROVE  /\ job'[j].submittedAt = job[j].submittedAt \/ job'[j].submittedAt = NoTime
           /\ ~Queued(j) =>
                /\ ~Queued(j)'
                /\ job'[j].startedAt = job[j].startedAt \/ job'[j].startedAt = NoTime
  <1>1. CASE job'[j] = job[j]
    BY <1>1 DEF Queued
  <1>2. CASE LeftQueue(job[j], job'[j], t)
    BY <1>2, LeftQueueFields DEF Queued
  <1>3. CASE FlagRaised(job[j], job'[j])
    <2>1. /\ job'[j].status = "processing" /\ job'[j].startedAt = job[j].startedAt
          /\ job'[j].submittedAt = job[j].submittedAt
      BY ZenonT(60), <1>3, FlagRaisedFields
    <2> QED BY <2>1 DEF Queued
  <1>4. CASE Started(job[j], job'[j], t)
    BY <1>4, StartedFields DEF Queued
  <1>5. CASE Concluded(job[j], job'[j], t)
    <2>1. ASSUME NEW q, q = job'[j]
          PROVE  /\ q.status = "finished" /\ q.startedAt = job[j].startedAt
                 /\ q.submittedAt = job[j].submittedAt
      <3>1. Concluded(job[j], q, t) /\ job[j] \in JobRow /\ t \in Time
        BY <1>5, <2>1
      <3> QED BY ZenonT(60), <3>1, ConcludedFields
    <2>2. /\ job'[j].status = "finished" /\ job'[j].startedAt = job[j].startedAt
          /\ job'[j].submittedAt = job[j].submittedAt
      BY <2>1
    <2> QED BY <2>2 DEF Queued
  <1>6. CASE Removed(job[j], job'[j], t)
    BY <1>6 DEF Removed, AbsentRow, Queued
  <1> QED BY <1>1, <1>2, <1>3, <1>4, <1>5, <1>6 DEF Change

\* A commit disturbs no transaction of another session: it writes what only
\* its own session had locked, and a row or an attempt written alone keeps
\* what the holder of the other one relies on.
LEMMA CommitUndisturbing ==
    ASSUME PgInv, NEW s \in Sessions, Commit(s), NEW t \in Sessions \ {s}
    PROVE  Undisturbed(tx[t])
  <1> DEFINE R == DOMAIN tx[s].rows
             A == DOMAIN tx[s].attempts
  <1>1. /\ UNCHANGED <<now, lastId>> /\ tx[s].pc = "commit"
        /\ \A j \in Jobs :
             /\ job'[j] = IF j \in R THEN tx[s].rows[j] ELSE job[j]
             /\ claim'[j] = IF j \in A THEN tx[s].attempts[j] ELSE claim[j]
    BY CommitEffect
  <1>2. /\ \A j \in Jobs : job[j] \in JobRow
        /\ now \in Nat /\ lastId \in 0 .. MaxJobs
    BY Committed DEF Time
  <1>3. /\ DOMAIN tx[t].rows \subseteq Jobs /\ DOMAIN tx[t].attempts \subseteq Jobs
        /\ DOMAIN tx[t].rows \cap R = {} /\ DOMAIN tx[t].attempts \cap A = {}
    <2>1. DOMAIN tx[t].rows \cap R = {} /\ DOMAIN tx[t].attempts \cap A = {}
      BY DEF PgInv, LocksExclusive
    <2> QED BY <2>1, OwnLocks
  <1>4. \A j \in Jobs : /\ j \in R /\ j \notin A => RowAlone(tx[s], j)
                        /\ j \notin R /\ j \in A => AttemptAlone(tx[s], j)
                        /\ Change(j, tx[s].at)
    BY CommitChanges
  <1>5. tx[s].at \in Time
    BY <1>1, Running DEF ArgumentsInv
  <1> HIDE DEF R, A
  <1>6. ASSUME NEW j \in DOMAIN tx[t].rows
        PROVE  job'[j] = job[j] /\ claim'[j].owner = claim[j].owner
    <2>1. j \in Jobs /\ j \notin R
      BY <1>3
    <2>2. job'[j] = job[j]
      BY <1>1, <2>1
    <2>3. CASE j \in A
      <3>1. claim'[j] = tx[s].attempts[j] /\ AttemptAlone(tx[s], j)
        BY <1>1, <1>4, <2>1, <2>3
      <3> QED BY <2>2, <3>1 DEF AttemptAlone
    <2>4. CASE j \notin A
      BY <1>1, <2>1, <2>2, <2>4
    <2> QED BY <2>3, <2>4
  <1>7. ASSUME NEW j \in DOMAIN tx[t].attempts
        PROVE  /\ claim'[j] = claim[j]
               /\ Processing(j) => Processing(j)' /\ job'[j].startedAt = job[j].startedAt
    <2>1. j \in Jobs /\ j \notin A /\ claim'[j] = claim[j]
      BY <1>1, <1>3
    <2>2. CASE j \in R
      <3>1. /\ job'[j] = tx[s].rows[j] /\ RowAlone(tx[s], j) /\ job[j] \in JobRow
        BY <1>1, <1>2, <1>4, <2>1, <2>2
      <3>2. LeftQueue(job[j], job'[j], tx[s].at) \/ FlagRaised(job[j], job'[j])
        BY <3>1 DEF RowAlone
      <3>3. CASE LeftQueue(job[j], job'[j], tx[s].at)
        BY <2>1, <3>3 DEF LeftQueue, Processing
      <3>4. CASE FlagRaised(job[j], job'[j])
        <4>1. job'[j].status = "processing" /\ job'[j].startedAt = job[j].startedAt
          BY ZenonT(60), <3>1, <3>4, FlagRaisedFields
        <4> QED BY <2>1, <4>1 DEF Processing
      <3> QED BY <3>2, <3>3, <3>4
    <2>3. CASE j \notin R
      BY <1>1, <2>1, <2>3 DEF Processing
    <2> QED BY <2>2, <2>3
  <1>8. \A j \in 1 .. lastId :
         /\ job'[j].submittedAt = job[j].submittedAt \/ job'[j].submittedAt = NoTime
         /\ ~Queued(j) =>
              /\ ~Queued(j)'
              /\ job'[j].startedAt = job[j].startedAt \/ job'[j].startedAt = NoTime
    <2>1. 1 .. lastId \subseteq Jobs
      BY <1>2, BoundsAssumption DEF Jobs
    <2> QED BY <1>2, <1>4, <1>5, <2>1, ChangeGoesOn
  <1> QED BY <1>1, <1>2, <1>6, <1>7, <1>8 DEF Undisturbed

LEMMA CommitKeeps ==
    ASSUME PgInv, NEW s \in Sessions, Commit(s)
    PROVE  PgInv'
  <1>1. /\ OnlyTx(s) /\ tx'[s] = Idle /\ tx[s].pc = "commit"
        /\ UNCHANGED <<now, lastId, mismatch>>
        /\ job' \in [Jobs -> JobRow] /\ claim' \in [Jobs -> Claim]
        /\ starts' \in [Jobs -> Nat]
        /\ \A j \in Jobs :
             starts'[j] = starts[j] + IF Processing(j)' /\ ~Processing(j) THEN 1 ELSE 0
    BY CommitEffect
  <1>2. /\ now \in Time /\ lastId \in 0 .. MaxJobs
        /\ job \in [Jobs -> JobRow] /\ claim \in [Jobs -> Claim] /\ starts \in [Jobs -> Nat]
    BY Committed
  <1>3. tx[s].at \in Time /\ tx[s].at <= now
    BY <1>1, Running DEF ArgumentsInv
  <1>4. ASSUME NEW j \in Jobs PROVE RowInv(j)' /\ Lease(j)'
    <2>1. Change(j, tx[s].at)
      BY CommitChanges
    <2>2. RowInv(j) /\ Lease(j)
      BY Committed DEF PgInv, LeaseInv, Lease
    <2>3. /\ job[j] \in JobRow /\ job'[j] \in JobRow /\ claim[j] \in Claim
          /\ claim'[j] \in Claim
          /\ starts[j] \in Nat /\ lastId \in Nat
      BY <1>1, <1>2
    <2> QED BY <1>1, <1>2, <1>3, <2>1, <2>2, <2>3, ChangeKeepsRow
  <1>5. StoreInv'
    <2>1. TypeOK'
      BY <1>1, <1>2 DEF TypeOK
    <2> QED BY <1>4, <2>1 DEF StoreInv
  <1>6. LeaseInv'
    BY <1>4 DEF LeaseInv, Lease
  <1>7. CreateInv'
    <2> SUFFICES ASSUME NEW t \in Sessions, tx'[t].op = "create_queued"
                 PROVE  t = "api" /\ lastId' < MaxJobs
      BY DEF CreateInv
    <2>1. t # s
      BY <1>1, IdleTransaction
    <2> QED BY <1>1, <2>1 DEF OnlyTx, PgInv, CreateInv
  <1>8. \A t \in Sessions : tx'[t] = Idle \/ (tx'[t] = tx[t] /\ Undisturbed(tx[t]))
    BY <1>1, CommitUndisturbing DEF OnlyTx
  <1> QED BY <1>1, <1>5, <1>6, <1>7, <1>8, CommittedKeeps DEF OnlyTx

\* The id that the identity column hands out next is not in use.
LEMMA NextIdFree ==
    ASSUME PgInv, lastId < MaxJobs
    PROVE  /\ lastId + 1 \in Jobs /\ ~Exists(lastId + 1)
           /\ claim[lastId + 1].owner = Null /\ claim[lastId + 1].expiresAt = NoTime
           /\ starts[lastId + 1] = 0
  <1>1. lastId + 1 \in Jobs /\ ~(lastId + 1 <= lastId) /\ lastId + 1 > lastId
    BY Committed, BoundsAssumption DEF Jobs
  <1>2. RowHistory(lastId + 1) /\ RowOwned(lastId + 1) /\ RowStarts(lastId + 1)
    BY <1>1, Committed DEF RowInv
  <1>3. ~Exists(lastId + 1) /\ starts[lastId + 1] = 0
    BY <1>1, <1>2 DEF RowHistory, RowStarts
  <1>4. ~Processing(lastId + 1)
    BY <1>3 DEF Exists, Processing
  <1> QED BY <1>1, <1>2, <1>3, <1>4 DEF RowOwned

\* What the INSERT commits: one queued row, under a new id.
LEMMA InsertEffect ==
    ASSUME PgInv, NEW s \in Sessions, NEW request \in Requests, CreateInsert(s, request)
    PROVE  /\ OnlyTx(s) /\ tx'[s] = Idle /\ tx[s].pc = "insert"
           /\ tx[s].op = "create_queued" /\ s = "api" /\ lastId < MaxJobs
           /\ tx[s].at \in Time /\ tx[s].at <= now
           /\ lastId' = lastId + 1 /\ UNCHANGED <<now, claim, starts, mismatch>>
           /\ lastId + 1 \in Jobs /\ ~Exists(lastId + 1)
           /\ job' \in [Jobs -> JobRow] /\ lastId' \in 0 .. MaxJobs
           /\ \A j \in Jobs \ {lastId + 1} : job'[j] = job[j]
           /\ LET q == job'[lastId + 1]
              IN  /\ q.status = "queued" /\ q.outcome = "none" /\ q.error = "none"
                  /\ q.cancellationRequested = FALSE /\ q.hasResult = FALSE
                  /\ q.submittedAt = tx[s].at /\ q.startedAt = NoTime
                  /\ q.finishedAt = NoTime /\ q.key = tx[s].key
  <1> DEFINE id == lastId + 1
             new == NewRow(tx[s].key, request, tx[s].at)
  <1>1. /\ tx[s].pc = "insert" /\ lastId' = id /\ job' = [job EXCEPT ![id] = new] /\ End(s)
        /\ UNCHANGED <<now, claim, starts, mismatch>>
    BY DEF CreateInsert, At
  <1>2. OnlyTx(s) /\ tx'[s] = Idle
    BY <1>1, EndEffect, Committed
  <1>3. /\ tx[s].op = "create_queued" /\ s = "api" /\ lastId < MaxJobs
        /\ tx[s].key \in Keys /\ tx[s].at \in Time /\ tx[s].at <= now
    BY <1>1, Running DEF MethodOf, ArgumentsInv
  <1>4. lastId \in 0 .. MaxJobs /\ job \in [Jobs -> JobRow]
    BY Committed
  <1>5. id \in Jobs /\ ~Exists(id)
    BY <1>3, NextIdFree
  <1>6. /\ new \in JobRow /\ new.status = "queued" /\ new.outcome = "none" /\ new.error = "none"
        /\ new.cancellationRequested = FALSE /\ new.hasResult = FALSE
        /\ new.submittedAt = tx[s].at /\ new.startedAt = NoTime /\ new.finishedAt = NoTime
        /\ new.key = tx[s].key
    <2>1. new \in JobRow
      BY <1>3, FreshRowTypes
    <2>2. /\ new.status = "queued" /\ new.outcome = "none" /\ new.error = "none"
          /\ new.cancellationRequested = FALSE /\ new.hasResult = FALSE
          /\ new.submittedAt = tx[s].at /\ new.startedAt = NoTime /\ new.finishedAt = NoTime
          /\ new.key = tx[s].key
      BY DEF NewRow, AbsentRow
    <2> QED BY <2>1, <2>2
  <1> HIDE DEF new
  <1>7. /\ job'[id] = new /\ \A j \in Jobs \ {id} : job'[j] = job[j]
        /\ job' \in [Jobs -> JobRow] /\ lastId' \in 0 .. MaxJobs
    BY <1>1, <1>3, <1>4, <1>5, <1>6, BoundsAssumption
  <1> QED BY <1>1, <1>2, <1>3, <1>5, <1>6, <1>7

LEMMA CreateInsertKeeps ==
    ASSUME PgInv, NEW s \in Sessions, NEW request \in Requests, CreateInsert(s, request)
    PROVE  PgInv'
  <1> DEFINE id == lastId + 1
             new == job'[id]
  <1>1. lastId' = id /\ UNCHANGED <<now, claim, starts, mismatch>>
    BY InsertEffect
  <1>2. OnlyTx(s) /\ tx'[s] = Idle
    BY InsertEffect
  <1>3. s = "api" /\ tx[s].at \in Time /\ tx[s].at <= now
    BY InsertEffect
  <1>4. /\ now \in Time /\ lastId \in Nat /\ lastId \in 0 .. MaxJobs
        /\ job \in [Jobs -> JobRow] /\ claim \in [Jobs -> Claim] /\ starts \in [Jobs -> Nat]
    BY Committed
  <1>5. /\ id \in Jobs /\ ~Exists(id) /\ starts[id] = 0
        /\ claim[id].owner = Null /\ claim[id].expiresAt = NoTime
    <2>1. lastId < MaxJobs
      BY InsertEffect
    <2> QED BY <2>1, NextIdFree
  <1>6. /\ new.status = "queued" /\ new.outcome = "none" /\ new.error = "none"
        /\ new.cancellationRequested = FALSE /\ new.hasResult = FALSE
        /\ new.submittedAt = tx[s].at /\ new.startedAt = NoTime /\ new.finishedAt = NoTime
    BY InsertEffect
  <1>7. /\ job'[id] = new /\ \A j \in Jobs \ {id} : job'[j] = job[j]
        /\ job' \in [Jobs -> JobRow] /\ lastId' \in 0 .. MaxJobs
    BY InsertEffect
  <1>t. NoTime = -1 /\ tx[s].at \in Nat /\ now \in Nat
    BY <1>3, <1>4 DEF NoTime, Time
  <1> HIDE DEF new
  <1>8. ASSUME NEW j \in Jobs PROVE RowInv(j)'
    <2>1. CASE j = id
      <3>1. RowHistory(j)'
        BY <1>1, <1>3, <1>4, <1>6, <1>7, <1>t, <2>1 DEF RowHistory, Exists
      <3>2. RowLifecycle(j)'
        BY <1>6, <1>7, <2>1
           DEF RowLifecycle, Queued, Processing, Finished, Exists, QueuedRowOK, NoError,
               TimestampsOrdered
      <3>3. RowOwned(j)'
        BY <1>1, <1>5, <1>6, <1>7, <2>1 DEF RowOwned, Processing
      <3>4. RowStarts(j)'
        BY <1>1, <1>5, <2>1 DEF RowStarts
      <3> QED BY <3>1, <3>2, <3>3, <3>4 DEF RowInv
    <2>2. CASE j # id
      <3>1. job'[j] = job[j] /\ RowInv(j) /\ j \in Int
        BY <1>7, <2>2, Committed DEF Jobs
      <3>2. RowHistory(j)'
        BY <1>1, <1>4, <3>1 DEF RowInv, RowHistory, Exists
      <3>3. RowLifecycle(j)' /\ RowOwned(j)'
        BY <1>1, <3>1 DEF RowInv, RowLifecycle, RowOwned, Queued, Processing, Finished, Exists
      <3>4. RowStarts(j)'
        BY <1>1, <1>4, <3>1 DEF RowInv, RowStarts, Queued
      <3> QED BY <3>2, <3>3, <3>4 DEF RowInv
    <2> QED BY <2>1, <2>2
  <1>9. StoreInv'
    BY <1>1, <1>4, <1>7, <1>8 DEF StoreInv, TypeOK
  <1>10. LeaseInv'
    <2> SUFFICES ASSUME NEW j \in Jobs, Processing(j)'
                 PROVE  claim'[j].expiresAt >= job'[j].startedAt
      BY DEF LeaseInv
    <2>1. j # id
      BY <1>6, <1>7 DEF Processing
    <2>2. job'[j] = job[j] /\ Processing(j)
      BY <1>7, <2>1 DEF Processing
    <2> QED BY <1>1, <2>2 DEF PgInv, LeaseInv
  <1>11. CreateInv'
    <2> SUFFICES ASSUME NEW t \in Sessions, tx'[t].op = "create_queued"
                 PROVE  FALSE
      BY DEF CreateInv
    <2>1. t # s
      BY <1>2, IdleTransaction
    <2>2. tx[t].op = "create_queued"
      BY <1>2, <2>1 DEF OnlyTx
    <2> QED BY <1>3, <2>1, <2>2 DEF PgInv, CreateInv
  <1>12. ASSUME NEW t \in Sessions \ {s} PROVE Undisturbed(tx[t])
    <2>1. \A j \in DOMAIN tx[t].rows \cup DOMAIN tx[t].attempts : j \in Jobs /\ Exists(j)
      <3>1. TxInv(tx[t]) /\ tx[t] \in Transaction
        BY DEF PgInv
      <3> QED BY <3>1, LockedExist, OwnLocks
    <2>2. \A j \in DOMAIN tx[t].rows \cup DOMAIN tx[t].attempts : job'[j] = job[j]
      BY <1>5, <1>7, <2>1
    <2>3. \A j \in 1 .. lastId : job'[j] = job[j]
      <3>1. \A j \in 1 .. lastId : j \in Jobs /\ j # id
        BY <1>4, BoundsAssumption DEF Jobs
      <3> QED BY <1>7, <3>1
    <2>4. now' >= now /\ lastId' >= lastId /\ claim' = claim
      BY <1>1, <1>4, <1>t
    <2> QED BY <2>2, <2>3, <2>4 DEF Undisturbed, Queued, Processing
  <1>13. \A t \in Sessions : tx'[t] = Idle \/ (tx'[t] = tx[t] /\ Undisturbed(tx[t]))
    BY <1>2, <1>12 DEF OnlyTx
  <1> QED BY <1>1, <1>2, <1>9, <1>10, <1>11, <1>13, CommittedKeeps DEF OnlyTx

LEMMA TickKeeps ==
    ASSUME PgInv, PgTick
    PROVE  PgInv'
  <1>1. /\ now' = now + 1 /\ UNCHANGED <<lastId, job, claim, starts, tx, mismatch>>
    BY DEF PgTick, Tick
  <1>2. now \in Nat /\ now' \in Time /\ lastId \in Nat
    BY <1>1, Committed DEF Time
  <1>3. ASSUME NEW j \in Jobs PROVE RowInv(j)'
    <2>1. RowInv(j) /\ job[j] \in JobRow
      BY Committed
    <2>2. job[j].submittedAt \in Int /\ job[j].startedAt \in Int /\ job[j].finishedAt \in Int
      BY <2>1 DEF JobRow, Time, NoTime
    <2>3. RowHistory(j)'
      BY <1>1, <1>2, <2>1, <2>2 DEF RowInv, RowHistory, Exists
    <2>4. RowLifecycle(j)' /\ RowOwned(j)' /\ RowStarts(j)'
      BY <1>1, <2>1
         DEF RowInv, RowLifecycle, RowOwned, RowStarts, Queued, Processing, Finished, Exists
    <2> QED BY <2>3, <2>4 DEF RowInv
  <1>4. StoreInv'
    BY <1>1, <1>2, <1>3, Committed DEF StoreInv, TypeOK
  <1>5. LeaseInv' /\ CreateInv'
    BY <1>1 DEF PgInv, LeaseInv, CreateInv, Processing
  <1>6. \A t \in Sessions : Undisturbed(tx[t])
    BY <1>1, <1>2 DEF Undisturbed, Queued, Processing
  <1> QED BY <1>1, <1>4, <1>5, <1>6, Committed, CommittedKeeps

-----------------------------------------------------------------------------
(* The invariant. *)

LEMMA PgInitInv == PgInit => PgInv
  <1> SUFFICES ASSUME PgInit PROVE PgInv
    OBVIOUS
  <1>1. Init /\ tx = [s \in Sessions |-> Idle] /\ mismatch = {}
    BY DEF PgInit
  <1>2. StoreInv
    BY <1>1, InitInv
  <1>3. LeaseInv
    BY <1>1 DEF Init, LeaseInv, Processing, AbsentRow
  <1>4. tx \in [Sessions -> Transaction] /\ \A s \in Sessions : tx[s] = Idle
    BY <1>1, IdleTransaction
  <1>5. LocksExclusive /\ CreateInv
    BY <1>4, IdleTransaction DEF LocksExclusive, CreateInv
  <1>6. \A s \in Sessions : TxInv(tx[s])
    BY <1>4 DEF TxInv
  <1> QED BY <1>1, <1>2, <1>3, <1>4, <1>5, <1>6 DEF PgInv

LEMMA RunKeeps ==
    ASSUME PgInv, NEW s \in Sessions, Run(s)
    PROVE  PgInv'
  <1>1. ASSUME NEW request \in Requests, CreateInsert(s, request) PROVE PgInv'
    BY <1>1, CreateInsertKeeps
  <1>2. CASE Commit(s) \/ CreateSelect(s)
    BY <1>2, CommitKeeps, CreateSelectKeeps
  <1>3. CASE ExpireSelect(s) \/ ExpireUpdate(s) \/ HeartbeatUpdate(s) \/ Delete(s)
    BY <1>3, ExpireSelectKeeps, ExpireUpdateKeeps, HeartbeatKeeps, DeleteKeeps
  <1>4. CASE ClaimTimeout(s) \/ ClaimHead(s) \/ ClaimStart(s) \/ ClaimOwn(s)
    BY <1>4, ClaimTimeoutKeeps, ClaimHeadKeeps, ClaimStartKeeps, ClaimOwnKeeps
  <1>5. CASE RecoverSelect(s) \/ RecoverFinish(s) \/ RecoverClear(s)
    BY <1>5, RecoverSelectKeeps, RecoverFinishKeeps, RecoverClearKeeps
  <1>6. CASE CancelSelect(s) \/ CancelQueued(s) \/ CancelProcessing(s)
    BY <1>6, CancelSelectKeeps, CancelQueuedKeeps, CancelProcessingKeeps
  <1>7. CASE PublishUpdate(s) \/ PublishClear(s)
    BY <1>7, PublishUpdateKeeps, PublishClearKeeps
  <1> QED BY <1>1, <1>2, <1>3, <1>4, <1>5, <1>6, <1>7 DEF Run

LEMMA PgStepInv == PgInv /\ [PgNext]_pgVars => PgInv'
  <1> SUFFICES ASSUME PgInv, [PgNext]_pgVars PROVE PgInv'
    OBVIOUS
  <1>1. CASE Call
    BY <1>1, CallKeeps
  <1>2. CASE PgTick
    BY <1>2, TickKeeps
  <1>3. ASSUME NEW s \in Sessions, Run(s) PROVE PgInv'
    BY <1>3, RunKeeps
  <1>4. ASSUME NEW s \in Sessions, Rollback(s) PROVE PgInv'
    BY <1>4, RollbackKeeps
  <1>5. CASE UNCHANGED pgVars
    <2>1. UNCHANGED <<now, lastId, job, claim, starts, tx, mismatch>>
      BY <1>5 DEF pgVars, vars
    <2>2. StoreInv' /\ LeaseInv' /\ CreateInv'
      BY <2>1 DEF PgInv, StoreInv, TypeOK, LeaseInv, CreateInv, RowInv, RowHistory,
                  RowLifecycle, RowOwned, RowStarts, Queued, Processing, Finished, Exists
    <2>3. \A t \in Sessions : Undisturbed(tx[t])
      BY <2>1, Committed DEF Undisturbed, Queued, Processing, Time
    <2> QED BY <2>1, <2>2, <2>3, Committed, CommittedKeeps
  <1> QED BY <1>1, <1>2, <1>3, <1>4, <1>5 DEF PgNext

\* The inductive invariant holds in every reachable state of the sessions.
THEOREM PgInvariant == PgSpec => []PgInv
  BY PgInitInv, PgStepInv, PTL DEF PgSpec

\* Statement by statement and with a connection lost at any point, a job is
\* processing exactly while a committed attempt row names its owner.
THEOREM SessionsOwn == PgSpec => []OwnedExactlyWhileProcessing
  <1>1. PgInv => OwnedExactlyWhileProcessing
    BY DEF PgInv, StoreInv, RowInv, RowOwned, OwnedExactlyWhileProcessing
  <1> QED BY <1>1, PgInvariant, PTL

\* No interleaving of the statements trips a CHECK constraint of
\* transcription_job.
THEOREM SessionsLifecycle == PgSpec => []LifecycleCheck
  <1>1. PgInv => LifecycleCheck
    BY DEF PgInv, StoreInv, RowInv, RowLifecycle, LifecycleCheck
  <1> QED BY <1>1, PgInvariant, PTL

\* Every committed row and every uncommitted version of one has its type.
THEOREM SessionsTyped == PgSpec => []PgTypeOK
  <1>1. PgInv => PgTypeOK
    <2> SUFFICES ASSUME PgInv PROVE PgTypeOK
      OBVIOUS
    <2>1. TypeOK
      BY DEF PgInv, StoreInv
    <2> QED BY <2>1, OwnLocks DEF PgTypeOK
  <1> QED BY <1>1, PgInvariant, PTL

-----------------------------------------------------------------------------
(* The queue: what the advisory lock protects. *)

\* No job that could still be claimed at time t is older than j.
Oldest(j, t) == \A i \in Jobs : Queued(i) /\ QueueDeadline(i) > t => ~OlderThan(i, j)

\* Between the lookups and the INSERT there stays room, no submission is later
\* and the key stays unused; from the FIFO lookup to the commit the job stays the oldest one.
QueueInv(p) ==
    /\ p.pc = "insert" =>
         /\ Cardinality(Outstanding) < MaxOutstanding
         /\ \A j \in Jobs : job[j].submittedAt <= p.at
         /\ Replayed(p.key) = {}
    /\ p.pc \in {"start", "own"} => Oldest(p.j, p.at)
    /\ p.pc = "commit" =>
         \A j \in DOMAIN p.rows :
            p.rows[j].status = "processing" /\ Queued(j) =>
              p.op = "claim_dispatch" /\ Oldest(j, p.at)

\* The advisory lock has one holder.
LockInv ==
    \A s, t \in Sessions : s # t => ~(HoldsLifecycleLock(s) /\ HoldsLifecycleLock(t))

SessionsInv ==
    /\ PgInv /\ LockInv /\ NoOvertaking
    /\ \A s \in Sessions : QueueInv(tx[s])

\* A change takes jobs out of the queue only.
LEMMA ChangeLeavesQueue ==
    ASSUME NEW j \in Jobs, NEW t \in Time, job[j] \in JobRow, Change(j, t)
    PROVE  /\ Queued(j)' => Queued(j)
           /\ \/ job'[j].submittedAt = job[j].submittedAt
              \/ ~Exists(j)' /\ job'[j].submittedAt = NoTime
           /\ Exists(j)' => Exists(j) /\ job'[j].key = job[j].key
           /\ j \in Outstanding' => j \in Outstanding
           /\ \/ job'[j].startedAt = job[j].startedAt
              \/ job'[j].startedAt = NoTime
              \/ Queued(j) /\ Processing(j)'
  <1> USE DEF Queued, Processing, Exists, Outstanding
  <1>1. CASE job'[j] = job[j]
    BY <1>1
  <1>2. CASE LeftQueue(job[j], job'[j], t)
    BY <1>2, LeftQueueFields
  <1>3. CASE FlagRaised(job[j], job'[j])
    <2>1. /\ job[j].status = "processing" /\ job'[j].status = "processing"
          /\ job'[j].startedAt = job[j].startedAt /\ job'[j].submittedAt = job[j].submittedAt
          /\ job'[j].key = job[j].key
      BY ZenonT(60), <1>3, FlagRaisedFields
    <2> QED BY <2>1
  <1>4. CASE Started(job[j], job'[j], t)
    BY <1>4, StartedFields
  <1>5. CASE Concluded(job[j], job'[j], t)
    <2>1. ASSUME NEW q, q = job'[j]
          PROVE  /\ job[j].status = "processing" /\ q.status = "finished"
                 /\ q.startedAt = job[j].startedAt /\ q.submittedAt = job[j].submittedAt
                 /\ q.key = job[j].key
      <3>1. Concluded(job[j], q, t) /\ job[j] \in JobRow /\ t \in Time
        BY <1>5, <2>1
      <3> QED BY ZenonT(60), <3>1, ConcludedFields
    <2>2. /\ job[j].status = "processing" /\ job'[j].status = "finished"
          /\ job'[j].startedAt = job[j].startedAt /\ job'[j].submittedAt = job[j].submittedAt
          /\ job'[j].key = job[j].key
      BY <2>1
    <2> QED BY <2>2
  <1>6. CASE Removed(job[j], job'[j], t)
    BY <1>6 DEF Removed, AbsentRow
  <1> QED BY <1>1, <1>2, <1>3, <1>4, <1>5, <1>6 DEF Change

\* What a step that admits nobody leaves of the queue.
QueueShrinks ==
    /\ Outstanding' \subseteq Outstanding
    /\ \A j \in Jobs :
         /\ Queued(j)' => Queued(j)
         /\ \/ job'[j].submittedAt = job[j].submittedAt
            \/ ~Exists(j)' /\ job'[j].submittedAt = NoTime
         /\ Exists(j)' => Exists(j) /\ job'[j].key = job[j].key

LEMMA OldestStays ==
    ASSUME StoreInv, StoreInv', QueueShrinks, NEW j \in Jobs, NEW t \in Time, Oldest(j, t)
    PROVE  Oldest(j, t)'
  <1> SUFFICES ASSUME NEW i \in Jobs, Queued(i)', QueueDeadline(i)' > t
               PROVE  ~OlderThan(i, j)'
    BY DEF Oldest
  <1>1. /\ job[i] \in JobRow /\ job[j] \in JobRow
    BY DEF StoreInv, TypeOK
  <1>2. /\ job[i].submittedAt \in Int /\ job[j].submittedAt \in Int /\ i \in Int /\ j \in Int
        /\ QueueTimeout \in Int /\ NoTime = -1
    BY <1>1, PolicyAssumption DEF JobRow, Time, NoTime, Jobs
  <1>3. Queued(i) /\ job'[i].submittedAt = job[i].submittedAt
    BY DEF QueueShrinks, Queued, Exists
  <1>4. job[i].submittedAt >= 0
    <2>1. RowHistory(i) /\ Exists(i)
      BY <1>3 DEF StoreInv, RowInv, Exists, Queued
    <2>2. job[i].submittedAt # NoTime /\ job[i].submittedAt \in Time \cup {NoTime}
      BY <1>1, <2>1 DEF RowHistory, JobRow
    <2> QED BY <2>2 DEF Time
  <1>5. ~OlderThan(i, j)
    BY <1>2, <1>3 DEF Oldest, QueueDeadline
  <1>6. job'[j].submittedAt = job[j].submittedAt \/ job'[j].submittedAt = NoTime
    BY DEF QueueShrinks
  <1> QED BY <1>2, <1>3, <1>4, <1>5, <1>6 DEF OlderThan

LEMMA OutstandingShrinks ==
    ASSUME Outstanding' \subseteq Outstanding, Cardinality(Outstanding) < MaxOutstanding
    PROVE  Cardinality(Outstanding') < MaxOutstanding
  <1>1. /\ Cardinality(Outstanding') \in Nat
        /\ Cardinality(Outstanding') <= Cardinality(Outstanding)
    BY OutstandingFinite, FS_Subset, FS_CardinalityType
  <1> QED BY <1>1, OutstandingFinite, PolicyAssumption

\* What others commit does not disturb the queue either.
LEMMA QueueStable ==
    ASSUME NEW p \in Transaction, TxInv(p), QueueInv(p), StoreInv, StoreInv', QueueShrinks,
           \A j \in DOMAIN p.rows : j \in Jobs /\ job'[j] = job[j]
    PROVE  QueueInv(p)'
  <1>1. CASE p = Idle
    BY <1>1, IdleTransaction DEF QueueInv
  <1>2. CASE p # Idle
    <2>1. p.at \in Time /\ MethodOf(p) /\ ArgumentsInv(p) /\ LocksInv(p)
      BY <1>2 DEF TxInv, ArgumentsInv
    <2>2. p.pc = "insert" =>
            /\ Cardinality(Outstanding') < MaxOutstanding
            /\ \A j \in Jobs : job'[j].submittedAt <= p.at
            /\ Replayed(p.key)' = {}
      <3> SUFFICES ASSUME p.pc = "insert"
                   PROVE  /\ Cardinality(Outstanding') < MaxOutstanding
                          /\ \A j \in Jobs : job'[j].submittedAt <= p.at
                          /\ Replayed(p.key)' = {}
        OBVIOUS
      <3>1. Cardinality(Outstanding') < MaxOutstanding
        BY OutstandingShrinks DEF QueueInv, QueueShrinks
      <3>2. NoTime <= p.at
        BY <2>1 DEF NoTime, Time
      <3>3. Replayed(p.key)' = {}
        BY DEF QueueInv, QueueShrinks, Replayed
      <3> QED BY <3>1, <3>2, <3>3 DEF QueueInv, QueueShrinks
    <2>3. p.pc \in {"start", "own"} => Oldest(p.j, p.at)'
      <3> SUFFICES ASSUME p.pc \in {"start", "own"} PROVE Oldest(p.j, p.at)'
        OBVIOUS
      <3>1. p.op = "claim_dispatch"
        BY <2>1 DEF MethodOf
      <3>2. p.j \in 1 .. lastId
        BY <2>1, <3>1 DEF ArgumentsInv
      <3>3. p.j \in Jobs
        BY <3>2, BoundsAssumption DEF StoreInv, TypeOK, Jobs
      <3>4. Oldest(p.j, p.at)
        BY DEF QueueInv
      <3>5. ASSUME NEW j \in Jobs, NEW t \in Time, j = p.j, t = p.at, Oldest(j, t)
            PROVE  Oldest(j, t)'
        BY <3>5, OldestStays
      <3> QED BY <2>1, <3>3, <3>4, <3>5
    <2>4. p.pc = "commit" =>
            \A j \in DOMAIN p.rows :
               p.rows[j].status = "processing" /\ Queued(j)' =>
                 p.op = "claim_dispatch" /\ Oldest(j, p.at)'
      <3> SUFFICES ASSUME p.pc = "commit", NEW j \in DOMAIN p.rows,
                          p.rows[j].status = "processing", Queued(j)'
                   PROVE  p.op = "claim_dispatch" /\ Oldest(j, p.at)'
        OBVIOUS
      <3>1. Queued(j) /\ j \in Jobs
        BY DEF Queued
      <3>2. p.op = "claim_dispatch" /\ Oldest(j, p.at)
        BY <3>1 DEF QueueInv
      <3>3. ASSUME NEW t \in Time, t = p.at, Oldest(j, t)
            PROVE  Oldest(j, t)'
        BY <3>1, <3>3, OldestStays
      <3> QED BY <2>1, <3>2, <3>3
    <2> QED BY <2>2, <2>3, <2>4 DEF QueueInv
  <1> QED BY <1>1, <1>2

-----------------------------------------------------------------------------
(* What a statement that commits nothing does to the queue. *)

Elsewhere(s) == \A t \in Sessions \ {s} : tx'[t] = tx[t]

\* The transaction goes on at pc, with the call it was made for.
Left(s, pc) == tx'[s].pc = pc /\ SameCall(tx[s], tx'[s])

LEMMA Leaving ==
    ASSUME tx \in [Sessions -> Transaction], NEW s \in Sessions, NEW pc, NEW written
    PROVE  /\ End(s) => Elsewhere(s) /\ tx'[s] = Idle
           /\ Goto(s, pc) => Elsewhere(s) /\ Left(s, pc)
           /\ WriteRows(s, pc, written) =>
                Elsewhere(s) /\ Left(s, pc) /\ tx'[s].attempts = tx[s].attempts
           /\ WriteAttempts(s, pc, written) =>
                Elsewhere(s) /\ Left(s, pc) /\ tx'[s].rows = tx[s].rows
  <1>1. ASSUME NEW p \in Transaction, NEW q, NEW over,
               \/ q = [p EXCEPT !.pc = pc]
               \/ q = [p EXCEPT !.pc = pc, !.rows = over]
               \/ q = [p EXCEPT !.pc = pc, !.attempts = over]
        PROVE  q.pc = pc /\ SameCall(p, q)
    BY <1>1 DEF Transaction, SameCall
  <1>r. ASSUME NEW p \in Transaction, NEW over
        PROVE  /\ [p EXCEPT !.pc = pc, !.rows = over].attempts = p.attempts
               /\ [p EXCEPT !.pc = pc, !.attempts = over].rows = p.rows
    BY DEF Transaction
  <1>2. tx[s] \in Transaction
    OBVIOUS
  <1>3. End(s) => Elsewhere(s) /\ tx'[s] = Idle
    BY DEF End, Elsewhere
  <1>4. Goto(s, pc) => Elsewhere(s) /\ Left(s, pc)
    <2> SUFFICES ASSUME Goto(s, pc) PROVE Elsewhere(s) /\ Left(s, pc)
      OBVIOUS
    <2>1. Elsewhere(s) /\ tx'[s] = [tx[s] EXCEPT !.pc = pc]
      BY DEF Goto, Elsewhere
    <2> QED BY <1>1, <1>2, <2>1 DEF Left
  <1>5. WriteRows(s, pc, written) =>
          Elsewhere(s) /\ Left(s, pc) /\ tx'[s].attempts = tx[s].attempts
    <2> SUFFICES ASSUME WriteRows(s, pc, written)
                 PROVE  Elsewhere(s) /\ Left(s, pc) /\ tx'[s].attempts = tx[s].attempts
      OBVIOUS
    <2>1. /\ Elsewhere(s)
          /\ tx'[s] = [tx[s] EXCEPT !.pc = pc, !.rows = Over(written, tx[s].rows)]
      BY DEF WriteRows, Elsewhere
    <2>2. tx'[s].pc = pc /\ SameCall(tx[s], tx'[s])
      BY <1>1, <1>2, <2>1
    <2>3. tx'[s].attempts = tx[s].attempts
      BY <1>r, <1>2, <2>1
    <2> QED BY <2>1, <2>2, <2>3 DEF Left
  <1>6. WriteAttempts(s, pc, written) =>
          Elsewhere(s) /\ Left(s, pc) /\ tx'[s].rows = tx[s].rows
    <2> SUFFICES ASSUME WriteAttempts(s, pc, written)
                 PROVE  Elsewhere(s) /\ Left(s, pc) /\ tx'[s].rows = tx[s].rows
      OBVIOUS
    <2>1. /\ Elsewhere(s)
          /\ tx'[s] = [tx[s] EXCEPT !.pc = pc, !.attempts = Over(written, tx[s].attempts)]
      BY DEF WriteAttempts, Elsewhere
    <2>2. tx'[s].pc = pc /\ SameCall(tx[s], tx'[s])
      BY <1>1, <1>2, <2>1
    <2>3. tx'[s].rows = tx[s].rows
      BY <1>r, <1>2, <2>1
    <2> QED BY <2>1, <2>2, <2>3 DEF Left
  <1> QED BY <1>3, <1>4, <1>5, <1>6

\* Only a commit of both a row and its attempt can start a job.
OthersQuiet ==
    \A s \in Sessions :
        /\ tx[s].pc = "commit"
        /\ \A j \in DOMAIN tx[s].rows \cap DOMAIN tx[s].attempts :
             tx[s].rows[j].status # "processing"
        => QueueInv(tx[s])

LEMMA QuietCommits == PgInv => OthersQuiet
  <1> SUFFICES ASSUME PgInv, NEW s \in Sessions, tx[s].pc = "commit",
                      \A j \in DOMAIN tx[s].rows \cap DOMAIN tx[s].attempts :
                        tx[s].rows[j].status # "processing",
                      NEW j \in DOMAIN tx[s].rows, tx[s].rows[j].status = "processing", Queued(j)
               PROVE  FALSE
    BY DEF QueueInv, OthersQuiet
  <1>1. j \in DOMAIN tx[s].rows \ DOMAIN tx[s].attempts /\ job[j] \in JobRow
    BY OwnLocks, Committed
  <1>2. RowAlone(tx[s], j)
    BY <1>1, Running DEF LocksInv
  <1>3. CASE LeftQueue(job[j], tx[s].rows[j], tx[s].at)
    BY <1>1, <1>3, LeftQueueFields
  <1>4. CASE FlagRaised(job[j], tx[s].rows[j])
    BY <1>4 DEF FlagRaised, Queued
  <1> QED BY <1>2, <1>3, <1>4 DEF RowAlone

\* A statement keeps the lock it has, and what it finds about the queue.
Passed(s) ==
    /\ Elsewhere(s)
    /\ tx'[s] = Idle \/ tx'[s].op = tx[s].op
    /\ QueueInv(tx[s])'

LEMMA OldestSame ==
    ASSUME UNCHANGED vars, NEW j, NEW t, Oldest(j, t)
    PROVE  Oldest(j, t)'
  BY DEF Oldest, Queued, QueueDeadline, OlderThan, vars

LEMMA EndPasses ==
    ASSUME tx \in [Sessions -> Transaction], NEW s \in Sessions, End(s)
    PROVE  Passed(s)
  <1>1. Elsewhere(s) /\ tx'[s] = Idle
    BY Leaving
  <1> QED BY <1>1, IdleTransaction DEF Passed, QueueInv

LEMMA QuietPasses ==
    ASSUME NEW s \in Sessions, NEW pc, pc \notin {"insert", "start", "own", "commit"},
           Elsewhere(s), Left(s, pc)
    PROVE  Passed(s)
  BY DEF Passed, Left, SameCall, QueueInv

LEMMA CommitPasses ==
    ASSUME PgInv', NEW s \in Sessions, Elsewhere(s), Left(s, "commit"),
           \A j \in DOMAIN tx'[s].rows \cap DOMAIN tx'[s].attempts :
             tx'[s].rows[j].status # "processing"
    PROVE  Passed(s)
  <1>1. OthersQuiet'
    BY QuietCommits, PTL
  <1> QED BY <1>1 DEF OthersQuiet, Passed, Left, SameCall

\* Before the first lock and in "expire" no attempt is locked.
LEMMA RowsPass ==
    ASSUME PgInv, PgInv', NEW s \in Sessions, tx[s].pc \in Opening \cup {"expire"}, NEW written,
           WriteRows(s, "commit", written)
    PROVE  Passed(s)
  <1>1. Elsewhere(s) /\ Left(s, "commit") /\ tx'[s].attempts = tx[s].attempts
    BY Leaving, Committed
  <1>2. DOMAIN tx[s].attempts = {}
    <2>1. tx[s].pc # "idle"
      BY DEF Opening, Methods, Publications
    <2> QED BY <2>1, Running DEF LocksInv
  <1> QED BY <1>1, <1>2, CommitPasses

\* Statements that end, go on to a quiet one, or write rows alone.
LEMMA PlainStatementsPass ==
    ASSUME PgInv, PgInv', NEW s \in Sessions,
           \/ ExpireSelect(s) \/ ExpireUpdate(s) \/ ClaimTimeout(s) \/ RecoverFinish(s)
           \/ CancelQueued(s) \/ CancelProcessing(s) \/ PublishUpdate(s)
    PROVE  UNCHANGED vars /\ Passed(s)
  <1>1. tx \in [Sessions -> Transaction]
    BY Committed
  <1>2. UNCHANGED vars
    BY DEF ExpireSelect, ExpireUpdate, ClaimTimeout, RecoverFinish, CancelQueued,
           CancelProcessing, PublishUpdate, Statement
  <1>3. ASSUME NEW pc \in {"expire", "head", "clear claims", "clear claim"}, NEW written,
               Goto(s, pc) \/ WriteRows(s, pc, written)
        PROVE  Passed(s)
    <2>1. Elsewhere(s) /\ Left(s, pc)
      BY <1>1, <1>3, Leaving
    <2> QED BY <2>1, QuietPasses
  <1> SUFFICES Passed(s)
    BY <1>2
  <1>4. CASE End(s)
    BY <1>1, <1>4, EndPasses
  <1>5. ASSUME NEW written, WriteRows(s, "commit", written),
               tx[s].pc \in {"expire", "claim_dispatch", "cancel", "flag"}
        PROVE  Passed(s)
    BY <1>5, RowsPass DEF Opening, Methods
  <1>6. CASE ExpireSelect(s)
    <2>1. End(s) \/ \E written : WriteRows(s, "expire", written)
      BY <1>6, Zenon DEF ExpireSelect
    <2> QED BY <1>3, <1>4, <2>1
  <1>7. CASE ExpireUpdate(s)
    <2>1. tx[s].pc = "expire" /\ \E written : WriteRows(s, "commit", written)
      BY <1>7, Zenon DEF ExpireUpdate, At
    <2> QED BY <1>5, <2>1
  <1>8. CASE ClaimTimeout(s)
    <2>1. /\ tx[s].pc = "claim_dispatch"
          /\ Goto(s, "head") \/ \E written : WriteRows(s, "commit", written)
      BY <1>8, Zenon DEF ClaimTimeout, At
    <2> QED BY <1>3, <1>5, <2>1
  <1>9. CASE RecoverFinish(s)
    <2>1. End(s) \/ \E written : WriteRows(s, "clear claims", written)
      BY <1>9, Zenon DEF RecoverFinish, Raise
    <2> QED BY <1>3, <1>4, <2>1
  <1>10. CASE CancelQueued(s)
    <2>1. tx[s].pc = "cancel" /\ (End(s) \/ \E written : WriteRows(s, "commit", written))
      BY <1>10, Zenon DEF CancelQueued, Raise, At
    <2> QED BY <1>4, <1>5, <2>1
  <1>11. CASE CancelProcessing(s)
    <2>1. tx[s].pc = "flag" /\ (End(s) \/ \E written : WriteRows(s, "commit", written))
      BY <1>11, Zenon DEF CancelProcessing, At
    <2> QED BY <1>4, <1>5, <2>1
  <1>12. CASE PublishUpdate(s)
    <2>1. End(s) \/ \E written : WriteRows(s, "clear claim", written)
      BY <1>12, Zenon DEF PublishUpdate
    <2> QED BY <1>3, <1>4, <2>1
  <1> QED BY <1>6, <1>7, <1>8, <1>9, <1>10, <1>11, <1>12

\* The others that start no job: renewals, recovery, cleanup, publication.
LEMMA AttemptStatementsPass ==
    ASSUME PgInv, PgInv', NEW s \in Sessions,
           \/ HeartbeatUpdate(s) \/ RecoverClear(s) \/ PublishClear(s)
    PROVE  UNCHANGED vars /\ Passed(s)
  <1>1. tx \in [Sessions -> Transaction]
    BY Committed
  <1>2. UNCHANGED vars
    BY DEF HeartbeatUpdate, RecoverClear, PublishClear, Statement
  <1>3. CASE End(s)
    BY <1>1, <1>2, <1>3, EndPasses
  <1>4. ASSUME NEW written, WriteAttempts(s, "commit", written),
               \A j \in DOMAIN tx[s].rows : tx[s].rows[j].status # "processing"
        PROVE  Passed(s)
    <2>1. Elsewhere(s) /\ Left(s, "commit") /\ tx'[s].rows = tx[s].rows
      BY <1>1, <1>4, Leaving
    <2> QED BY <1>4, <2>1, CommitPasses
  <1>5. CASE HeartbeatUpdate(s)
    <2>1. tx[s].pc = "heartbeat_claims"
      BY <1>5 DEF HeartbeatUpdate, At
    <2>2. DOMAIN tx[s].rows = {}
      BY <2>1, Running DEF LocksInv, Opening, Methods
    <2> QED BY <1>2, <1>4, <1>5, <2>2 DEF HeartbeatUpdate
  <1>6. ASSUME tx[s].pc \in {"clear claims", "clear claim"}
        PROVE  \A j \in DOMAIN tx[s].rows : tx[s].rows[j].status # "processing"
    <2> SUFFICES ASSUME NEW j \in DOMAIN tx[s].rows
                 PROVE  tx[s].rows[j].status # "processing"
      OBVIOUS
    <2>1. Concluded(job[j], tx[s].rows[j], tx[s].at) /\ tx[s].at \in Time
      <3>1. LocksInv(tx[s]) /\ ArgumentsInv(tx[s])
        BY <1>6, Running
      <3>2. CASE tx[s].pc = "clear claims"
        BY <3>1, <3>2 DEF LocksInv, ArgumentsInv
      <3>3. CASE tx[s].pc = "clear claim"
        <4>1. j = tx[s].j /\ Concluded(job[tx[s].j], tx[s].rows[tx[s].j], tx[s].at)
          BY <3>1, <3>3 DEF LocksInv
        <4> QED BY <3>1, <4>1 DEF ArgumentsInv
      <3> QED BY <1>6, <3>2, <3>3
    <2>2. job[j] \in JobRow
      BY OwnLocks, Committed
    <2>3. ASSUME NEW q, q = tx[s].rows[j] PROVE q.status = "finished"
      BY <2>1, <2>2, <2>3, ConcludedFields, Zenon
    <2> QED BY <2>3
  <1>7. CASE RecoverClear(s)
    <2>1. tx[s].pc = "clear claims"
      BY <1>7 DEF RecoverClear, At
    <2> QED BY <1>2, <1>3, <1>4, <1>6, <1>7, <2>1 DEF RecoverClear, Raise
  <1>8. CASE PublishClear(s)
    <2>1. tx[s].pc = "clear claim"
      BY <1>8 DEF PublishClear, At
    <2> QED BY <1>2, <1>3, <1>4, <1>6, <1>8, <2>1 DEF PublishClear, Raise
  <1> QED BY <1>5, <1>7, <1>8

LEMMA SelectsPass ==
    ASSUME PgInv, NEW s \in Sessions, RecoverSelect(s) \/ CancelSelect(s)
    PROVE  UNCHANGED vars /\ Passed(s)
  <1>1. tx \in [Sessions -> Transaction] /\ tx[s] \in Transaction
    BY Committed
  <1>2. UNCHANGED vars
    BY DEF RecoverSelect, CancelSelect, Statement
  <1>3. CASE End(s)
    BY <1>1, <1>2, <1>3, EndPasses
  <1>4. ASSUME NEW p \in Transaction, NEW batch, NEW flagged, NEW attempts
        PROVE  LET e == [p EXCEPT !.pc = "recover", !.batch = batch, !.flagged = flagged,
                                  !.attempts = attempts]
               IN  e.pc = "recover" /\ e.op = p.op
    BY DEF Transaction
  <1>c. ASSUME NEW p \in Transaction, NEW at
        PROVE  /\ [p EXCEPT !.pc = "cancel", !.at = at].pc = "cancel"
               /\ [p EXCEPT !.pc = "cancel", !.at = at].op = p.op
               /\ [p EXCEPT !.pc = "flag"].pc = "flag" /\ [p EXCEPT !.pc = "flag"].op = p.op
    BY DEF Transaction
  <1>5. ASSUME Elsewhere(s), tx'[s].pc \in {"recover", "cancel", "flag"}, tx'[s].op = tx[s].op
        PROVE  Passed(s)
    BY <1>5 DEF Passed, QueueInv
  <1>6. CASE RecoverSelect(s)
    <2>1. CASE ExpiredAt(s) # {}
      <3> DEFINE flagged == {j \in ExpiredAt(s) : Cancelling(j)}
                 attempts == [j \in ExpiredAt(s) |-> claim[j]]
      <3>1. /\ Elsewhere(s)
            /\ tx'[s] = [tx[s] EXCEPT !.pc = "recover", !.batch = ExpiredAt(s),
                                      !.flagged = flagged, !.attempts = attempts]
        BY <1>1, <1>6, <2>1 DEF RecoverSelect, Elsewhere
      <3> HIDE DEF flagged, attempts
      <3>2. tx'[s].pc \in {"recover", "cancel", "flag"} /\ tx'[s].op = tx[s].op
        BY <1>1, <1>4, <3>1
      <3> QED BY <1>2, <1>5, <3>1, <3>2
    <2>2. CASE ExpiredAt(s) = {}
      BY <1>3, <1>6, <2>2 DEF RecoverSelect
    <2> QED BY <2>1, <2>2
  <1>7. CASE CancelSelect(s)
    <2>1. /\ Elsewhere(s)
          /\ \/ tx'[s] = [tx[s] EXCEPT !.pc = "cancel", !.at = now]
             \/ tx'[s] = [tx[s] EXCEPT !.pc = "flag"]
             \/ tx'[s] = Idle
      BY <1>1, <1>7 DEF CancelSelect, Elsewhere
    <2>2. CASE tx'[s] = Idle
      BY <1>2, <2>1, <2>2, IdleTransaction DEF Passed, QueueInv
    <2>3. CASE \/ tx'[s] = [tx[s] EXCEPT !.pc = "cancel", !.at = now]
               \/ tx'[s] = [tx[s] EXCEPT !.pc = "flag"]
      <3>1. tx'[s].pc \in {"recover", "cancel", "flag"} /\ tx'[s].op = tx[s].op
        <4>1. CASE tx'[s] = [tx[s] EXCEPT !.pc = "cancel", !.at = now]
          BY <1>1, <1>c, <4>1
        <4>2. CASE tx'[s] = [tx[s] EXCEPT !.pc = "flag"]
          BY <1>1, <1>c, <4>2
        <4> QED BY <2>3, <4>1, <4>2
      <3> QED BY <1>2, <1>5, <2>1, <3>1
    <2> QED BY <2>1, <2>2, <2>3
  <1> QED BY <1>6, <1>7

LEMMA DeletePasses ==
    ASSUME PgInv, PgInv', NEW s \in Sessions, Delete(s)
    PROVE  UNCHANGED vars /\ Passed(s)
  <1> DEFINE old == {j \in Jobs : Finished(j) /\ job[j].finishedAt <= tx[s].at - Retention}
             rows == [j \in old |-> AbsentRow]
             attempts == [j \in old |-> NoClaim]
  <1>1. tx \in [Sessions -> Transaction] /\ tx[s] \in Transaction
    BY Committed
  <1>2. /\ UNCHANGED vars /\ Elsewhere(s)
        /\ tx'[s] = [tx[s] EXCEPT !.pc = "commit", !.rows = rows, !.attempts = attempts]
    BY <1>1 DEF Delete, Statement, Elsewhere
  <1>3. \A j \in DOMAIN rows : rows[j].status # "processing"
    BY DEF AbsentRow
  <1> HIDE DEF rows, attempts
  <1>4. ASSUME NEW p \in Transaction, NEW q,
               q = [p EXCEPT !.pc = "commit", !.rows = rows, !.attempts = attempts]
        PROVE  q.pc = "commit" /\ SameCall(p, q) /\ q.rows = rows
    BY <1>4 DEF Transaction, SameCall
  <1>5. Left(s, "commit") /\ tx'[s].rows = rows
    BY <1>1, <1>2, <1>4 DEF Left
  <1> QED BY <1>2, <1>3, <1>5, CommitPasses

LEMMA CreateSelectPasses ==
    ASSUME PgInv, NEW s \in Sessions, CreateSelect(s)
    PROVE  UNCHANGED vars /\ Passed(s)
  <1>1. tx \in [Sessions -> Transaction] /\ tx[s] \in Transaction
    BY Committed
  <1>2. UNCHANGED vars /\ Outstanding' = Outstanding /\ job' = job
    BY DEF CreateSelect, Statement, vars, Outstanding
  <1>3. CASE End(s)
    BY <1>1, <1>2, <1>3, EndPasses
  <1>4. CASE /\ Replayed(tx[s].key) = {} /\ Cardinality(Outstanding) < MaxOutstanding
             /\ tx' = [tx EXCEPT ![s].pc = "insert", ![s].at = now]
    <2>1. Elsewhere(s) /\ tx'[s] = [tx[s] EXCEPT !.pc = "insert", !.at = now]
      BY <1>1, <1>4 DEF Elsewhere
    <2>2. ASSUME NEW p \in Transaction, NEW q, q = [p EXCEPT !.pc = "insert", !.at = now]
          PROVE  q.pc = "insert" /\ q.at = now /\ q.op = p.op /\ q.key = p.key
      BY <2>2 DEF Transaction
    <2>3. /\ tx'[s].pc = "insert" /\ tx'[s].at = now /\ tx'[s].op = tx[s].op
          /\ tx'[s].key = tx[s].key
      BY <1>1, <2>1, <2>2
    <2>4. \A j \in Jobs : job[j].submittedAt <= now
      BY Committed DEF RowInv, RowHistory
    <2>5. Replayed(tx[s].key)' = {}
      BY <1>2, <1>4, <2>3 DEF Replayed, Exists
    <2>6. QueueInv(tx[s])'
      BY <1>2, <1>4, <2>3, <2>4, <2>5 DEF QueueInv
    <2> QED BY <1>2, <2>1, <2>3, <2>6 DEF Passed
  <1> QED BY <1>3, <1>4 DEF CreateSelect

\* The lookup of the oldest claimable job.
LEMMA HeadIsOldest ==
    ASSUME NEW t, NEW j \in FirstOf(ClaimableAt(t), 1, OlderThan)
    PROVE  Oldest(j, t)
  <1> DEFINE older == {i \in ClaimableAt(t) : OlderThan(i, j)}
  <1>1. Cardinality(older) < 1
    BY DEF FirstOf
  <1>2. IsFiniteSet(Jobs)
    BY BoundsAssumption, FS_Interval DEF Jobs
  <1>3. older \subseteq Jobs
    BY DEF ClaimableAt
  <1>4. IsFiniteSet(older) /\ Cardinality(older) \in Nat
    BY <1>2, <1>3, FS_Subset, FS_CardinalityType
  <1>5. Cardinality(older) = 0
    <2> HIDE DEF older
    <2> QED BY <1>1, <1>4
  <1>6. older = {}
    BY <1>4, <1>5, FS_EmptySet
  <1> QED BY <1>6 DEF Oldest, ClaimableAt

LEMMA ClaimStatementsPass ==
    ASSUME PgInv, PgInv', NEW s \in Sessions, QueueInv(tx[s]),
           ClaimHead(s) \/ ClaimStart(s) \/ ClaimOwn(s)
    PROVE  UNCHANGED vars /\ Passed(s)
  <1>1. tx \in [Sessions -> Transaction]
    BY Committed
  <1>2. UNCHANGED vars
    BY DEF ClaimHead, ClaimStart, ClaimOwn, Statement
  <1>3. CASE End(s)
    BY <1>1, <1>2, <1>3, EndPasses
  <1>4. ASSUME NEW pc \in {"start", "own"}, Elsewhere(s), Left(s, pc), Oldest(tx[s].j, tx[s].at)
        PROVE  Passed(s)
    <2>1. tx'[s].pc = pc /\ tx'[s].j = tx[s].j /\ tx'[s].at = tx[s].at /\ tx'[s].op = tx[s].op
      BY <1>4 DEF Left, SameCall
    <2>2. ASSUME NEW j, NEW t, j = tx[s].j, t = tx[s].at, Oldest(j, t)
          PROVE  Oldest(j, t)'
      BY <1>2, <2>2, OldestSame
    <2>3. PICK j, t : j = tx[s].j /\ t = tx[s].at
      OBVIOUS
    <2>4. Oldest(j, t)'
      BY <1>4, <2>2, <2>3
    <2>5. Oldest(tx[s].j, tx[s].at)'
      BY <2>1, <2>3, <2>4 DEF Oldest
    <2>6. QueueInv(tx[s])'
      BY <2>1, <2>5 DEF QueueInv
    <2> QED BY <1>4, <2>1, <2>6 DEF Passed
  <1>5. CASE ClaimHead(s)
    <2>1. CASE Goto(s, "start") /\ tx[s].j \in FirstOf(ClaimableAt(tx[s].at), 1, OlderThan)
      <3>1. Elsewhere(s) /\ Left(s, "start")
        BY <1>1, <2>1, Leaving
      <3>2. Oldest(tx[s].j, tx[s].at)
        BY <2>1, HeadIsOldest
      <3> QED BY <1>2, <1>4, <3>1, <3>2
    <2> QED BY <1>3, <1>5, <2>1 DEF ClaimHead
  <1>6. CASE ClaimStart(s)
    <2>1. tx[s].pc = "start"
      BY <1>6 DEF ClaimStart, At
    <2>2. ASSUME NEW written, WriteRows(s, "own", written) PROVE Passed(s)
      <3>1. Elsewhere(s) /\ Left(s, "own")
        BY <1>1, <2>2, Leaving
      <3>2. Oldest(tx[s].j, tx[s].at)
        BY <2>1 DEF QueueInv
      <3> QED BY <1>4, <3>1, <3>2
    <2> QED BY <1>2, <1>3, <1>6, <2>2 DEF ClaimStart
  <1>7. CASE ClaimOwn(s)
    <2>1. tx[s].pc = "own"
      BY <1>7 DEF ClaimOwn, At
    <2>2. ASSUME NEW written, WriteAttempts(s, "commit", written) PROVE Passed(s)
      <3>1. Elsewhere(s) /\ Left(s, "commit") /\ tx'[s].rows = tx[s].rows
        BY <1>1, <2>2, Leaving
      <3>2. /\ tx'[s].pc = "commit" /\ tx'[s].at = tx[s].at /\ tx'[s].op = tx[s].op
        BY <3>1 DEF Left, SameCall
      <3>3. tx[s].op = "claim_dispatch" /\ DOMAIN tx[s].rows = {tx[s].j}
        BY <2>1, Running DEF MethodOf, LocksInv
      <3>4. Oldest(tx[s].j, tx[s].at)
        BY <2>1 DEF QueueInv
      <3>5. ASSUME NEW j, NEW t, j = tx[s].j, t = tx[s].at
            PROVE  Oldest(j, t)'
        BY <1>2, <3>4, <3>5, OldestSame
      <3>6. PICK j, t : j = tx[s].j /\ t = tx[s].at
        OBVIOUS
      <3>7. Oldest(j, t)'
        BY <3>5, <3>6
      <3>8. \A i \in DOMAIN tx'[s].rows : i = j
        BY <3>1, <3>3, <3>6
      <3>9. \A i \in DOMAIN tx'[s].rows : Oldest(i, tx[s].at)'
        BY <3>2, <3>6, <3>7, <3>8 DEF Oldest
      <3>10. QueueInv(tx[s])'
        BY <3>2, <3>3, <3>9 DEF QueueInv
      <3> QED BY <3>1, <3>2, <3>10 DEF Passed
    <2> QED BY <1>2, <1>3, <1>7, <2>2 DEF ClaimOwn, Raise
  <1> QED BY <1>5, <1>6, <1>7

-----------------------------------------------------------------------------
(* The queue invariant holds. *)

LEMMA StatementPasses ==
    ASSUME PgInv, PgInv', NEW s \in Sessions, QueueInv(tx[s]), Run(s), ~Commit(s),
           ~\E request \in Requests : CreateInsert(s, request)
    PROVE  UNCHANGED vars /\ Passed(s) /\ Busy(s)
  <1>1. UNCHANGED vars /\ Passed(s)
    <2>1. CASE CreateSelect(s)
      BY <2>1, CreateSelectPasses
    <2>2. CASE \/ ExpireSelect(s) \/ ExpireUpdate(s) \/ ClaimTimeout(s) \/ RecoverFinish(s)
               \/ CancelQueued(s) \/ CancelProcessing(s) \/ PublishUpdate(s)
      BY <2>2, PlainStatementsPass
    <2>3. CASE HeartbeatUpdate(s) \/ RecoverClear(s) \/ PublishClear(s)
      BY <2>3, AttemptStatementsPass
    <2>4. CASE RecoverSelect(s) \/ CancelSelect(s)
      BY <2>4, SelectsPass
    <2>5. CASE Delete(s)
      BY <2>5, DeletePasses
    <2>6. CASE ClaimHead(s) \/ ClaimStart(s) \/ ClaimOwn(s)
      BY Zenon, <2>6, ClaimStatementsPass
    <2> QED BY <2>1, <2>2, <2>3, <2>4, <2>5, <2>6 DEF Run
  <1>2. tx[s].pc # "idle"
    BY DEF Run, At, CreateSelect, ExpireSelect, ExpireUpdate, ClaimTimeout, ClaimHead,
           ClaimStart, ClaimOwn, HeartbeatUpdate, RecoverSelect, RecoverFinish, RecoverClear,
           Delete, CancelSelect, CancelQueued, CancelProcessing, PublishUpdate, PublishClear
  <1> QED BY <1>1, <1>2 DEF Busy, At

\* Rows that nobody commits to keep their place in the queue.
LEMMA SameQueue ==
    ASSUME PgInv, PgInv', NEW t \in Sessions, QueueInv(tx[t]), tx'[t] = tx[t],
           QueueShrinks, \A j \in DOMAIN tx[t].rows : job'[j] = job[j]
    PROVE  QueueInv(tx[t])'
  <1>1. /\ tx[t] \in Transaction /\ TxInv(tx[t]) /\ StoreInv /\ StoreInv'
        /\ \A j \in DOMAIN tx[t].rows : j \in Jobs
    BY OwnLocks DEF PgInv
  <1>2. ASSUME NEW p \in Transaction, p = tx[t] PROVE QueueInv(p)'
    BY <1>1, <1>2, QueueStable
  <1>3. PICK p \in Transaction : p = tx[t]
    BY <1>1
  <1>4. QueueInv(p)'
    BY <1>2, <1>3
  <1> QED BY <1>3, <1>4 DEF QueueInv

LEMMA UnchangedQueue ==
    ASSUME PgInv, UNCHANGED job
    PROVE  QueueShrinks
  BY DEF QueueShrinks, Outstanding, Queued, Exists

LEMMA UnchangedOrder ==
    ASSUME PgInv, NoOvertaking, UNCHANGED <<lastId, job>>, now' \in Time, now' >= now
    PROVE  NoOvertaking'
  <1> SUFFICES ASSUME NEW i \in Jobs, NEW j \in Jobs, i \in Eligible', Exists(j)',
                      job'[j].startedAt # NoTime
               PROVE  ~OlderThan(i, j)'
    BY DEF NoOvertaking
  <1>1. now \in Int /\ now' \in Int /\ job[i].submittedAt \in Int /\ QueueTimeout \in Int
    <2>1. job[i] \in JobRow /\ now \in Time
      BY Committed
    <2>2. job[i].submittedAt \in Int
      BY <2>1 DEF JobRow, Time, NoTime
    <2> QED BY <2>1, <2>2, PolicyAssumption DEF Time
  <1>2. i \in Eligible /\ Exists(j) /\ job[j].startedAt # NoTime
    BY <1>1 DEF Eligible, Queued, DeadlineReached, QueueDeadline, Exists
  <1> QED BY <1>2 DEF NoOvertaking, OlderThan

\* A session that has the advisory lock already had it, or nobody else does.
LEMMA LockKept ==
    ASSUME LockInv, NEW s \in Sessions, Elsewhere(s),
           HoldsLifecycleLock(s)' => HoldsLifecycleLock(s) \/ LifecycleLockFree(s)
    PROVE  LockInv'
  <1>1. \A t \in Sessions \ {s} : HoldsLifecycleLock(t)' => HoldsLifecycleLock(t)
    BY DEF Elsewhere, HoldsLifecycleLock, Busy, At
  <1>2. ASSUME NEW t \in Sessions \ {s}, HoldsLifecycleLock(s)'
        PROVE  ~HoldsLifecycleLock(t)
    BY <1>2 DEF LockInv, LifecycleLockFree
  <1> QED BY <1>1, <1>2 DEF LockInv

LEMMA PassedKeeps ==
    ASSUME SessionsInv, PgInv', UNCHANGED vars, NEW s \in Sessions, Passed(s),
           HoldsLifecycleLock(s)' => HoldsLifecycleLock(s) \/ LifecycleLockFree(s)
    PROVE  SessionsInv'
  <1>1. LockInv'
    BY LockKept DEF SessionsInv, Passed
  <1>2. NoOvertaking'
    <2>1. now' = now /\ now \in Time /\ UNCHANGED <<lastId, job>>
      BY Committed DEF vars, SessionsInv
    <2>2. now' \in Time /\ now' >= now
      BY <2>1 DEF Time
    <2> QED BY <2>1, <2>2, UnchangedOrder DEF SessionsInv
  <1>3. ASSUME NEW t \in Sessions PROVE QueueInv(tx[t])'
    <2>1. CASE t = s
      BY <2>1 DEF Passed
    <2>2. CASE t # s
      <3>1. QueueShrinks /\ job' = job
        BY UnchangedQueue DEF vars, SessionsInv
      <3>2. tx'[t] = tx[t] /\ QueueInv(tx[t])
        BY <2>2 DEF Passed, Elsewhere, SessionsInv
      <3> QED BY <3>1, <3>2, SameQueue DEF SessionsInv
    <2> QED BY <2>1, <2>2
  <1> QED BY <1>1, <1>2, <1>3 DEF SessionsInv

\* A statement or a rollback takes no lock that it does not have.
LEMMA RunningLock ==
    ASSUME NEW s \in Sessions, Passed(s), Busy(s)
    PROVE  HoldsLifecycleLock(s)' => HoldsLifecycleLock(s)
  <1>1. CASE tx'[s] = Idle
    BY <1>1, IdleTransaction DEF HoldsLifecycleLock, Busy, At
  <1>2. CASE tx'[s].op = tx[s].op
    BY <1>2 DEF HoldsLifecycleLock
  <1> QED BY <1>1, <1>2 DEF Passed

LEMMA BeginQueue ==
    ASSUME SessionsInv, PgInv', NEW s \in Sessions, NEW op \in Methods, NEW j, NEW w, NEW key,
           NEW batch, Begin(s, op, j, w, key, batch)
    PROVE  SessionsInv'
  <1> DEFINE q == [Idle EXCEPT !.op = op, !.pc = op, !.at = now, !.j = j,
                               !.w = w, !.key = key, !.batch = batch]
  <1>1. /\ UNCHANGED vars /\ (Serialized(op) => LifecycleLockFree(s))
        /\ tx' = [tx EXCEPT ![s] = q] /\ tx \in [Sessions -> Transaction]
    BY Committed DEF Begin, Statement, SessionsInv
  <1>2. q.pc = op /\ q.op = op
    BY DEF Idle
  <1> HIDE DEF q
  <1>3. Elsewhere(s) /\ tx'[s].pc = op /\ tx'[s].op = op
    BY <1>1, <1>2 DEF Elsewhere
  <1>4. op \notin {"insert", "start", "own", "commit"}
    BY DEF Methods, Publications
  <1>5. QueueInv(tx[s])'
    BY <1>3, <1>4 DEF QueueInv
  <1>6. HoldsLifecycleLock(s)' => LifecycleLockFree(s)
    BY <1>1, <1>3 DEF HoldsLifecycleLock
  <1>7. LockInv'
    BY <1>3, <1>6, LockKept DEF SessionsInv
  <1>8. NoOvertaking'
    <2>1. now' = now /\ now \in Time /\ UNCHANGED <<lastId, job>>
      BY <1>1, Committed DEF vars, SessionsInv
    <2>2. now' \in Time /\ now' >= now
      BY <2>1 DEF Time
    <2> QED BY <2>1, <2>2, UnchangedOrder DEF SessionsInv
  <1>9. ASSUME NEW t \in Sessions PROVE QueueInv(tx[t])'
    <2>1. CASE t # s
      <3>1. QueueShrinks /\ job' = job
        BY <1>1, UnchangedQueue DEF vars, SessionsInv
      <3>2. tx'[t] = tx[t] /\ QueueInv(tx[t])
        BY <1>3, <2>1 DEF Elsewhere, SessionsInv
      <3> QED BY <3>1, <3>2, SameQueue DEF SessionsInv
    <2> QED BY <1>5, <2>1
  <1> QED BY <1>7, <1>8, <1>9 DEF SessionsInv

LEMMA CallQueue ==
    ASSUME SessionsInv, PgInv', Call
    PROVE  SessionsInv'
  <1>1. \E s \in Sessions, op \in Methods : \E j, w, key, batch : Begin(s, op, j, w, key, batch)
    BY Zenon DEF Call, Sessions, Methods, Publications
  <1> QED BY <1>1, BeginQueue

\* A commit starts the oldest claimable job, if any, and admits nobody.
LEMMA CommitQueue ==
    ASSUME SessionsInv, PgInv', NEW s \in Sessions, Commit(s)
    PROVE  SessionsInv'
  <1>1. PgInv /\ LockInv /\ NoOvertaking /\ \A t \in Sessions : QueueInv(tx[t])
    BY DEF SessionsInv
  <1>2. /\ Elsewhere(s) /\ tx'[s] = Idle /\ tx[s].pc = "commit" /\ now' = now
        /\ \A j \in Jobs : job'[j] = IF j \in DOMAIN tx[s].rows THEN tx[s].rows[j] ELSE job[j]
    BY <1>1, CommitEffect DEF OnlyTx, Elsewhere
  <1>3. /\ now \in Time /\ tx[s].at \in Time /\ tx[s].at <= now
        /\ \A j \in Jobs : job[j] \in JobRow
    BY <1>1, <1>2, Running, Committed DEF ArgumentsInv
  <1>4. ASSUME NEW j \in Jobs
        PROVE  /\ Queued(j)' => Queued(j)
               /\ \/ job'[j].submittedAt = job[j].submittedAt
                  \/ ~Exists(j)' /\ job'[j].submittedAt = NoTime
               /\ Exists(j)' => Exists(j) /\ job'[j].key = job[j].key
               /\ j \in Outstanding' => j \in Outstanding
               /\ \/ job'[j].startedAt = job[j].startedAt
                  \/ job'[j].startedAt = NoTime
                  \/ Queued(j) /\ Processing(j)'
    <2>1. Change(j, tx[s].at)
      BY <1>1, CommitChanges
    <2> QED BY <1>3, <2>1, ChangeLeavesQueue
  <1>5. QueueShrinks
    <2>1. Outstanding' \subseteq Outstanding
      BY <1>4 DEF Outstanding
    <2> QED BY <1>4, <2>1 DEF QueueShrinks
  <1>6. LockInv'
    <2>1. ~HoldsLifecycleLock(s)'
      BY <1>2, IdleTransaction DEF HoldsLifecycleLock, Busy, At
    <2> QED BY <1>1, <1>2, <2>1, LockKept
  <1>7. ASSUME NEW t \in Sessions PROVE QueueInv(tx[t])'
    <2>1. CASE t = s
      BY <1>2, <2>1, IdleTransaction DEF QueueInv
    <2>2. CASE t # s
      <3>1. tx'[t] = tx[t]
        BY <1>2, <2>2 DEF Elsewhere
      <3>2. \A j \in DOMAIN tx[t].rows : job'[j] = job[j]
        BY <1>1, <2>2, CommitUndisturbing DEF Undisturbed
      <3> QED BY <1>1, <1>5, <3>1, <3>2, SameQueue
    <2> QED BY <2>1, <2>2
  <1>8. NoOvertaking'
    <2> SUFFICES ASSUME NEW i \in Jobs, NEW j \in Jobs, i \in Eligible', Exists(j)',
                        job'[j].startedAt # NoTime
                 PROVE  ~OlderThan(i, j)'
      BY DEF NoOvertaking
    <2>1. /\ Queued(i) /\ job'[i].submittedAt = job[i].submittedAt
          /\ Exists(j) /\ job'[j].submittedAt = job[j].submittedAt
      BY <1>4 DEF Eligible, Queued, Exists
    <2>2. i \in Eligible
      BY <1>2, <2>1 DEF Eligible, DeadlineReached, QueueDeadline
    <2>3. ~OlderThan(i, j)
      <3>1. CASE job'[j].startedAt = job[j].startedAt
        BY <1>1, <2>1, <2>2, <3>1 DEF NoOvertaking
      <3>2. CASE Queued(j) /\ Processing(j)'
        <4>1. job'[j] # job[j]
          BY <3>2 DEF Queued, Processing
        <4>2. j \in DOMAIN tx[s].rows /\ tx[s].rows[j].status = "processing"
          BY <1>2, <3>2, <4>1 DEF Processing
        <4>3. Oldest(j, tx[s].at)
          BY <1>1, <1>2, <3>2, <4>2 DEF QueueInv
        <4>4. QueueDeadline(i) > tx[s].at
          <5>1. job[i].submittedAt \in Int
            BY <1>3 DEF JobRow, Time, NoTime
          <5>2. ~(job[i].submittedAt + QueueTimeout <= now)
            BY <2>2 DEF Eligible, DeadlineReached, QueueDeadline
          <5> QED BY <1>3, <5>1, <5>2, PolicyAssumption DEF QueueDeadline, Time
        <4> QED BY <2>1, <4>3, <4>4 DEF Oldest
      <3> QED BY <1>4, <3>1, <3>2
    <2> QED BY <2>1, <2>3 DEF OlderThan
  <1> QED BY <1>6, <1>7, <1>8 DEF SessionsInv

\* A submission joins the end of the queue, and nobody else is claiming.
LEMMA InsertQueue ==
    ASSUME SessionsInv, PgInv', NEW s \in Sessions, NEW request \in Requests,
           CreateInsert(s, request)
    PROVE  SessionsInv'
  <1> DEFINE id == lastId + 1
  <1>1. PgInv /\ LockInv /\ NoOvertaking /\ \A t \in Sessions : QueueInv(tx[t])
    BY DEF SessionsInv
  <1>2. /\ Elsewhere(s) /\ tx'[s] = Idle /\ tx[s].pc = "insert" /\ tx[s].op = "create_queued"
        /\ tx[s].at \in Time /\ now' = now /\ id \in Jobs /\ ~Exists(id)
        /\ \A j \in Jobs \ {id} : job'[j] = job[j]
        /\ job'[id].status = "queued" /\ job'[id].submittedAt = tx[s].at
        /\ job'[id].startedAt = NoTime
    BY <1>1, InsertEffect DEF OnlyTx, Elsewhere
  <1>3. ASSUME NEW t \in Sessions \ {s}
        PROVE  tx'[t] = tx[t] /\ ~HoldsLifecycleLock(t)
    <2>1. HoldsLifecycleLock(s)
      BY <1>2 DEF HoldsLifecycleLock, Busy, At, Serialized
    <2> QED BY <1>1, <1>2, <2>1 DEF LockInv, Elsewhere
  <1>4. LockInv'
    <2>1. ~HoldsLifecycleLock(s)'
      BY <1>2, IdleTransaction DEF HoldsLifecycleLock, Busy, At
    <2> QED BY <1>1, <1>2, <2>1, LockKept
  <1>5. ASSUME NEW t \in Sessions \ {s} PROVE QueueInv(tx[t])'
    <2>1. tx[t].pc # "idle" => ~Serialized(tx[t].op) /\ MethodOf(tx[t])
      BY <1>1, <1>3, Running DEF HoldsLifecycleLock, Busy, At
    <2>2. tx[t].pc \notin {"insert", "start", "own"}
      BY <2>1 DEF MethodOf, Serialized
    <2>3. ASSUME tx[t].pc = "commit", NEW j \in DOMAIN tx[t].rows,
                 tx[t].rows[j].status = "processing", Queued(j)'
          PROVE  FALSE
      <3>1. j \in Jobs /\ Exists(j)
        <4>1. tx[t] \in Transaction /\ TxInv(tx[t])
          BY <1>1 DEF PgInv
        <4> QED BY <1>1, <4>1, OwnLocks, LockedExist
      <3>2. Queued(j)
        BY <1>2, <2>3, <3>1 DEF Queued
      <3>3. tx[t].op = "claim_dispatch"
        BY <1>1, <2>3, <3>2 DEF QueueInv
      <3> QED BY <2>1, <2>3, <3>3 DEF Serialized
    <2> QED BY <1>3, <2>2, <2>3 DEF QueueInv
  <1>6. QueueInv(tx[s])'
    BY <1>2, IdleTransaction DEF QueueInv
  <1>7. NoOvertaking'
    <2> SUFFICES ASSUME NEW i \in Jobs, NEW j \in Jobs, i \in Eligible', Exists(j)',
                        job'[j].startedAt # NoTime
                 PROVE  ~OlderThan(i, j)'
      BY DEF NoOvertaking
    <2>1. j # id /\ job'[j] = job[j] /\ Exists(j)
      BY <1>2 DEF Exists
    <2>2. CASE i # id
      <3>1. job'[i] = job[i] /\ i \in Eligible
        BY <1>2, <2>2 DEF Eligible, Queued, DeadlineReached, QueueDeadline
      <3>2. ~OlderThan(i, j)
        BY <1>1, <2>1, <3>1 DEF NoOvertaking
      <3> QED BY <2>1, <3>1, <3>2 DEF OlderThan
    <2>3. CASE i = id
      <3>1. j <= lastId /\ job[j] \in JobRow /\ lastId \in Nat /\ j \in Nat
        BY <1>1, <2>1, Committed DEF RowInv, RowHistory, Jobs
      <3>2. job[j].submittedAt <= tx[s].at /\ job[j].submittedAt \in Int /\ tx[s].at \in Int
        <4>1. job[j].submittedAt \in Int
          BY <3>1 DEF JobRow, Time, NoTime
        <4> QED BY <1>1, <1>2, <4>1 DEF QueueInv, Time
      <3> QED BY <1>2, <2>1, <2>3, <3>1, <3>2 DEF OlderThan
    <2> QED BY <2>2, <2>3
  <1> QED BY <1>4, <1>5, <1>6, <1>7 DEF SessionsInv

LEMMA SessionsStep == SessionsInv /\ PgInv' /\ [PgNext]_pgVars => SessionsInv'
  <1> SUFFICES ASSUME SessionsInv, PgInv', [PgNext]_pgVars PROVE SessionsInv'
    OBVIOUS
  <1>1. PgInv /\ LockInv /\ NoOvertaking /\ \A s \in Sessions : QueueInv(tx[s])
    BY DEF SessionsInv
  <1>2. CASE Call
    BY <1>2, CallQueue
  <1>3. CASE PgTick \/ UNCHANGED pgVars
    <2>1. UNCHANGED <<lastId, job, tx>> /\ now' >= now /\ now' \in Time
      <3>1. now \in Nat
        BY <1>1, Committed DEF Time
      <3> QED BY <1>3, <3>1 DEF PgTick, Tick, pgVars, vars, Time
    <2>2. NoOvertaking'
      BY <1>1, <2>1, UnchangedOrder
    <2>3. LockInv'
      BY <1>1, <2>1 DEF LockInv, HoldsLifecycleLock, Busy, At
    <2>4. \A t \in Sessions : QueueInv(tx[t])'
      <3>1. QueueShrinks
        BY <1>1, <2>1, UnchangedQueue
      <3> QED BY <1>1, <2>1, <3>1, SameQueue
    <2> QED BY <2>2, <2>3, <2>4 DEF SessionsInv
  <1>4. ASSUME NEW s \in Sessions, Commit(s) PROVE SessionsInv'
    BY <1>4, CommitQueue
  <1>5. ASSUME NEW s \in Sessions, NEW request \in Requests, CreateInsert(s, request)
        PROVE  SessionsInv'
    BY <1>5, InsertQueue
  <1>6. ASSUME NEW s \in Sessions, Run(s), ~Commit(s),
               ~\E request \in Requests : CreateInsert(s, request)
        PROVE  SessionsInv'
    <2>1. UNCHANGED vars /\ Passed(s) /\ Busy(s)
      BY <1>1, <1>6, StatementPasses
    <2> QED BY <2>1, RunningLock, PassedKeeps
  <1>7. ASSUME NEW s \in Sessions, Rollback(s) PROVE SessionsInv'
    <2>1. UNCHANGED vars /\ Busy(s) /\ End(s)
      BY <1>7 DEF Rollback, Statement
    <2>2. Passed(s)
      BY <1>1, <2>1, Committed, EndPasses
    <2> QED BY <2>1, <2>2, RunningLock, PassedKeeps
  <1> QED BY <1>2, <1>3, <1>4, <1>5, <1>6, <1>7 DEF PgNext

LEMMA SessionsInit == PgInit => SessionsInv
  <1> SUFFICES ASSUME PgInit PROVE SessionsInv
    OBVIOUS
  <1>1. PgInv
    BY PgInitInv
  <1>2. Init /\ \A s \in Sessions : tx[s] = Idle
    BY DEF PgInit
  <1>3. NoOvertaking
    BY <1>2 DEF Init, NoOvertaking, Exists, AbsentRow
  <1>4. LockInv
    BY <1>2, IdleTransaction DEF LockInv, HoldsLifecycleLock, Busy, At
  <1>5. \A s \in Sessions : QueueInv(tx[s])
    BY <1>2, IdleTransaction DEF QueueInv
  <1> QED BY <1>1, <1>3, <1>4, <1>5 DEF SessionsInv

\* The invariant with the queue and the advisory lock holds in every
\* reachable state of the sessions.
THEOREM SessionsInvariant == PgSpec => []SessionsInv
  BY SessionsInit, SessionsStep, PgInvariant, PTL DEF PgSpec

\* FIFO survives the interleaving of statements: a queue expiry or a renewal
\* between the FIFO lookup of a claim and its commit, or between the capacity
\* count and the INSERT of a submission, lets no job overtake another.
THEOREM SessionsFifo == PgSpec => []NoOvertaking
  <1>1. SessionsInv => NoOvertaking
    BY DEF SessionsInv
  <1> QED BY <1>1, SessionsInvariant, PTL

-----------------------------------------------------------------------------
(* Recovery: the flags it selected are the flags it finds. *)

FlagsInv ==
    \A s \in Sessions :
        At(s, "recover") => \A j \in tx[s].batch : Cancelling(j) <=> j \in tx[s].flagged

RecoveryInv == FlagsInv /\ RowCountsAgree

\* Only a holder of the advisory lock raises a flag.  What commits between
\* the SELECT and the UPDATEs of a recovery holds none.
LEMMA FlagsStay ==
    ASSUME PgInv, LockInv, NEW s \in Sessions, Commit(s), NEW t \in Sessions \ {s},
           At(t, "recover"), NEW j \in tx[t].batch
    PROVE  job'[j] = job[j]
  <1>1. /\ tx[t].op = "recover_expired_claims" /\ tx[t].batch \subseteq Jobs
        /\ DOMAIN tx[t].attempts = tx[t].batch /\ AttemptAlone(tx[t], j)
    <2>1. tx[t].pc = "recover"
      BY DEF At
    <2>2. MethodOf(tx[t]) /\ LocksInv(tx[t]) /\ tx[t].batch \subseteq Jobs
      BY <2>1, Running
    <2> QED BY <2>1, <2>2 DEF MethodOf, LocksInv
  <1>2. /\ tx[s].pc = "commit"
        /\ job'[j] = IF j \in DOMAIN tx[s].rows THEN tx[s].rows[j] ELSE job[j]
    BY <1>1, CommitEffect
  <1>3. tx[s].op # "request_cancellation"
    <2>1. HoldsLifecycleLock(t)
      BY <1>1 DEF HoldsLifecycleLock, Busy, At, Serialized
    <2> QED BY <1>2, <2>1 DEF LockInv, HoldsLifecycleLock, Busy, At, Serialized
  <1>4. j \in DOMAIN tx[s].rows => RowAlone(tx[s], j)
    <2>1. j \notin DOMAIN tx[s].attempts
      BY <1>1 DEF PgInv, LocksExclusive
    <2> QED BY <1>1, <2>1, CommitChanges
  <1>5. ~LeftQueue(job[j], tx[s].rows[j], tx[s].at)
    BY <1>1 DEF AttemptAlone, Processing, LeftQueue
  <1> QED BY <1>2, <1>3, <1>4, <1>5 DEF RowAlone

\* The statements of recovery.
LEMMA RecoveryStatement ==
    ASSUME PgInv, RecoveryInv, NEW s \in Sessions,
           RecoverSelect(s) \/ RecoverFinish(s) \/ RecoverClear(s)
    PROVE  /\ UNCHANGED <<vars, mismatch>> /\ Elsewhere(s)
           /\ At(s, "recover")' => \A j \in tx'[s].batch : Cancelling(j) <=> j \in tx'[s].flagged
  <1>1. tx \in [Sessions -> Transaction] /\ tx[s] \in Transaction
    BY Committed
  <1>2. ASSUME End(s) PROVE Elsewhere(s) /\ ~At(s, "recover")'
    BY <1>1, <1>2, Leaving, IdleTransaction DEF At
  <1>3. CASE RecoverSelect(s)
    <2> DEFINE flagged == {j \in ExpiredAt(s) : Cancelling(j)}
               attempts == [j \in ExpiredAt(s) |-> claim[j]]
    <2>1. CASE tx' = [tx EXCEPT ![s].pc = "recover", ![s].batch = ExpiredAt(s),
                                ![s].flagged = flagged, ![s].attempts = attempts]
      <3>1. /\ Elsewhere(s)
            /\ tx'[s] = [tx[s] EXCEPT !.pc = "recover", !.batch = ExpiredAt(s),
                                      !.flagged = flagged, !.attempts = attempts]
        BY <1>1, <2>1 DEF Elsewhere
      <3> HIDE DEF attempts
      <3>2. tx'[s].batch = ExpiredAt(s) /\ tx'[s].flagged = flagged
        <4> HIDE DEF flagged
        <4>1. ASSUME NEW p \in Transaction, NEW batch
              PROVE  LET e == [p EXCEPT !.pc = "recover", !.batch = batch, !.flagged = flagged,
                                        !.attempts = attempts]
                     IN  e.batch = batch /\ e.flagged = flagged
          BY DEF Transaction
        <4> QED BY <1>1, <3>1, <4>1
      <3> QED BY <1>3, <3>1, <3>2 DEF RecoverSelect, Statement
    <2> QED BY <1>2, <1>3, <2>1 DEF RecoverSelect, Statement
  <1>4. CASE RecoverFinish(s)
    <2>1. \A j \in tx[s].batch : Processing(j) /\ (Cancelling(j) <=> j \in tx[s].flagged)
      <3>1. At(s, "recover") /\ tx[s].pc = "recover"
        BY <1>4 DEF RecoverFinish, At
      <3>2. LocksInv(tx[s])
        BY <3>1, Running
      <3>3. \A j \in tx[s].batch : Processing(j)
        BY <3>1, <3>2 DEF LocksInv, AttemptAlone
      <3> QED BY <3>1, <3>3 DEF RecoveryInv, FlagsInv
    <2>2. UNCHANGED <<vars, mismatch>> /\ \E written : WriteRows(s, "clear claims", written)
      BY <1>4, <2>1, Zenon DEF RecoverFinish
    <2>3. Elsewhere(s) /\ tx'[s].pc = "clear claims"
      BY <1>1, <2>2, Leaving DEF Left
    <2> QED BY <2>2, <2>3 DEF At
  <1>5. CASE RecoverClear(s)
    <2>1. {j \in tx[s].batch : claim[j].expiresAt <= tx[s].at} = tx[s].batch
      <3>1. At(s, "clear claims")
        BY <1>5 DEF RecoverClear
      <3> QED BY <3>1, Running DEF At, LocksInv
    <2>2. UNCHANGED <<vars, mismatch>> /\ \E written : WriteAttempts(s, "commit", written)
      BY <1>5, <2>1, Zenon DEF RecoverClear
    <2>3. Elsewhere(s) /\ tx'[s].pc = "commit"
      BY <1>1, <2>2, Leaving DEF Left
    <2> QED BY <2>2, <2>3 DEF At
  <1> QED BY <1>3, <1>4, <1>5

\* Those of other methods neither reach "recover" nor report for recovery.
LEMMA OtherStatement ==
    ASSUME PgInv, PgInv', NEW s \in Sessions, Run(s), Passed(s),
           ~(RecoverSelect(s) \/ RecoverFinish(s) \/ RecoverClear(s) \/ Commit(s))
    PROVE  /\ ~At(s, "recover")'
           /\ mismatch' = mismatch \/ \E op : op # "recover_expired_claims"
                                              /\ mismatch' = mismatch \cup {op}
  <1>1. tx[s].op # "recover_expired_claims"
    <2>1. /\ tx[s].pc \notin {"idle", "recover_expired_claims", "recover", "clear claims", "commit"}
      BY DEF Run, At, CreateSelect, CreateInsert, ExpireSelect, ExpireUpdate, ClaimTimeout,
             ClaimHead, ClaimStart, ClaimOwn, HeartbeatUpdate, Delete, CancelSelect,
             CancelQueued, CancelProcessing, PublishUpdate, PublishClear
    <2>2. MethodOf(tx[s]) /\ tx[s].pc \in Opening \cup Later
      BY <2>1, Running
    <2> QED BY <2>1, <2>2 DEF MethodOf, Opening, Later, Methods, Publications
  <1>2. ~At(s, "recover")'
    <2>1. ASSUME At(s, "recover")' PROVE FALSE
      <3>1. tx'[s].pc = "recover"
        BY <2>1 DEF At
      <3>2. tx'[s].op = "recover_expired_claims"
        <4>1. TxInv(tx[s])'
          BY DEF PgInv
        <4>2. tx'[s].pc # Idle.pc
          BY <3>1, IdleTransaction
        <4> QED BY <3>1, <4>1, <4>2 DEF TxInv, MethodOf
      <3> QED BY <1>1, <3>1, <3>2, IdleTransaction DEF Passed
    <2> QED BY <2>1
  <1>3. mismatch' \in {mismatch, mismatch \cup {tx[s].op}}
    BY DEF Run, Statement, Raise, CreateSelect, CreateInsert, ExpireSelect, ExpireUpdate,
           ClaimTimeout, ClaimHead, ClaimStart, ClaimOwn, HeartbeatUpdate, Delete, CancelSelect,
           CancelQueued, CancelProcessing, PublishUpdate, PublishClear
  <1> QED BY <1>1, <1>2, <1>3

\* A step that changes no job and moves at most the transaction of s.
LEMMA FlagsUnchanged ==
    ASSUME FlagsInv, NEW s \in Sessions, Elsewhere(s), UNCHANGED job,
           At(s, "recover")' => \A j \in tx'[s].batch : Cancelling(j) <=> j \in tx'[s].flagged
    PROVE  FlagsInv'
  <1> SUFFICES ASSUME NEW t \in Sessions, At(t, "recover")', NEW j \in tx'[t].batch
               PROVE  Cancelling(j)' <=> j \in tx'[t].flagged
    BY DEF FlagsInv
  <1>1. CASE t = s
    BY <1>1 DEF Cancelling
  <1>2. CASE t # s
    BY <1>2 DEF Elsewhere, FlagsInv, At, Cancelling
  <1> QED BY <1>1, <1>2

LEMMA RecoveryStep == SessionsInv /\ PgInv' /\ RecoveryInv /\ [PgNext]_pgVars => RecoveryInv'
  <1> SUFFICES ASSUME SessionsInv, PgInv', RecoveryInv, [PgNext]_pgVars PROVE RecoveryInv'
    OBVIOUS
  <1>1. /\ PgInv /\ LockInv /\ FlagsInv /\ RowCountsAgree
        /\ \A s \in Sessions : QueueInv(tx[s])
    BY DEF SessionsInv, RecoveryInv
  <1>2. mismatch' = mismatch => RowCountsAgree'
    BY <1>1 DEF RowCountsAgree
  <1>3. CASE Call
    <2>1. PICK s \in Sessions, op \in Methods :
             \E j, w, key, batch : Begin(s, op, j, w, key, batch)
      <3>1. \E s \in Sessions, op \in Methods : \E j, w, key, batch : Begin(s, op, j, w, key, batch)
        BY <1>3, Zenon DEF Call, Sessions, Methods, Publications
      <3> QED BY <3>1
    <2>2. PICK j, w, key, batch : Begin(s, op, j, w, key, batch)
      BY <2>1
    <2> DEFINE q == [Idle EXCEPT !.op = op, !.pc = op, !.at = now, !.j = j,
                                 !.w = w, !.key = key, !.batch = batch]
    <2>3. UNCHANGED <<vars, mismatch>> /\ tx' = [tx EXCEPT ![s] = q]
      BY <2>2 DEF Begin, Statement
    <2>4. q.pc = op
      BY DEF Idle
    <2> HIDE DEF q
    <2>5. Elsewhere(s) /\ tx'[s].pc = op
      BY <1>1, <2>3, <2>4, Committed DEF Elsewhere
    <2>6. ~At(s, "recover")' /\ job' = job
      BY <2>3, <2>5 DEF At, Methods, Publications, vars
    <2> QED BY <1>1, <1>2, <2>3, <2>5, <2>6, FlagsUnchanged DEF RecoveryInv
  <1>4. CASE PgTick \/ UNCHANGED pgVars
    <2>1. UNCHANGED <<job, tx, mismatch>>
      BY <1>4 DEF PgTick, Tick, pgVars, vars
    <2>2. FlagsInv'
      BY <1>1, <2>1 DEF FlagsInv, At, Cancelling
    <2> QED BY <1>2, <2>1, <2>2 DEF RecoveryInv
  <1>5. ASSUME NEW s \in Sessions, Commit(s) PROVE RecoveryInv'
    <2>1. /\ tx'[s] = Idle /\ UNCHANGED mismatch /\ \A t \in Sessions \ {s} : tx'[t] = tx[t]
      BY <1>1, <1>5, CommitEffect DEF OnlyTx
    <2>2. ASSUME NEW t \in Sessions, At(t, "recover")', NEW j \in tx'[t].batch
          PROVE  Cancelling(j)' <=> j \in tx'[t].flagged
      <3>1. t # s
        BY <2>1, <2>2, IdleTransaction DEF At
      <3>2. tx'[t] = tx[t] /\ At(t, "recover") /\ j \in tx[t].batch
        BY <2>1, <2>2, <3>1 DEF At
      <3>3. job'[j] = job[j]
        BY <1>1, <1>5, <3>1, <3>2, FlagsStay
      <3> QED BY <1>1, <3>2, <3>3 DEF FlagsInv, Cancelling
    <2>3. FlagsInv'
      BY <2>2 DEF FlagsInv
    <2> QED BY <1>2, <2>1, <2>3 DEF RecoveryInv
  <1>6. ASSUME NEW s \in Sessions, NEW request \in Requests, CreateInsert(s, request)
        PROVE  RecoveryInv'
    <2>1. /\ tx'[s] = Idle /\ UNCHANGED mismatch /\ \A t \in Sessions \ {s} : tx'[t] = tx[t]
          /\ tx[s].pc = "insert" /\ tx[s].op = "create_queued"
      BY <1>1, <1>6, InsertEffect DEF OnlyTx
    <2>2. ASSUME NEW t \in Sessions, At(t, "recover")' PROVE FALSE
      <3>1. t # s
        BY <2>1, <2>2, IdleTransaction DEF At
      <3>2. tx[t].pc = "recover"
        BY <2>1, <2>2, <3>1 DEF At
      <3>3. tx[t].op = "recover_expired_claims"
        BY <1>1, <3>2, Running DEF MethodOf
      <3>4. HoldsLifecycleLock(s) /\ HoldsLifecycleLock(t)
        BY <2>1, <3>2, <3>3 DEF HoldsLifecycleLock, Busy, At, Serialized
      <3> QED BY <1>1, <3>1, <3>4 DEF LockInv
    <2>3. FlagsInv'
      BY <2>2 DEF FlagsInv
    <2> QED BY <1>2, <2>1, <2>3 DEF RecoveryInv
  <1>7. ASSUME NEW s \in Sessions, Run(s), ~Commit(s),
               ~\E request \in Requests : CreateInsert(s, request)
        PROVE  RecoveryInv'
    <2>1. UNCHANGED vars /\ Passed(s)
      BY <1>1, <1>7, StatementPasses
    <2>2. CASE RecoverSelect(s) \/ RecoverFinish(s) \/ RecoverClear(s)
      <3>1. /\ UNCHANGED mismatch /\ Elsewhere(s) /\ job' = job
            /\ At(s, "recover")' => \A j \in tx'[s].batch : Cancelling(j) <=> j \in tx'[s].flagged
        BY <1>1, <2>1, <2>2, RecoveryStatement DEF RecoveryInv, vars
      <3> QED BY <1>1, <1>2, <3>1, FlagsUnchanged DEF RecoveryInv
    <2>3. CASE ~(RecoverSelect(s) \/ RecoverFinish(s) \/ RecoverClear(s))
      <3>1. /\ ~At(s, "recover")'
            /\ mismatch' = mismatch \/ \E op : op # "recover_expired_claims"
                                              /\ mismatch' = mismatch \cup {op}
        BY <1>1, <1>7, <2>1, <2>3, OtherStatement
      <3>2. RowCountsAgree'
        <4>1. "recover_expired_claims" \notin mismatch'
          BY <1>1, <3>1 DEF RowCountsAgree
        <4>2. mismatch' \subseteq Mismatches
          BY DEF PgInv
        <4> QED BY <4>1, <4>2 DEF RowCountsAgree, Mismatches
      <3>3. Elsewhere(s) /\ job' = job
        BY <2>1 DEF Passed, vars
      <3> QED BY <1>1, <3>1, <3>2, <3>3, FlagsUnchanged DEF RecoveryInv
    <2> QED BY <2>2, <2>3
  <1>8. ASSUME NEW s \in Sessions, Rollback(s) PROVE RecoveryInv'
    <2>1. UNCHANGED <<vars, mismatch>> /\ End(s)
      BY <1>8 DEF Rollback, Statement
    <2>2. Elsewhere(s) /\ ~At(s, "recover")' /\ job' = job
      BY <1>1, <2>1, Committed, Leaving, IdleTransaction DEF At, vars
    <2> QED BY <1>1, <1>2, <2>1, <2>2, FlagsUnchanged DEF RecoveryInv
  <1> QED BY <1>3, <1>4, <1>5, <1>6, <1>7, <1>8 DEF PgNext

\* The row counts that claim, recovery and publication insist on are the
\* ones they find, whatever a heartbeat or a queue expiry commits between
\* two of their statements; recovery finds its jobs with the flags its SELECT
\* found, because only a holder of the advisory lock raises one.
THEOREM RowCountsHold == PgSpec => []RowCountsAgree
  <1>1. PgInit => RecoveryInv
    <2> SUFFICES ASSUME PgInit PROVE RecoveryInv
      OBVIOUS
    <2>1. FlagsInv
      BY IdleTransaction DEF PgInit, FlagsInv, At
    <2> QED BY <2>1 DEF PgInit, RecoveryInv, RowCountsAgree
  <1>2. RecoveryInv => RowCountsAgree
    BY DEF RecoveryInv
  <1> QED BY <1>1, <1>2, RecoveryStep, PgInvariant, SessionsInvariant, PTL DEF PgSpec

-----------------------------------------------------------------------------
(* Row locks are not waited for in a circle. *)

\* Statements that ask for no lock.
LEMMA AsksForNothing ==
    ASSUME NEW s \in Sessions, tx[s].pc \in {"expire_queued_jobs", "expire", "commit"},
           NEW t \in Sessions
    PROVE  ~WaitsFor(s, t)
  BY DEF WaitsFor, WantsRow, WantsAttempt, At

\* Any other statement outside the advisory lock is a heartbeat's first, which
\* has locked nothing.
LEMMA HeartbeatOrSerialized ==
    ASSUME PgInv, NEW s \in Sessions, Busy(s),
           tx[s].pc \notin {"expire_queued_jobs", "expire", "commit"}
    PROVE  \/ HoldsLifecycleLock(s)
           \/ DOMAIN tx[s].rows = {} /\ DOMAIN tx[s].attempts = {}
  <1>1. /\ tx[s].pc \in Opening \cup Later
        /\ MethodOf(tx[s]) /\ LocksInv(tx[s])
    BY IdleTransaction DEF PgInv, TxInv, Busy, At
  <1>2. CASE tx[s].pc = "heartbeat_claims"
    BY <1>1, <1>2 DEF LocksInv, Opening, Methods
  <1>3. CASE tx[s].pc # "heartbeat_claims"
    BY <1>1, <1>3 DEF MethodOf, Opening, Later, Methods, Publications, HoldsLifecycleLock, Serialized
  <1> QED BY <1>2, <1>3

\* The same for the sessions of a set that all ask for a lock.
LEMMA OthersHoldNothing ==
    ASSUME PgInv, LockInv, NEW S \in SUBSET {s \in Sessions : Busy(s)},
           \A s \in S : tx[s].pc \notin {"expire_queued_jobs", "expire", "commit"},
           NEW s \in S, \A t \in S : t # s => ~HoldsLifecycleLock(t),
           NEW t \in S, t # s
    PROVE  ~WaitsFor(s, t)
  <1>1. t \in Sessions /\ Busy(t)
    OBVIOUS
  <1>2. tx[t].pc \notin {"expire_queued_jobs", "expire", "commit"}
    OBVIOUS
  <1>3. ~HoldsLifecycleLock(t)
    OBVIOUS
  <1>4. DOMAIN tx[t].rows = {} /\ DOMAIN tx[t].attempts = {}
    BY <1>1, <1>2, <1>3, HeartbeatOrSerialized
  <1> QED BY <1>4 DEF WaitsFor

LEMMA NoCircle == SessionsInv => NoLockCycle
  <1> SUFFICES ASSUME SessionsInv, NEW S \in SUBSET {s \in Sessions : Busy(s)}, S # {}
               PROVE  \E s \in S : \A t \in S : ~WaitsFor(s, t)
    BY DEF NoLockCycle
  <1>1. PgInv /\ LockInv
    BY DEF SessionsInv
  <1>2. \A s \in S : s \in Sessions /\ Busy(s)
    OBVIOUS
  <1>3. CASE \E s \in S : tx[s].pc \in {"expire_queued_jobs", "expire", "commit"}
    <2>1. PICK s \in S : tx[s].pc \in {"expire_queued_jobs", "expire", "commit"}
      BY <1>3
    <2>2. \A t \in S : ~WaitsFor(s, t)
      BY <1>2, <2>1, AsksForNothing
    <2> QED BY <2>2
  <1>4. CASE \A s \in S : tx[s].pc \notin {"expire_queued_jobs", "expire", "commit"}
    <2>1. PICK s \in S : \A t \in S : t # s => ~HoldsLifecycleLock(t)
      <3>1. CASE \E s \in S : HoldsLifecycleLock(s)
        <4>1. PICK s \in S : HoldsLifecycleLock(s)
          BY <3>1
        <4>2. \A t \in S : t # s => ~HoldsLifecycleLock(t)
          BY <1>1, <1>2, <4>1 DEF LockInv
        <4> QED BY <4>2
      <3>2. CASE ~\E s \in S : HoldsLifecycleLock(s)
        BY <3>2
      <3> QED BY <3>1, <3>2
    <2>2. ASSUME NEW t \in S PROVE ~WaitsFor(s, t)
      <3>1. CASE t = s
        BY <3>1 DEF WaitsFor
      <3>2. CASE t # s
        BY <1>1, <1>4, <2>1, <3>2, OthersHoldNothing
      <3> QED BY <3>1, <3>2
    <2> QED BY <2>2
  <1> QED BY <1>3, <1>4

\* The rows that earlier statements of a transaction have locked are never
\* waited for in a circle: a heartbeat may wait for a serialized method, that
\* one for an expiry or a heartbeat that is about to commit, and those for
\* nobody.
THEOREM SessionsNeverCircle == PgSpec => []NoLockCycle
  BY NoCircle, SessionsInvariant, PTL

-----------------------------------------------------------------------------
(* The sessions implement the contract of module TranscriptionJob. *)

\* The change of a row is a step of the contract.
LEMMA ChangeIsStep ==
    ASSUME NEW j \in Jobs, NEW t \in Time, StoreInv, StoreInv', UNCHANGED lastId, Change(j, t)
    PROVE  Contract!JobStep(j)
  <1> DEFINE r == job[j]
             q == job'[j]
  <1>1. ViewInv /\ ViewInv'
    BY ViewOfRow, PTL
  <1>2. r \in JobRow /\ RowLifecycle(j) /\ RowHistory(j) /\ lastId \in Int /\ j \in Int
    BY DEF StoreInv, RowInv, TypeOK, Jobs
  <1>3. /\ cancellingView[j] = r.cancellationRequested
        /\ cancellingView'[j] = q.cancellationRequested
        /\ r.cancellationRequested \in BOOLEAN
    BY <1>1, <1>2 DEF ViewInv, JobRow
  <1>4. CASE q = r
    <2>1. phaseView'[j] = phaseView[j]
      BY <1>4 DEF phaseView, Finished, Exists
    <2> QED BY <1>3, <1>4, <2>1 DEF Contract!JobStep, Contract!Stay
  <1>5. CASE LeftQueue(r, q, t)
    <2>1. /\ r.status = "queued" /\ q.status = "finished"
          /\ q.outcome \in {"failed", "cancelled"}
          /\ q.cancellationRequested = r.cancellationRequested
      BY <1>2, <1>5, LeftQueueFields
    <2>2. ~r.cancellationRequested
      BY <1>2, <2>1 DEF RowLifecycle, Queued, QueuedRowOK
    <2>3. phaseView[j] = "queued" /\ phaseView'[j] \in {"failed", "cancelled"}
      BY <1>1, <2>1 DEF ViewInv, Queued, Finished
    <2> QED BY <1>3, <2>1, <2>2, <2>3 DEF Contract!JobStep, Contract!LeaveQueue
  <1>6. CASE FlagRaised(r, q)
    <2>1. /\ r.status = "processing" /\ ~r.cancellationRequested
          /\ q.status = "processing" /\ q.cancellationRequested = TRUE
      BY ZenonT(60), <1>2, <1>6, FlagRaisedFields
    <2>2. phaseView[j] = "processing" /\ phaseView'[j] = "processing"
      BY <1>1, <2>1 DEF ViewInv, Processing
    <2> QED BY <1>3, <2>1, <2>2 DEF Contract!JobStep, Contract!AcceptCancellation
  <1>7. CASE Started(r, q, t)
    <2>1. /\ r.status = "queued" /\ q.status = "processing"
          /\ q.cancellationRequested = r.cancellationRequested
      BY <1>2, <1>7, StartedFields
    <2>2. ~r.cancellationRequested
      BY <1>2, <2>1 DEF RowLifecycle, Queued, QueuedRowOK
    <2>3. phaseView[j] = "queued" /\ phaseView'[j] = "processing"
      BY <1>1, <2>1 DEF ViewInv, Queued, Processing
    <2> QED BY <1>3, <2>1, <2>2, <2>3 DEF Contract!JobStep, Contract!Start
  <1>8. CASE Concluded(r, q, t)
    <2>1. /\ r.status = "processing" /\ q.status = "finished"
          /\ r.cancellationRequested => q.outcome = "cancelled"
          /\ ~r.cancellationRequested => q.outcome \in {"succeeded", "failed"}
          /\ q.cancellationRequested = r.cancellationRequested
      <3> HIDE DEF r, q
      <3> QED BY <1>2, <1>8, ConcludedFields, Zenon
    <2>2. phaseView[j] = "processing" /\ phaseView'[j] = q.outcome
      BY <1>1, <2>1 DEF ViewInv, Processing, Finished
    <2> QED BY <1>3, <2>1, <2>2 DEF Contract!JobStep, Contract!Finish
  <1>9. CASE Removed(r, q, t)
    <2>1. r.status = "finished" /\ q.status = "absent" /\ q.cancellationRequested = FALSE
      BY <1>9 DEF Removed, AbsentRow
    <2>2. j <= lastId'
      BY <1>2, <2>1 DEF RowHistory, Exists
    <2>3. phaseView[j] \in Contract!Terminal /\ phaseView'[j] = "deleted"
      BY <1>1, <2>1, <2>2 DEF ViewInv, Finished, Exists
    <2> QED BY <1>3, <2>1, <2>3 DEF Contract!JobStep, Contract!Forget
  <1> QED BY <1>4, <1>5, <1>6, <1>7, <1>8, <1>9 DEF Change

LEMMA CommitMoves ==
    ASSUME PgInv, PgInv', NEW s \in Sessions, Commit(s)
    PROVE  Contract!Move
  <1>1. StoreInv /\ StoreInv' /\ UNCHANGED lastId /\ tx[s].at \in Time
    <2>1. UNCHANGED lastId /\ tx[s].pc = "commit"
      BY CommitEffect
    <2> QED BY <2>1, Running DEF PgInv, ArgumentsInv
  <1>2. ViewInv'
    BY <1>1, ViewOfRow, PTL
  <1>3. phaseView' \in [Jobs -> Contract!Phase] /\ cancellingView' \in [Jobs -> BOOLEAN]
    BY <1>2 DEF ViewInv, phaseView, cancellingView
  <1>4. ASSUME NEW j \in Jobs PROVE Contract!JobStep(j)
    <2>1. Change(j, tx[s].at)
      BY CommitChanges
    <2>2. ASSUME NEW t \in Time, Change(j, t) PROVE Contract!JobStep(j)
      BY <1>1, <2>2, ChangeIsStep
    <2> QED BY <1>1, <2>1, <2>2
  <1> QED BY <1>3, <1>4 DEF Contract!Move

LEMMA InsertAdmits ==
    ASSUME SessionsInv, NEW s \in Sessions, NEW request \in Requests, CreateInsert(s, request)
    PROVE  Contract!Admit(lastId + 1)
  <1> DEFINE a == lastId + 1
  <1>1. /\ PgInv /\ StoreInv /\ QueueInv(tx[s]) /\ lastId \in Nat
    BY Committed DEF SessionsInv, PgInv
  <1>2. /\ a \in Jobs /\ ~Exists(a) /\ lastId' = a /\ tx[s].pc = "insert"
        /\ \A j \in Jobs \ {a} : job'[j] = job[j]
        /\ job'[a].status = "queued" /\ job'[a].cancellationRequested = FALSE
    BY <1>1, InsertEffect
  <1>3. job[a] = AbsentRow /\ phaseView[a] = "unsubmitted"
    <2>1. ViewInv /\ RowHistory(a)
      BY <1>1, <1>2, ViewOfRow DEF StoreInv, RowInv
    <2> QED BY <1>1, <1>2, <2>1 DEF ViewInv, RowHistory
  <1>4. Contract!JobsIn(Contract!Active) = Outstanding
    BY <1>1, ViewOfRow DEF ViewInv, Contract!JobsIn, Outstanding
  <1>5. phaseView' = [phaseView EXCEPT ![a] = "queued"]
    <2>1. ASSUME NEW j \in Jobs
          PROVE  phaseView'[j] = IF j = a THEN "queued" ELSE phaseView[j]
      <3>1. CASE j = a
        BY <1>2, <3>1 DEF phaseView, Finished, Exists
      <3>2. CASE j # a
        <4>1. job'[j] = job[j] /\ (j <= lastId' <=> j <= lastId)
          BY <1>1, <1>2, <3>2 DEF Jobs
        <4> QED BY <4>1, <3>2 DEF phaseView, Finished, Exists
      <3> QED BY <3>1, <3>2
    <2> QED BY <2>1 DEF phaseView
  <1>6. UNCHANGED cancellingView
    <2>1. ASSUME NEW j \in Jobs
          PROVE  job'[j].cancellationRequested = job[j].cancellationRequested
      <3>1. AbsentRow.cancellationRequested = FALSE
        BY DEF AbsentRow
      <3>2. CASE j = a
        BY <1>2, <1>3, <3>1, <3>2, Zenon
      <3>3. CASE j # a
        <4>1. job'[j] = job[j]
          BY <1>2, <3>3
        <4> QED BY <4>1
      <3> QED BY <3>2, <3>3
    <2> QED BY <2>1 DEF cancellingView
  <1>7. Cardinality(Outstanding) < MaxOutstanding
    BY <1>1, <1>2 DEF QueueInv
  <1>8. Contract!Cardinality(Outstanding) = Cardinality(Outstanding)
    BY DEF Contract!Cardinality, Cardinality
  <1> QED BY <1>3, <1>4, <1>5, <1>6, <1>7, <1>8 DEF Contract!Admit

\* Statement by statement, with every interleaving and every lost
\* connection, what clients see of a job moves as the contract promises.
THEOREM SessionsImplementContract == PgSpec => ImplementsContract
  <1>1. PgInit => Contract!Init
    <2> SUFFICES ASSUME PgInit PROVE Contract!Init
      OBVIOUS
    <2>1. ASSUME NEW j \in Jobs
          PROVE  phaseView[j] = "unsubmitted" /\ cancellingView[j] = FALSE
      BY DEF PgInit, Init, phaseView, cancellingView, Finished, Exists, AbsentRow, Jobs
    <2> QED BY <2>1 DEF Contract!Init, phaseView, cancellingView
  <1>2. SessionsInv /\ SessionsInv' /\ [PgNext]_pgVars => [Contract!Next]_(Contract!jobVars)
    <2> SUFFICES ASSUME SessionsInv, SessionsInv', [PgNext]_pgVars
                 PROVE  Contract!Next \/ UNCHANGED Contract!jobVars
      OBVIOUS
    <2>1. PgInv /\ PgInv' /\ \A s \in Sessions : QueueInv(tx[s])
      BY DEF SessionsInv
    <2>2. ASSUME NEW s \in Sessions, Commit(s) PROVE Contract!Next
      BY <2>1, <2>2, CommitMoves DEF Contract!Next
    <2>3. ASSUME NEW s \in Sessions, NEW request \in Requests, CreateInsert(s, request)
          PROVE  Contract!Next
      <3>1. lastId + 1 \in Jobs /\ Contract!Admit(lastId + 1)
        BY <2>1, <2>3, InsertEffect, InsertAdmits
      <3> QED BY <3>1 DEF Contract!Next
    <2>4. ASSUME UNCHANGED <<lastId, job>> PROVE UNCHANGED Contract!jobVars
      <3>1. lastId' = lastId /\ job' = job
        BY <2>4
      <3>2. phaseView' = phaseView
        BY <3>1 DEF phaseView, Finished, Exists
      <3>3. cancellingView' = cancellingView
        BY <3>1 DEF cancellingView
      <3> QED BY <3>2, <3>3 DEF Contract!jobVars
    <2>5. CASE Call \/ PgTick \/ UNCHANGED pgVars
      <3>1. UNCHANGED <<lastId, job>>
        BY <2>5 DEF Call, Begin, Statement, PgTick, Tick, pgVars, vars
      <3> QED BY <2>4, <3>1
    <2>6. ASSUME NEW s \in Sessions, Rollback(s) PROVE UNCHANGED Contract!jobVars
      <3>1. UNCHANGED <<lastId, job>>
        BY <2>6 DEF Rollback, Statement, vars
      <3> QED BY <2>4, <3>1
    <2>7. ASSUME NEW s \in Sessions, Run(s), ~Commit(s),
                 ~\E request \in Requests : CreateInsert(s, request)
          PROVE  UNCHANGED Contract!jobVars
      <3>1. UNCHANGED vars
        BY <2>1, <2>7, StatementPasses
      <3>2. UNCHANGED <<lastId, job>>
        BY <3>1 DEF vars
      <3> QED BY <2>4, <3>2
    <2> QED BY <2>2, <2>3, <2>5, <2>6, <2>7 DEF PgNext
  <1> QED
    BY <1>1, <1>2, SessionsInvariant, PTL DEF PgSpec, ImplementsContract, Contract!Spec

-----------------------------------------------------------------------------
(* Starts, keys and capacity, statement by statement. *)

\* Only a commit, and the INSERT of a submission that commits with it,
\* changes a row.
LEMMA WhatCommits ==
    ASSUME SessionsInv, PgInv', [PgNext]_pgVars
    PROVE  \/ UNCHANGED <<lastId, job>>
           \/ \E s \in Sessions : Commit(s)
           \/ \E s \in Sessions, request \in Requests : CreateInsert(s, request)
  <1>1. PgInv /\ \A s \in Sessions : QueueInv(tx[s])
    BY ZenonT(60) DEF SessionsInv
  <1>2. CASE Call \/ PgTick \/ UNCHANGED pgVars
    BY <1>2 DEF Call, Begin, Statement, PgTick, Tick, pgVars, vars
  <1>3. ASSUME NEW s \in Sessions, Rollback(s) PROVE UNCHANGED <<lastId, job>>
    BY <1>3 DEF Rollback, Statement, vars
  <1>4. ASSUME NEW s \in Sessions, Run(s), ~Commit(s),
               ~\E request \in Requests : CreateInsert(s, request)
        PROVE  UNCHANGED <<lastId, job>>
    <2>1. UNCHANGED vars
      BY <1>1, <1>4, StatementPasses
    <2> QED BY <2>1 DEF vars
  <1> QED BY <1>2, <1>3, <1>4 DEF PgNext

LEMMA CommitShrinks ==
    ASSUME SessionsInv, NEW s \in Sessions, Commit(s)
    PROVE  QueueShrinks
  <1>1. PgInv
    BY DEF SessionsInv
  <1>2. tx[s].at \in Time
    <2>1. tx[s].pc = "commit"
      BY <1>1, CommitEffect
    <2> QED BY <1>1, <2>1, Running DEF ArgumentsInv
  <1>3. ASSUME NEW j \in Jobs PROVE Change(j, tx[s].at) /\ job[j] \in JobRow
    BY <1>1, CommitChanges, Committed
  <1> QED BY <1>2, <1>3, ChangeLeavesQueue DEF QueueShrinks, Outstanding

\* No interleaving of statements starts a job twice: the claim's UPDATE and
\* the commit of a recovery, a cancellation or an expiry never both count.
THEOREM SessionsStartOnce == PgSpec => []StartedAtMostOnce
  <1>1. PgInv => StartedAtMostOnce
    BY DEF PgInv, StoreInv, RowInv, RowStarts, StartedAtMostOnce
  <1> QED BY <1>1, PgInvariant, PTL

\* The unique constraint on idempotency_key never aborts an INSERT: between
\* the lookup of the key and the INSERT nobody else can take it.
THEOREM SessionsKeys == PgSpec => []KeyNamesOneJob
  <1>1. PgInit => KeyNamesOneJob
    BY DEF PgInit, Init, KeyNamesOneJob, Exists, AbsentRow
  <1>2. SessionsInv /\ SessionsInv' /\ KeyNamesOneJob /\ [PgNext]_pgVars => KeyNamesOneJob'
    <2> SUFFICES ASSUME SessionsInv, SessionsInv', KeyNamesOneJob, [PgNext]_pgVars
                 PROVE  KeyNamesOneJob'
      OBVIOUS
    <2>1. PgInv /\ PgInv' /\ \A s \in Sessions : QueueInv(tx[s])
      BY DEF SessionsInv
    <2>2. CASE UNCHANGED <<lastId, job>>
      BY <2>2 DEF KeyNamesOneJob, Exists
    <2>3. ASSUME NEW s \in Sessions, Commit(s) PROVE KeyNamesOneJob'
      BY <2>3, CommitShrinks DEF KeyNamesOneJob, QueueShrinks
    <2>4. ASSUME NEW s \in Sessions, NEW request \in Requests, CreateInsert(s, request)
          PROVE  KeyNamesOneJob'
      <3>1. /\ tx[s].pc = "insert" /\ \A j \in Jobs \ {lastId + 1} : job'[j] = job[j]
            /\ job'[lastId + 1].key = tx[s].key
        BY <2>1, <2>4, InsertEffect
      <3>2. Replayed(tx[s].key) = {}
        BY <2>1, <3>1 DEF QueueInv
      <3>3. \A j \in Jobs : Exists(j) => job[j].key # tx[s].key
        BY <3>2 DEF Replayed
      <3> QED BY <3>1, <3>3 DEF KeyNamesOneJob, Exists
    <2> QED BY <2>1, <2>2, <2>3, <2>4, WhatCommits
  <1> QED BY <1>1, <1>2, SessionsInvariant, PTL DEF PgSpec

\* Admission control across two statements: the count that a submission took
\* before its INSERT still leaves room when the row is committed.
THEOREM SessionsCapacity == PgSpec => []CapacityRespected
  <1>1. PgInit => CapacityRespected
    <2> SUFFICES ASSUME PgInit PROVE CapacityRespected
      OBVIOUS
    <2>1. Outstanding = {}
      BY DEF PgInit, Init, Outstanding, AbsentRow
    <2> QED BY <2>1, FS_EmptySet, PolicyAssumption DEF CapacityRespected
  <1>2. SessionsInv /\ SessionsInv' /\ CapacityRespected /\ [PgNext]_pgVars
          => CapacityRespected'
    <2> SUFFICES ASSUME SessionsInv, SessionsInv', CapacityRespected, [PgNext]_pgVars
                 PROVE  CapacityRespected'
      OBVIOUS
    <2>1. PgInv /\ PgInv' /\ \A s \in Sessions : QueueInv(tx[s])
      BY DEF SessionsInv
    <2>2. ASSUME Outstanding' \subseteq Outstanding PROVE CapacityRespected'
      <3>1. /\ Cardinality(Outstanding') \in Nat
            /\ Cardinality(Outstanding') <= Cardinality(Outstanding)
        BY <2>2, OutstandingFinite, FS_Subset, FS_CardinalityType
      <3> QED BY <3>1, OutstandingFinite, PolicyAssumption DEF CapacityRespected
    <2>3. CASE UNCHANGED <<lastId, job>>
      BY <2>2, <2>3 DEF Outstanding
    <2>4. ASSUME NEW s \in Sessions, Commit(s) PROVE CapacityRespected'
      BY <2>2, <2>4, CommitShrinks DEF QueueShrinks
    <2>5. ASSUME NEW s \in Sessions, NEW request \in Requests, CreateInsert(s, request)
          PROVE  CapacityRespected'
      <3>1. /\ tx[s].pc = "insert" /\ \A j \in Jobs \ {lastId + 1} : job'[j] = job[j]
            /\ lastId + 1 \in Jobs
        BY <2>1, <2>5, InsertEffect
      <3>2. Outstanding' \subseteq Outstanding \cup {lastId + 1}
        BY <3>1 DEF Outstanding
      <3>3. /\ IsFiniteSet(Outstanding \cup {lastId + 1})
            /\ Cardinality(Outstanding \cup {lastId + 1}) <= Cardinality(Outstanding) + 1
        BY OutstandingFinite, FS_AddElement
      <3>4. /\ Cardinality(Outstanding \cup {lastId + 1}) \in Nat
            /\ Cardinality(Outstanding') \in Nat
            /\ Cardinality(Outstanding') <= Cardinality(Outstanding \cup {lastId + 1})
        BY <3>2, <3>3, FS_Subset, FS_CardinalityType
      <3>5. Cardinality(Outstanding) < MaxOutstanding
        BY <2>1, <3>1 DEF QueueInv
      <3> QED BY <3>3, <3>4, <3>5, OutstandingFinite, PolicyAssumption DEF CapacityRespected
    <2> QED BY <2>1, <2>3, <2>4, <2>5, WhatCommits
  <1> QED BY <1>1, <1>2, SessionsInvariant, PTL DEF PgSpec

-----------------------------------------------------------------------------
(* Final rows and accepted cancellations, statement by statement. *)

\* What a step makes of a row: nothing, one of the changes under the clock
\* that a transaction has read, or, for an id not used before, a new row.
LEMMA RowChanges ==
    ASSUME SessionsInv, SessionsInv', [PgNext]_pgVars, NEW j \in Jobs
    PROVE  \/ job'[j] = job[j]
           \/ \E t \in Time : t <= now /\ Change(j, t)
           \/ j > lastId /\ ~Exists(j)
  <1>1. PgInv /\ PgInv' /\ lastId \in Nat
    BY Committed DEF SessionsInv
  <1>2. CASE UNCHANGED <<lastId, job>>
    BY <1>2
  <1>3. ASSUME NEW s \in Sessions, Commit(s)
        PROVE  \E t \in Time : t <= now /\ Change(j, t)
    <2>1. tx[s].pc = "commit"
      BY <1>1, <1>3, CommitEffect
    <2>2. tx[s].at \in Time /\ tx[s].at <= now
      BY <1>1, <2>1, Running DEF ArgumentsInv
    <2>3. Change(j, tx[s].at)
      BY <1>1, <1>3, CommitChanges
    <2> QED BY <2>2, <2>3
  <1>4. ASSUME NEW s \in Sessions, NEW request \in Requests, CreateInsert(s, request)
        PROVE  job'[j] = job[j] \/ (j > lastId /\ ~Exists(j))
    <2>1. /\ lastId + 1 \in Jobs /\ ~Exists(lastId + 1)
          /\ \A i \in Jobs \ {lastId + 1} : job'[i] = job[i]
      BY <1>1, <1>4, InsertEffect
    <2>2. CASE j = lastId + 1
      BY <1>1, <2>1, <2>2
    <2>3. CASE j # lastId + 1
      BY <2>1, <2>3
    <2> QED BY <2>2, <2>3
  <1> QED BY <1>1, <1>2, <1>3, <1>4, WhatCommits

\* Whatever statements interleave, a committed terminal row is never
\* rewritten, and it is deleted only once its retention has passed.
THEOREM SessionsTerminalFinal == PgSpec => TerminalIsFinal
  <1>1. ASSUME SessionsInv, SessionsInv', [PgNext]_pgVars, NEW j \in Jobs
        PROVE  /\ Finished(j) => \/ job'[j] = job[j]
                                 \/ TerminalJobIsExpired(j) /\ job'[j] = AbsentRow
               /\ j <= lastId /\ ~Exists(j) => job'[j] = AbsentRow
    <2>1. PgInv /\ RowHistory(j) /\ job[j] \in JobRow /\ now \in Time /\ lastId \in Nat
          /\ j \in Int
      BY <1>1, Committed DEF SessionsInv, PgInv, StoreInv, RowInv, TypeOK, Jobs
    <2>2. CASE job'[j] = job[j]
      BY <2>1, <2>2 DEF RowHistory
    <2>3. CASE j > lastId /\ ~Exists(j)
      BY <2>1, <2>3 DEF Finished, Exists
    <2>4. ASSUME NEW t \in Time, t <= now, Change(j, t), job'[j] # job[j]
          PROVE  /\ Finished(j) => TerminalJobIsExpired(j) /\ job'[j] = AbsentRow
                 /\ Exists(j)
      <3>1. CASE Removed(job[j], job'[j], t)
        <4>1. /\ job[j].status = "finished" /\ job[j].finishedAt <= t - Retention
              /\ job'[j] = AbsentRow
          BY <3>1 DEF Removed
        <4>2. job[j].finishedAt \in Time \cup {NoTime}
          BY <2>1 DEF JobRow
        <4>3. job[j].finishedAt <= now - Retention
          BY <2>1, <2>4, <4>1, <4>2, PolicyAssumption DEF Time, NoTime
        <4> QED BY <4>1, <4>3 DEF TerminalJobIsExpired, Finished, Exists
      <3>2. CASE ~Removed(job[j], job'[j], t)
        <4>1. Queued(j) \/ Processing(j)
          BY <2>4, <3>2 DEF Change, LeftQueue, FlagRaised, Started, Concluded,
                            Queued, Processing
        <4> QED BY <4>1 DEF Queued, Processing, Finished, Exists
      <3> QED BY <3>1, <3>2
    <2>5. \/ job'[j] = job[j]
          \/ \E t \in Time : t <= now /\ Change(j, t)
          \/ j > lastId /\ ~Exists(j)
      BY <1>1, RowChanges
    <2> QED BY <2>2, <2>3, <2>4, <2>5
  <1>2. SessionsInv /\ SessionsInv' /\ [PgNext]_pgVars =>
          [\A j \in Jobs :
             /\ Finished(j) => \/ job'[j] = job[j]
                               \/ TerminalJobIsExpired(j) /\ job'[j] = AbsentRow
             /\ j <= lastId /\ ~Exists(j) => job'[j] = AbsentRow]_vars
    BY <1>1
  <1> QED BY <1>2, SessionsInvariant, PTL DEF PgSpec, TerminalIsFinal

\* Whatever statements interleave, once a cancellation is committed for a
\* processing job the row can only become a cancelled one: no publication,
\* recovery or expiry that read it before ends it in another way.
THEOREM SessionsCancellationsHold == PgSpec => AcceptedCancellationHolds
  <1>1. ASSUME SessionsInv, SessionsInv', [PgNext]_pgVars, NEW j \in Jobs,
               Processing(j), job[j].cancellationRequested, job'[j] # job[j]
        PROVE  /\ job'[j].status = "finished"
               /\ job'[j].outcome = "cancelled"
               /\ job'[j].cancellationRequested
    <2>1. Exists(j) /\ job[j].status = "processing" /\ job[j] \in JobRow
      BY <1>1, Committed DEF SessionsInv, Processing, Exists
    <2>2. PICK t \in Time : Change(j, t)
      BY <1>1, <2>1, RowChanges
    <2>3. Concluded(job[j], job'[j], t)
      BY <1>1, <2>1, <2>2 DEF Change, LeftQueue, FlagRaised, Started, Removed
    <2>4. job'[j] = Ended(job[j], "cancelled", "none", t)
      BY <1>1, <2>3 DEF Concluded
    <2> QED BY <1>1, <2>1, <2>4, EndedFields
  <1>2. SessionsInv /\ SessionsInv' /\ [PgNext]_pgVars =>
          [\A j \in Jobs :
             Processing(j) /\ job[j].cancellationRequested /\ job'[j] # job[j]
               => /\ job'[j].status = "finished"
                  /\ job'[j].outcome = "cancelled"
                  /\ job'[j].cancellationRequested]_vars
    BY <1>1
  <1> QED BY <1>2, SessionsInvariant, PTL DEF PgSpec, AcceptedCancellationHolds
=============================================================================
