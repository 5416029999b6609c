---------------------------- MODULE JobDispatch -----------------------------
(***************************************************************************)
(* How queued jobs reach a worker: the reconciler process of               *)
(* jobs/reconciler.py, the publication lease it takes on execution-attempt *)
(* rows (lease_due_dispatches, record_dispatch_published,                  *)
(* release_dispatch_leases), the Celery broker and the deliveries a worker *)
(* takes or drops.  Deadlines are abstracted to the fact that they have    *)
(* passed: a dispatch is due or not, a lease is live or not.  Reconcilers  *)
(* may overlap (a stuck process and its replacement), crash between any    *)
(* two calls and come back under a fresh lease_owner.                      *)
(***************************************************************************)
EXTENDS Integers, FiniteSets, Sequences, SequencesExt

CONSTANTS
    MaxJobs,      \* bound: the jobs ever submitted
    Reconcilers,  \* reconciler processes
    BatchLimit,   \* ReconcilerPolicy.dispatch_batch_size
    MaxCopies,    \* bound: copies of one dispatch in the broker
    MaxFaults,    \* bound: crashes, store failures and broker failures
    Nobody,       \* publication_lease_owner is NULL
    Orphan        \* publication_lease_owner of a process that is gone

ASSUME DispatchBounds ==
    /\ MaxJobs \in Nat /\ MaxFaults \in Nat
    /\ BatchLimit \in Nat \ {0} /\ MaxCopies \in Nat \ {0}

\* Owners are fresh identifiers.
ASSUME OwnersAssumption ==
    Nobody \notin Reconcilers /\ Orphan \notin Reconcilers /\ Nobody # Orphan

VARIABLES
    status,   \* of the job: absent, queued, overdue (queued past its
              \* deadline) or left (started or finished)
    due,      \* next_dispatch_at has been reached
    lease,    \* publication_lease_owner
    live,     \* publication_lease_expires_at has not been reached
    copies,   \* messages of the dispatch in the broker
    sent,     \* history: the broker accepted it since it last became due
    pc,       \* the next call of each reconciler
    batch,    \* the leased dispatches it has not published yet
    faults

rowVars == <<status, due, lease, live>>
vars == <<rowVars, copies, sent, pc, batch, faults>>

Waiting == {"queued", "overdue"}

\* Jobs are numbered as they are submitted: ORDER BY submitted_at, id.
Jobs == 1 .. MaxJobs

\* ... LIMIT BatchLimit, as the set of the one sequence that selects.
FirstOnes(S) ==
    {s \in UNION {[1 .. n -> S] : n \in 0 .. BatchLimit} :
        /\ \A i, k \in DOMAIN s : i < k => s[i] < s[k]
        /\ \A j \in S \ ToSet(s) : Len(s) = BatchLimit /\ \A i \in DOMAIN s : s[i] < j}

Eligible == {j \in Jobs : status[j] = "queued"}

Fault == faults < MaxFaults /\ faults' = faults + 1

-----------------------------------------------------------------------------
(* The rest of the system: submissions, cancellations, workers, time. *)

\* create_queued: the dispatch is due at once.
Admit(j) ==
    /\ status[j] = "absent" /\ \A i \in Jobs : i < j => status[i] # "absent"
    /\ status' = [status EXCEPT ![j] = "queued"]
    /\ due' = [due EXCEPT ![j] = TRUE]
    /\ UNCHANGED <<lease, live, copies, sent, pc, batch, faults>>

\* request_cancellation of a queued job.
Cancel(j) ==
    /\ status[j] \in Waiting
    /\ status' = [status EXCEPT ![j] = "left"]
    /\ UNCHANGED <<due, lease, live, copies, sent, pc, batch, faults>>

\* The queue deadline passes.
DeadlinePasses(j) ==
    /\ status[j] = "queued"
    /\ status' = [status EXCEPT ![j] = "overdue"]
    /\ UNCHANGED <<due, lease, live, copies, sent, pc, batch, faults>>

\* The redispatch interval passes; the last message counts no more.
BecomesDue(j) ==
    /\ status[j] = "queued" /\ ~due[j]
    /\ due' = [due EXCEPT ![j] = TRUE]
    /\ sent' = [sent EXCEPT ![j] = FALSE]
    /\ UNCHANGED <<status, lease, live, copies, pc, batch, faults>>

\* A lease is looked at only while its job is queued.
LeaseExpires(j) ==
    /\ status[j] = "queued" /\ live[j]
    /\ live' = [live EXCEPT ![j] = FALSE]
    /\ UNCHANGED <<status, due, lease, copies, sent, pc, batch, faults>>

-----------------------------------------------------------------------------
(* Broker and worker deliveries.  Celery acknowledges early: a delivery is *)
(* gone whether or not the worker could use it.                            *)

\* The delivered dispatch is claimed: its job is the oldest eligible one.
DeliveryClaims(j) ==
    /\ copies[j] > 0
    /\ copies' = [copies EXCEPT ![j] = @ - 1]
    /\ status[j] = "queued" /\ \A i \in Eligible : j <= i
    /\ status' = [status EXCEPT ![j] = "left"]
    /\ UNCHANGED <<due, lease, live, sent, pc, batch, faults>>

\* claim_dispatch times out a job whose deadline has passed.
DeliveryTimesOut(j) ==
    /\ copies[j] > 0
    /\ copies' = [copies EXCEPT ![j] = @ - 1]
    /\ status[j] = "overdue"
    /\ status' = [status EXCEPT ![j] = "left"]
    /\ UNCHANGED <<due, lease, live, sent, pc, batch, faults>>

\* The message is lost, stale, not first in line, or meets a worker that is
\* full, not ready, shutting down or without a store.
DeliveryDropped(j) ==
    /\ copies[j] > 0
    /\ copies' = [copies EXCEPT ![j] = @ - 1]
    /\ UNCHANGED <<rowVars, sent, pc, batch, faults>>

-----------------------------------------------------------------------------
(* reconcile_once, one repository or broker call per step.  It begins with *)
(* the recovery of expired claims (ClaimManager), and run() ends each scan *)
(* with cleanup, the heartbeat pulse and a wait: these leave the queue     *)
(* alone, so a scan that ends is at its start again.                       *)

\* Drain overdue jobs, then look for due dispatches.
Expire(r) ==
    /\ pc[r] = "expire"
    /\ \E overdue \in FirstOnes({j \in Jobs : status[j] = "overdue"}) :
         /\ status' = [j \in Jobs |-> IF j \in ToSet(overdue) THEN "left" ELSE status[j]]
         /\ pc' = IF overdue = <<>> THEN [pc EXCEPT ![r] = "lease"] ELSE pc
    /\ UNCHANGED <<due, lease, live, copies, sent, batch, faults>>

\* Mutation: a lease that has expired is not taken over.
MutLeaseNeverExpires(j) == status[j] = "queued" /\ due[j] /\ lease[j] = Nobody

Leasable(j) ==
    status[j] = "queued" /\ due[j] /\ (lease[j] = Nobody \/ ~live[j])

\* lease_due_dispatches: nothing due ends the scan.
Lease(r) ==
    /\ pc[r] = "lease"
    /\ \E leased \in FirstOnes({j \in Jobs : Leasable(j)}) :
         /\ lease' = [j \in Jobs |-> IF j \in ToSet(leased) THEN r ELSE lease[j]]
         /\ live' = [j \in Jobs |-> live[j] \/ j \in ToSet(leased)]
         /\ batch' = [batch EXCEPT ![r] = leased]
         /\ pc' = [pc EXCEPT ![r] = IF leased = <<>> THEN "expire" ELSE "publish"]
    /\ UNCHANGED <<status, due, copies, sent, faults>>

\* The broker accepts the message.
Publish(r) ==
    LET j == Head(batch[r])
    IN  /\ pc[r] = "publish"
        /\ copies' = [copies EXCEPT ![j] = IF @ < MaxCopies THEN @ + 1 ELSE @]
        /\ sent' = [sent EXCEPT ![j] = TRUE]
        /\ pc' = [pc EXCEPT ![r] = "record"]
        /\ UNCHANGED <<rowVars, batch, faults>>

\* The broker fails, though it may have taken the message.
PublishFails(r) ==
    LET j == Head(batch[r])
    IN  /\ pc[r] = "publish"
        /\ \E n \in {copies[j], copies[j] + 1} :
             n <= MaxCopies /\ copies' = [copies EXCEPT ![j] = n]
        /\ pc' = [pc EXCEPT ![r] = "release"]
        /\ Fault
        /\ UNCHANGED <<rowVars, sent, batch>>

\* Mutation: the lease owner is not compared.
MutRecordForeignLease(r) ==
    LET j == Head(batch[r])
    IN  /\ pc[r] = "record"
        /\ lease' = [lease EXCEPT ![j] = Nobody]
        /\ live' = [live EXCEPT ![j] = FALSE]
        /\ due' = [due EXCEPT ![j] = FALSE]
        /\ batch' = [batch EXCEPT ![r] = Tail(@)]
        /\ pc' = [pc EXCEPT ![r] = IF Tail(batch[r]) = <<>> THEN "lease" ELSE "publish"]
        /\ UNCHANGED <<status, copies, sent, faults>>

\* record_dispatch_published: only under the lease of this owner, live or
\* not; otherwise nothing is written and the scan goes on.
Record(r) ==
    LET j == Head(batch[r])
        owned == lease[j] = r
    IN  /\ pc[r] = "record"
        /\ lease' = IF owned THEN [lease EXCEPT ![j] = Nobody] ELSE lease
        /\ live' = IF owned THEN [live EXCEPT ![j] = FALSE] ELSE live
        /\ due' = IF owned THEN [due EXCEPT ![j] = FALSE] ELSE due
        /\ batch' = [batch EXCEPT ![r] = Tail(@)]
        /\ pc' = [pc EXCEPT ![r] = IF Tail(batch[r]) = <<>> THEN "lease" ELSE "publish"]
        /\ UNCHANGED <<status, copies, sent, faults>>

\* release_dispatch_leases of the unpublished suffix; the scan failed.
Release(r) ==
    LET released == {j \in ToSet(batch[r]) : lease[j] = r}
    IN  /\ pc[r] = "release"
        /\ lease' = [j \in Jobs |-> IF j \in released THEN Nobody ELSE lease[j]]
        /\ live' = [j \in Jobs |-> live[j] /\ j \notin released]
        /\ batch' = [batch EXCEPT ![r] = <<>>]
        /\ pc' = [pc EXCEPT ![r] = "expire"]
        /\ UNCHANGED <<status, due, copies, sent, faults>>

\* A store call raises: run() waits and scans again, and leases stay behind
\* until they expire.  At "publish" it is the lease or record call before,
\* which committed all the same.
StoreFails(r) ==
    /\ pc[r] \in {"expire", "lease", "publish", "record", "release"}
    /\ pc' = [pc EXCEPT ![r] = "expire"]
    /\ batch' = [batch EXCEPT ![r] = <<>>]
    /\ Fault
    /\ UNCHANGED <<rowVars, copies, sent>>

\* The process dies or is told to stop, and is started again: no process has
\* its lease_owner any more.
Crash(r) ==
    /\ Fault
    /\ lease' = [j \in Jobs |-> IF lease[j] = r THEN Orphan ELSE lease[j]]
    /\ pc' = [pc EXCEPT ![r] = "expire"]
    /\ batch' = [batch EXCEPT ![r] = <<>>]
    /\ UNCHANGED <<status, due, live, copies, sent>>

-----------------------------------------------------------------------------

Init ==
    /\ status = [j \in Jobs |-> "absent"]
    /\ due = [j \in Jobs |-> FALSE]
    /\ lease = [j \in Jobs |-> Nobody]
    /\ live = [j \in Jobs |-> FALSE]
    /\ copies = [j \in Jobs |-> 0]
    /\ sent = [j \in Jobs |-> FALSE]
    /\ pc = [r \in Reconcilers |-> "expire"]
    /\ batch = [r \in Reconcilers |-> <<>>]
    /\ faults = 0

Reconcile(r) ==
    \/ Expire(r) \/ Lease(r) \/ Publish(r) \/ Record(r) \/ Release(r)

Next ==
    \/ \E j \in Jobs :
         \/ Admit(j) \/ Cancel(j)
         \/ DeadlinePasses(j) \/ BecomesDue(j) \/ LeaseExpires(j)
         \/ DeliveryClaims(j) \/ DeliveryTimesOut(j) \/ DeliveryDropped(j)
    \/ \E r \in Reconcilers :
         Reconcile(r) \/ PublishFails(r) \/ StoreFails(r) \/ Crash(r)

\* The reconciler keeps running (it is restarted when it dies) and time passes.
ReconcilerFairness ==
    /\ \A r \in Reconcilers : WF_vars(Reconcile(r))
    /\ \A j \in Jobs : WF_vars(BecomesDue(j)) /\ WF_vars(LeaseExpires(j))

\* Of the deliveries of the first job in line not every one is lost or finds
\* the worker busy.  No deadline needs to pass, nobody needs to cancel.
WorkerFairness ==
    \A j \in Jobs : SF_vars(DeliveryClaims(j))

Spec == Init /\ [][Next]_vars /\ ReconcilerFairness /\ WorkerFairness

-----------------------------------------------------------------------------
(* Properties. *)

\* Every variable has its type, and a reconciler that publishes or records
\* has something to publish or record.
TypeOK ==
    /\ status \in [Jobs -> Waiting \cup {"absent", "left"}]
    /\ due \in [Jobs -> BOOLEAN] /\ live \in [Jobs -> BOOLEAN] /\ sent \in [Jobs -> BOOLEAN]
    /\ lease \in [Jobs -> Reconcilers \cup {Nobody, Orphan}]
    /\ copies \in [Jobs -> 0 .. MaxCopies]
    /\ pc \in [Reconcilers -> {"expire", "lease", "publish", "record", "release"}]
    /\ batch \in [Reconcilers -> Seq(Jobs)]
    /\ faults \in 0 .. MaxFaults
    /\ \A r \in Reconcilers :
         pc[r] \in {"publish", "record", "release"} <=> batch[r] # <<>>

\* A dispatch is put off to the next interval only after the broker took a
\* message for this round: a stalled reconciler that wakes up after its lease
\* was taken over, crashed and came back, or failed half-way through a batch
\* never records what was not sent.
PutOffOnlyIfSent == \A j \in Jobs : status[j] = "queued" /\ ~due[j] => sent[j]

\* No job is stranded in the queue: lost, dropped, refused and duplicated
\* messages, failed batches and reconcilers that die between publication and
\* record all end in a redispatch, until the job is started or over, and
\* one that became overdue is timed out.
QueuedJobLeaves == \A j \in Jobs : status[j] \in Waiting ~> status[j] = "left"
=============================================================================
