---------------------------- MODULE ClaimManager ----------------------------
(***************************************************************************)
(* One worker process: the ExecutionClaimManager of jobs/claim_manager.py  *)
(* and the TranscriptionJobProcessor coroutines of jobs/processor.py that  *)
(* share its event loop.  A step runs from one await to the next.  The     *)
(* store appears through what this worker's calls can tell apart: a job is *)
(* queued, owned by this worker (with or without an accepted cancellation) *)
(* or over, and the lease of an owned job is live or has lapsed.           *)
(***************************************************************************)
EXTENDS Integers, FiniteSets

CONSTANTS
    Dispatches,       \* delivered Job Dispatches, one coroutine each
    MaxActiveClaims   \* TEXTIFY_WORKER_CONCURRENCY

ASSUME MaxActiveAssumption == MaxActiveClaims \in Nat \ {0}
ASSUME DispatchesAssumption == IsFiniteSet(Dispatches)

VARIABLES
    row,        \* the durable job behind each dispatch
    live,       \* its claim lease has not expired
    pc,         \* where each processor coroutine waits
    verdict,    \* the outcome a coroutine is publishing
    cancelled,  \* control.cancellation_requested
    claims,     \* _claims: registered executions
    lost,       \* _ownership_lost
    pending,    \* _pending_claims
    accepting,  \* _accepting
    drained,    \* the _drained event
    phase,      \* up; shutdown(): draining, woken, stopped; closed; crashed
    monitor,    \* _monitor: asleep, or waiting for a heartbeat batch
    batch,      \* the claims of that batch
    answer      \* what the store renewed, and for which it saw a cancellation

storeVars == <<row, live>>
coroutineVars == <<pc, verdict, cancelled>>
registryVars == <<claims, lost, pending, accepting, drained>>
monitorVars == <<monitor, batch, answer>>
vars == <<storeVars, coroutineVars, registryVars, phase, monitorVars>>

Owned == {"owned", "cancelling"}
NoAnswer == [renewed |-> {}, cancelling |-> {}]

\* Coroutines that hold a registration, and those inside claim_dispatch.
Registered == {"executing", "publishing", "published", "refused",
               "cleaning", "cancelling"}
Claiming == {"claiming", "claimed", "unclaimed"}

Full == Cardinality(claims) + pending >= MaxActiveClaims

Alive == phase \notin {"closed", "crashed"}

-----------------------------------------------------------------------------
(* _drained is an asyncio.Event: set() completes the future of a waiting   *)
(* shutdown() for good, a later clear() does not take that back.           *)

\* _update_drained_state with the given registry, and shutdown()'s wake-up.
UpdateDrained(p, c) ==
    /\ drained' = (p = 0 /\ c = {})
    /\ phase' = IF p = 0 /\ c = {} /\ phase = "draining" THEN "woken" ELSE phase

\* Mutation: release() leaves _drained alone.
MutReleaseSilently(d) ==
    /\ claims' = claims \ {d}
    /\ lost' = lost \ {d}
    /\ UNCHANGED <<pending, accepting, drained, phase>>

\* release(): the processor's finally block.
Release(d) ==
    /\ claims' = claims \ {d}
    /\ lost' = lost \ {d}
    /\ UpdateDrained(pending, claims \ {d})
    /\ UNCHANGED <<pending, accepting>>

-----------------------------------------------------------------------------
(* TranscriptionJobProcessor.process and ExecutionClaimManager.claim. *)

\* process() starts: admission is closed or full, or the GPU is probed.  The
\* runtime drops deliveries once its shutdown has begun.
Deliver(d) ==
    /\ phase = "up"
    /\ pc[d] = "idle"
    /\ pc' = [pc EXCEPT ![d] = IF ~accepting \/ Full THEN "done" ELSE "probing"]
    /\ UNCHANGED <<storeVars, verdict, cancelled, registryVars, phase, monitorVars>>

\* Mutation: capacity is not checked again after the probe.
MutProbeIgnoresCapacity(d, ready) ==
    /\ Alive
    /\ pc[d] = "probing"
    /\ IF ready /\ accepting
       THEN /\ pc' = [pc EXCEPT ![d] = "claiming"]
            /\ pending' = pending + 1
            /\ UpdateDrained(pending + 1, claims)
       ELSE /\ pc' = [pc EXCEPT ![d] = "done"]
            /\ UNCHANGED <<pending, drained, phase>>
    /\ UNCHANGED <<storeVars, verdict, cancelled, claims, lost, accepting, monitorVars>>

\* Mutation: admission is not checked again after the probe.
MutProbeIgnoresStop(d, ready) ==
    /\ Alive
    /\ pc[d] = "probing"
    /\ IF ready /\ ~Full
       THEN /\ pc' = [pc EXCEPT ![d] = "claiming"]
            /\ pending' = pending + 1
            /\ UpdateDrained(pending + 1, claims)
       ELSE /\ pc' = [pc EXCEPT ![d] = "done"]
            /\ UNCHANGED <<pending, drained, phase>>
    /\ UNCHANGED <<storeVars, verdict, cancelled, claims, lost, accepting, monitorVars>>

\* claim_ready() returns; admission is checked again after the await.
Probe(d, ready) ==
    /\ Alive
    /\ pc[d] = "probing"
    /\ IF ready /\ accepting /\ ~Full
       THEN /\ pc' = [pc EXCEPT ![d] = "claiming"]
            /\ pending' = pending + 1
            /\ UpdateDrained(pending + 1, claims)
       ELSE /\ pc' = [pc EXCEPT ![d] = "done"]
            /\ UNCHANGED <<pending, drained, phase>>
    /\ UNCHANGED <<storeVars, verdict, cancelled, claims, lost, accepting, monitorVars>>

\* claim_dispatch commits, finds the dispatch stale, or fails without a
\* commit.
StoreClaims(d) ==
    /\ Alive
    /\ pc[d] = "claiming"
    /\ \/ /\ row[d] = "queued"
          /\ row' = [row EXCEPT ![d] = "owned"]
          /\ live' = [live EXCEPT ![d] = TRUE]
          /\ pc' = [pc EXCEPT ![d] = "claimed"]
       \/ /\ pc' = [pc EXCEPT ![d] = "unclaimed"]
          /\ UNCHANGED storeVars
    /\ UNCHANGED <<verdict, cancelled, registryVars, phase, monitorVars>>

\* The claim is not this worker's: claim_dispatch answered None or raised.
ClaimRefused(d) ==
    /\ Alive
    /\ pc[d] \in {"claimed", "unclaimed"}   \* a commit whose answer is lost raises
    /\ pc' = [pc EXCEPT ![d] = "done"]
    /\ pending' = pending - 1
    /\ UpdateDrained(pending - 1, claims)
    /\ UNCHANGED <<storeVars, verdict, cancelled, claims, lost, accepting, monitorVars>>

\* The claim is registered.  The finally block updates _drained before the
\* registration does: with nothing else in flight the event is set, which
\* wakes shutdown(), and only then cleared.
ClaimReturns(d) ==
    /\ Alive
    /\ pc[d] = "claimed"
    /\ pc' = [pc EXCEPT ![d] = "executing"]
    /\ pending' = pending - 1
    /\ claims' = claims \cup {d}
    /\ drained' = FALSE
    /\ phase' = IF phase = "draining" /\ pending = 1 /\ claims = {}
                THEN "woken" ELSE phase
    /\ UNCHANGED <<storeVars, verdict, cancelled, lost, accepting, monitorVars>>

\* The executor returns a result or raises.  A cancellation signalled by
\* then (or raised by the executor) is published after cleanup; anything
\* else is published as success or failure.
ExecutionEnds(d, outcome) ==
    /\ Alive
    /\ pc[d] = "executing"
    /\ IF cancelled[d]
       THEN /\ pc' = [pc EXCEPT ![d] = "cleaning"]
            /\ UNCHANGED verdict
       ELSE /\ pc' = [pc EXCEPT ![d] = "publishing"]
            /\ verdict' = [verdict EXCEPT ![d] = outcome]
    /\ UNCHANGED <<storeVars, cancelled, registryVars, phase, monitorVars>>

\* publish_success or publish_failure: needs the live claim and no accepted
\* cancellation.
StorePublishes(d) ==
    /\ Alive
    /\ pc[d] = "publishing"
    /\ IF row[d] = "owned" /\ live[d]
       THEN /\ row' = [row EXCEPT ![d] = verdict[d]]
            /\ pc' = [pc EXCEPT ![d] = "published"]
       ELSE /\ pc' = [pc EXCEPT ![d] = "refused"]
            /\ UNCHANGED row
    /\ UNCHANGED <<live, verdict, cancelled, registryVars, phase, monitorVars>>

\* A refused publication turns to the cancellation path.
PublishRefused(d) ==
    /\ Alive
    /\ pc[d] = "refused"
    /\ pc' = [pc EXCEPT ![d] = "cleaning"]
    /\ UNCHANGED <<storeVars, verdict, cancelled, registryVars, phase, monitorVars>>

\* Mutation: cleanup is only signalled to a locally cancelled execution.
MutCleanupNeedsSignal(d) ==
    /\ Alive
    /\ pc[d] = "cleaning" /\ cancelled[d]
    /\ pc' = [pc EXCEPT ![d] = "cancelling"]
    /\ UNCHANGED <<storeVars, verdict, cancelled, registryVars, phase, monitorVars>>

\* cleanup_complete is set once provider and native work has let go.
CleanupCompletes(d) ==
    /\ Alive
    /\ pc[d] = "cleaning"
    /\ pc' = [pc EXCEPT ![d] = "cancelling"]
    /\ UNCHANGED <<storeVars, verdict, cancelled, registryVars, phase, monitorVars>>

\* publish_cancelled: needs the live claim and the accepted cancellation.
\* Either way nothing is left to publish.
StorePublishesCancelled(d) ==
    /\ Alive
    /\ pc[d] = "cancelling"
    /\ row' = IF row[d] = "cancelling" /\ live[d]
              THEN [row EXCEPT ![d] = "cancelled"] ELSE row
    /\ pc' = [pc EXCEPT ![d] = "published"]
    /\ UNCHANGED <<live, verdict, cancelled, registryVars, phase, monitorVars>>

\* Mutation: no finally block around the publication.
MutProcessEndsUnreleased(d) ==
    /\ Alive
    /\ pc[d] \in {"published", "publishing", "cancelling"}
    /\ pc' = [pc EXCEPT ![d] = "done"]
    /\ UNCHANGED <<storeVars, verdict, cancelled, registryVars, phase, monitorVars>>

\* The coroutine ends, after its last publication or because the store
\* raised during one.
ProcessEnds(d) ==
    /\ Alive
    /\ pc[d] \in {"published", "publishing", "cancelling"}
    /\ pc' = [pc EXCEPT ![d] = "done"]
    /\ Release(d)
    /\ UNCHANGED <<storeVars, verdict, cancelled, monitorVars>>

-----------------------------------------------------------------------------
(* The heartbeat monitor. *)

MonitorWakes ==
    /\ Alive /\ monitor = "asleep"
    /\ claims \ lost # {}
    /\ batch' = claims \ lost
    /\ monitor' = "renewing"
    /\ UNCHANGED <<storeVars, coroutineVars, registryVars, phase, answer>>

\* heartbeat_claims: renews what is still owned under a live lease, and
\* reports the accepted cancellations it saw.
StoreRenews ==
    /\ Alive /\ monitor = "renewing"
    /\ LET renewed == {d \in batch : row[d] \in Owned /\ live[d]}
       IN  answer' = [renewed |-> renewed,
                      cancelling |-> {d \in renewed : row[d] = "cancelling"}]
    /\ monitor' = "answered"
    /\ UNCHANGED <<storeVars, coroutineVars, registryVars, phase, batch>>

\* Claims the store did not renew are lost; lost and cancelled executions
\* are told to stop.  Claims released meanwhile are passed over.
MonitorApplies ==
    /\ Alive /\ monitor = "answered"
    /\ LET gone == (batch \cap claims) \ answer.renewed
       IN  /\ lost' = lost \cup gone
           /\ cancelled' = [d \in Dispatches |->
                              cancelled[d] \/ d \in gone
                              \/ d \in claims \cap answer.cancelling]
    /\ monitor' = "asleep"
    /\ batch' = {} /\ answer' = NoAnswer
    /\ UNCHANGED <<storeVars, pc, verdict, claims, pending, accepting, drained, phase>>

\* Mutation: a failed heartbeat is taken for lost ownership.
MutMonitorGuesses ==
    /\ Alive /\ monitor \in {"renewing", "answered"}
    /\ lost' = lost \cup (batch \cap claims)
    /\ cancelled' = [d \in Dispatches |-> cancelled[d] \/ d \in batch \cap claims]
    /\ monitor' = "asleep"
    /\ batch' = {} /\ answer' = NoAnswer
    /\ UNCHANGED <<storeVars, pc, verdict, claims, pending, accepting, drained, phase>>

\* The store is unavailable to the monitor: nothing is concluded.
MonitorFails ==
    /\ Alive /\ monitor \in {"renewing", "answered"}
    /\ monitor' = "asleep"
    /\ batch' = {} /\ answer' = NoAnswer
    /\ UNCHANGED <<storeVars, coroutineVars, registryVars, phase>>

-----------------------------------------------------------------------------
(* Shutdown and crash. *)

\* stop_claiming(): Celery's shutdown signal closes admission early.
stop_accepting ==
    /\ Alive /\ accepting
    /\ accepting' = FALSE
    /\ UNCHANGED <<storeVars, coroutineVars, claims, lost, pending, drained,
                   phase, monitorVars>>

\* shutdown() up to its wait for _drained.
shutdown ==
    /\ phase = "up"
    /\ accepting' = FALSE
    /\ phase' = IF drained THEN "woken" ELSE "draining"
    /\ UNCHANGED <<storeVars, coroutineVars, claims, lost, pending, drained, monitorVars>>

\* shutdown() resumes and cancels the monitor.
StopMonitor ==
    /\ phase = "woken"
    /\ phase' = "stopped"
    /\ monitor' = "stopped"
    /\ batch' = {} /\ answer' = NoAnswer
    /\ UNCHANGED <<storeVars, coroutineVars, registryVars>>

\* Everything in memory is gone; only the store remembers.
Vanish(end) ==
    /\ phase' = end
    /\ pc' = [d \in Dispatches |-> IF pc[d] = "idle" THEN "idle" ELSE "done"]
    /\ cancelled' = [d \in Dispatches |-> FALSE]
    /\ claims' = {} /\ lost' = {} /\ pending' = 0
    /\ accepting' = FALSE /\ drained' = TRUE
    /\ monitor' = "stopped" /\ batch' = {} /\ answer' = NoAnswer
    /\ UNCHANGED <<storeVars, verdict>>

\* The runtime tears its loop down after the manager's shutdown: coroutines
\* that are still there are cancelled, and publish nothing.
CloseLoop == phase = "stopped" /\ Vanish("closed")

\* The process dies.
Crash == Alive /\ Vanish("crashed")

-----------------------------------------------------------------------------
(* The rest of the system: clients, the clock, the reconciler, others. *)

\* request_cancellation, for a queued or a processing job.
ClientCancels(d) ==
    /\ \/ row[d] = "owned" /\ row' = [row EXCEPT ![d] = "cancelling"]
       \/ row[d] = "queued" /\ row' = [row EXCEPT ![d] = "cancelled"]
    /\ UNCHANGED <<live, coroutineVars, registryVars, phase, monitorVars>>

\* The job leaves the queue without this worker: another worker claims it or
\* its deadline passes.
LeavesQueue(d) ==
    /\ row[d] = "queued"
    /\ row' = [row EXCEPT ![d] = "elsewhere"]
    /\ UNCHANGED <<live, coroutineVars, registryVars, phase, monitorVars>>

\* A whole lease goes by without a renewal.
LeaseLapses(d) ==
    /\ row[d] \in Owned /\ live[d]
    /\ live' = [live EXCEPT ![d] = FALSE]
    /\ UNCHANGED <<row, coroutineVars, registryVars, phase, monitorVars>>

\* Mutation: recovery selects jobs without an accepted cancellation only.
MutRecoverSkipsCancelled(d) ==
    /\ row[d] = "owned" /\ ~live[d]
    /\ row' = [row EXCEPT ![d] = "failed"]
    /\ UNCHANGED <<live, coroutineVars, registryVars, phase, monitorVars>>

\* recover_expired_claims, run by the reconciler.
RecoverClaim(d) ==
    /\ row[d] \in Owned /\ ~live[d]
    /\ row' = [row EXCEPT ![d] = IF @ = "cancelling" THEN "cancelled" ELSE "failed"]
    /\ UNCHANGED <<live, coroutineVars, registryVars, phase, monitorVars>>

-----------------------------------------------------------------------------

Init ==
    /\ row = [d \in Dispatches |-> "queued"]
    /\ live = [d \in Dispatches |-> FALSE]
    /\ pc = [d \in Dispatches |-> "idle"]
    /\ verdict = [d \in Dispatches |-> "failed"]
    /\ cancelled = [d \in Dispatches |-> FALSE]
    /\ claims = {} /\ lost = {} /\ pending = 0
    /\ accepting = TRUE /\ drained = TRUE
    /\ phase = "up"
    /\ monitor = "asleep" /\ batch = {} /\ answer = NoAnswer

Coroutine(d) ==
    \/ \E ready \in BOOLEAN : Probe(d, ready)
    \/ StoreClaims(d) \/ ClaimRefused(d) \/ ClaimReturns(d)
    \/ \E outcome \in {"succeeded", "failed"} : ExecutionEnds(d, outcome)
    \/ StorePublishes(d) \/ PublishRefused(d) \/ CleanupCompletes(d)
    \/ StorePublishesCancelled(d) \/ ProcessEnds(d)

Monitor == MonitorWakes \/ StoreRenews \/ MonitorApplies \/ MonitorFails

Environment(d) == ClientCancels(d) \/ LeavesQueue(d) \/ LeaseLapses(d) \/ RecoverClaim(d)

Next ==
    \/ \E d \in Dispatches : Deliver(d) \/ Coroutine(d) \/ Environment(d)
    \/ Monitor
    \/ stop_accepting \/ shutdown \/ StopMonitor \/ CloseLoop \/ Crash

\* The event loop runs every coroutine that can run, executions are bounded
\* by their timeouts, a lease nobody renews runs out, and the reconciler
\* keeps scanning.  Nothing makes a client act or a process shut down.
Fairness ==
    /\ \A d \in Dispatches : WF_vars(Coroutine(d))
    /\ \A d \in Dispatches : WF_vars(RecoverClaim(d))
    /\ \A d \in Dispatches : WF_vars(LeaseLapses(d) /\ d \notin claims)
    /\ WF_vars(StopMonitor)

Spec == Init /\ [][Next]_vars /\ Fairness

-----------------------------------------------------------------------------
(* Properties. *)

\* Every variable has its type.
TypeOK ==
    /\ row \in [Dispatches -> {"queued", "owned", "cancelling", "elsewhere",
                               "succeeded", "failed", "cancelled"}]
    /\ live \in [Dispatches -> BOOLEAN]
    /\ pc \in [Dispatches -> {"idle", "probing", "done"} \cup Claiming \cup Registered]
    /\ verdict \in [Dispatches -> {"succeeded", "failed"}]
    /\ cancelled \in [Dispatches -> BOOLEAN]
    /\ claims \subseteq Dispatches
    /\ lost \subseteq Dispatches
    /\ pending \in Nat
    /\ accepting \in BOOLEAN
    /\ drained \in BOOLEAN
    /\ phase \in {"up", "draining", "woken", "stopped", "closed", "crashed"}
    /\ monitor \in {"asleep", "renewing", "answered", "stopped"}
    /\ batch \subseteq Dispatches
    /\ answer \in [renewed : SUBSET Dispatches, cancelling : SUBSET Dispatches]

\* The coroutines between two awaits never leave more claims, registered or
\* in flight, than the worker's concurrency, although admission is decided
\* on both sides of an await.
ActiveWithinLimit == Cardinality(claims) + pending <= MaxActiveClaims

\* The registry is exact at every await: an execution is registered from the
\* answer of its claim to its last publication, and only then.
RegistryIsExact ==
    /\ claims = {d \in Dispatches : pc[d] \in Registered}
    /\ pending = Cardinality({d \in Dispatches : pc[d] \in Claiming})
    /\ lost \subseteq claims

\* A claim is given up as lost only when the store will never again let this
\* worker renew or publish it, whatever happened since the heartbeat.
LostForGood == \A d \in lost : ~(row[d] \in Owned /\ live[d])

\* Once admission is closed no coroutine enters claim_dispatch, even one that
\* was waiting for the GPU probe at the time.
NothingClaimedAfterStop == [][~accepting => pending' <= pending]_vars

\* Whatever fails or dies, a job this worker claimed does not stay processing.
OwnedJobSettles ==
    \A d \in Dispatches : row[d] \in Owned ~> row[d] \notin Owned

\* An accepted cancellation of a processing job ends in the cancelled
\* outcome, whether the worker or the reconciler publishes it.
CancellationHonoured ==
    \A d \in Dispatches : row[d] = "cancelling" ~> row[d] = "cancelled"

\* shutdown() does not wait for ever.
ShutdownCompletes == phase = "draining" ~> phase \notin {"draining", "woken"}

\* shutdown() is documented to retain heartbeats while registered work
\* drains: the monitor is not stopped under a registered execution.
HeartbeatsWhileDraining == phase = "stopped" => claims = {}
=============================================================================
