----------------------------- MODULE NativeWork -----------------------------
(***************************************************************************)
(* What one worker process holds while it executes jobs: temporary media   *)
(* directories, provider threads and inference permits.  Models            *)
(* TranscriptionExecutor.execute of transcription/service.py and           *)
(* WhisperAcquirer and TranscriptionOwnership of                           *)
(* transcription/acquisition.py.  A step of an execution runs from one     *)
(* await to the next, its finally blocks included; the threads it started  *)
(* (asyncio.to_thread) cannot be stopped and answer when they like, before *)
(* or after the deadline that was set for them.  The module ends with the  *)
(* model's unloading: the loop, and what still runs on it, is stopped      *)
(* later (GpuWorkers, WorkerLoop).                                         *)
(***************************************************************************)
EXTENDS Integers, FiniteSets

CONSTANTS
    Executions,  \* executions of claimed jobs in the worker's lifetime
    MaxPermits   \* transcription_concurrency

ASSUME PermitsAssumption == MaxPermits \in Nat \ {0}
ASSUME ExecutionsAssumption == IsFiniteSet(Executions)

VARIABLES
    run,      \* the local and owned state of each execution
    stop,     \* control.cancellation_requested
    permits,  \* free permits of _inference_semaphore
    phase,    \* of the executor: up, draining in shutdown(), unloaded
    missed    \* the execution the claim manager's drain did not wait for, if any

vars == <<run, stop, permits, phase, missed>>

Outcome == {"none", "returned", "failed", "cancelled", "aborted"}

Run ==
    [pc : {"idle", "metadata", "metadata late", "captions", "validate", "download",
           "download late", "permit", "permitted", "native", "ended"},
     outcome : Outcome,                             \* what execute() ends with
     work : {"none", "metadata", "captions", "validate", "download", "native"},
     thread : {"none", "running", "ok", "failed"},  \* of that work
     media : SUBSET {"prepared", "request"},        \* directories on disk
     owned : BOOLEAN,                               \* TranscriptionOwnership exists
     retained : BOOLEAN, callerDone : BOOLEAN,      \* its fields
     nativeDone : BOOLEAN, released : BOOLEAN,
     finalizer : BOOLEAN,                           \* in _native_finalizers
     cleaned : BOOLEAN]                             \* control.cleanup_complete

Fresh ==
    [pc |-> "idle", outcome |-> "none", work |-> "none", thread |-> "none",
     media |-> {}, owned |-> FALSE, retained |-> FALSE, callerDone |-> FALSE,
     nativeDone |-> FALSE, released |-> FALSE, finalizer |-> FALSE, cleaned |-> FALSE]

At(e, pc) == run[e].pc = pc
Answered(e) == run[e].thread # "running"
Set(e, r) == run' = [run EXCEPT ![e] = r]
Spawn(r, pc, work) == [r EXCEPT !.pc = pc, !.work = work, !.thread = "running"]

-----------------------------------------------------------------------------
(* TranscriptionOwnership and the finally blocks. *)

\* _release_when_finished
ReleaseWhenFinished(r) ==
    IF r.released \/ ~r.callerDone \/ (r.retained /\ ~r.nativeDone) THEN r
    ELSE [r EXCEPT !.released = TRUE, !.media = @ \ {"prepared"}, !.cleaned = TRUE]

finish_caller(r) == ReleaseWhenFinished([r EXCEPT !.callerDone = TRUE])

\* Mutation: the finalizer's completion is not looked at again.
MutCompleteQuietly(r) == [r EXCEPT !.nativeDone = TRUE]

complete_native_work(r) == ReleaseWhenFinished([r EXCEPT !.nativeDone = TRUE])

\* Mutation: the ownership is not told of the native work.
MutRetainUntold(r) == [r EXCEPT !.finalizer = TRUE]

\* _retain_abandoned_native_work
Retain(r) == ReleaseWhenFinished([r EXCEPT !.retained = TRUE, !.finalizer = TRUE])

\* execute()'s finally: media that no ownership took is cleaned here.
Leave(r, outcome) ==
    LET left == [r EXCEPT !.pc = "ended", !.outcome = outcome]
    IN  IF r.owned THEN finish_caller(left)
        ELSE [left EXCEPT !.media = @ \ {"prepared"}, !.cleaned = TRUE]

\* acquire()'s finally, for a request directory that is still its own.
LeaveAcquire(r, outcome) == Leave([r EXCEPT !.media = @ \ {"request"}], outcome)

\* A provider failure is reported as the cancellation that was accepted.
Failure(e) == IF stop[e] THEN "cancelled" ELSE "failed"

-----------------------------------------------------------------------------
(* execute() up to the acquisition of audio. *)

\* Claims are closed before the executor is shut down; the one whose answer
\* woke the drain starts all the same.
Execute(e) ==
    /\ phase = "up" \/ (phase = "draining" /\ e \in missed)
    /\ At(e, "idle")
    /\ Set(e, Spawn(run[e], "metadata", "metadata"))
    /\ UNCHANGED <<stop, permits, phase, missed>>

\* A thread returns or raises.  Inspection may have downloaded audio.
ThreadEnds(e) ==
    /\ run[e].thread = "running"
    /\ \/ Set(e, [run[e] EXCEPT !.thread = "failed"])
       \/ \E prepared \in IF run[e].work = "metadata" THEN {{}, {"prepared"}} ELSE {{}} :
            Set(e, [run[e] EXCEPT !.thread = "ok", !.media = @ \cup prepared])
    /\ UNCHANGED <<stop, permits, phase, missed>>

\* acquire() begins: prepared audio is validated, otherwise audio is
\* downloaded into a new request directory, if one can be made.
Acquire(e, r) ==
    LET o == [r EXCEPT !.owned = TRUE]
    IN  IF "prepared" \in r.media THEN Set(e, Spawn(o, "validate", "validate"))
        ELSE \/ Set(e, Spawn([o EXCEPT !.media = @ \cup {"request"}], "download", "download"))
             \/ Set(e, LeaveAcquire(o, Failure(e)))

\* Metadata arrives in time: limits are checked, then captions are tried or
\* audio is acquired.
MetadataReturns(e) ==
    /\ At(e, "metadata") /\ Answered(e)
    /\ IF run[e].thread = "failed" THEN Set(e, Leave(run[e], "failed"))
       ELSE IF stop[e] THEN Set(e, Leave(run[e], "cancelled"))
       ELSE \/ Set(e, Leave(run[e], "failed"))
            \/ Set(e, Spawn(run[e], "captions", "captions"))
            \/ Acquire(e, run[e])
    /\ UNCHANGED <<stop, permits, phase, missed>>

\* The deadline fires, or the caller is cancelled; both wait for the thread.
MetadataInterrupted(e, outcome) ==
    /\ At(e, "metadata")
    /\ Set(e, [run[e] EXCEPT !.pc = "metadata late", !.outcome = outcome])
    /\ UNCHANGED <<stop, permits, phase, missed>>

\* _finish_cancelled_metadata cleans audio nobody adopted.
MetadataFinishesLate(e) ==
    /\ At(e, "metadata late") /\ Answered(e)
    /\ Set(e, Leave([run[e] EXCEPT !.media = @ \ {"prepared"}], run[e].outcome))
    /\ UNCHANGED <<stop, permits, phase, missed>>

\* Captions are the result, or unavailable and audio is acquired.
CaptionsReturn(e) ==
    /\ At(e, "captions") /\ Answered(e)
    /\ IF stop[e] THEN Set(e, Leave(run[e], "cancelled"))
       ELSE \/ run[e].thread = "ok" /\ Set(e, Leave(run[e], "returned"))
            \/ Acquire(e, run[e])
    /\ UNCHANGED <<stop, permits, phase, missed>>

-----------------------------------------------------------------------------
(* WhisperAcquirer.acquire *)

\* _prepare_audio ends: the permit is waited for unless a cancellation won.
AudioReturns(e) ==
    /\ At(e, "validate") \/ At(e, "download")
    /\ Answered(e)
    /\ Set(e, IF run[e].thread = "failed" THEN LeaveAcquire(run[e], Failure(e))
              ELSE IF stop[e] THEN LeaveAcquire(run[e], "cancelled")
              ELSE [run[e] EXCEPT !.pc = "permit"])
    /\ UNCHANGED <<stop, permits, phase, missed>>

DownloadInterrupted(e, outcome) ==
    /\ At(e, "download")
    /\ Set(e, [run[e] EXCEPT !.pc = "download late", !.outcome = outcome])
    /\ UNCHANGED <<stop, permits, phase, missed>>

\* _finish_cancelled_download: the directory goes only after the thread.
DownloadFinishesLate(e) ==
    /\ At(e, "download late") /\ Answered(e)
    /\ Set(e, LeaveAcquire(run[e], IF run[e].outcome = "aborted" THEN "aborted"
                                   ELSE Failure(e)))
    /\ UNCHANGED <<stop, permits, phase, missed>>

\* The permit wins the race against the cancellation.
PermitAcquired(e) ==
    /\ At(e, "permit") /\ permits > 0
    /\ permits' = permits - 1
    /\ Set(e, [run[e] EXCEPT !.pc = "permitted"])
    /\ UNCHANGED <<stop, phase, missed>>

\* The cancellation wins; a permit that came with it is put back.
CancellationWins(e) ==
    /\ At(e, "permit") /\ stop[e]
    /\ Set(e, LeaveAcquire(run[e], "cancelled"))
    /\ UNCHANGED <<stop, permits, phase, missed>>

\* The wait for the cancelled waiter is over.  A cancellation that came
\* meanwhile raises before the block whose finally releases the permit.
StartNative(e) ==
    /\ At(e, "permitted")
    /\ Set(e, IF stop[e] THEN LeaveAcquire(run[e], "cancelled")
              ELSE Spawn(run[e], "native", "native"))
    /\ UNCHANGED <<stop, permits, phase, missed>>

NativeReturns(e) ==
    /\ At(e, "native") /\ Answered(e)
    /\ permits' = permits + 1
    /\ Set(e, LeaveAcquire(run[e], IF run[e].thread = "failed" THEN "failed"
                                   ELSE IF stop[e] THEN "cancelled" ELSE "returned"))
    /\ UNCHANGED <<stop, phase, missed>>

\* Mutation: the permit is given back at the timeout.
MutNativeAbandonedEarly(e, outcome) ==
    /\ At(e, "native")
    /\ Set(e, Leave(Retain(run[e]), outcome))
    /\ permits' = permits + 1
    /\ UNCHANGED <<stop, phase, missed>>

\* The deadline fires or the caller is cancelled: permit, media and request
\* directory pass to a finalizer.
NativeAbandoned(e, outcome) ==
    /\ At(e, "native")
    /\ Set(e, Leave(Retain(run[e]), outcome))
    /\ UNCHANGED <<stop, permits, phase, missed>>

\* _finalize_abandoned_native_work
Finalize(e) ==
    /\ run[e].finalizer /\ Answered(e)
    /\ permits' = permits + 1
    /\ Set(e, complete_native_work([run[e] EXCEPT !.media = @ \ {"request"},
                                                  !.finalizer = FALSE]))
    /\ UNCHANGED <<stop, phase, missed>>

\* asyncio.CancelledError at an await that has nothing to wait for.  While
\* the permitted execution waits for its cancelled waiter the error is taken
\* for the waiter's.
CallerCancelled(e) ==
    /\ \/ At(e, "captions") /\ Set(e, Leave(run[e], "aborted"))
       \/ At(e, "validate") /\ Set(e, LeaveAcquire(run[e], "aborted"))
       \/ At(e, "permit") /\ Set(e, LeaveAcquire(run[e], "aborted"))
    /\ UNCHANGED <<stop, permits, phase, missed>>

-----------------------------------------------------------------------------

\* The claim monitor signals an accepted cancellation or a lost claim; it is
\* stopped when the claims have drained.
request_cancellation(e) ==
    /\ phase = "up"
    /\ ~At(e, "idle") /\ ~stop[e]
    /\ stop' = [stop EXCEPT ![e] = TRUE]
    /\ UNCHANGED <<run, permits, phase, missed>>

\* The runtime shuts the executor down when the claim manager's drain is
\* over: every registered execution has ended, but a claim that was in
\* flight sets the drained event when its answer arrives, before it
\* registers the execution, and with nothing else registered that wakes the
\* drain (ClaimManager, HeartbeatsWhileDraining).
shutdown ==
    /\ phase = "up"
    /\ \A e \in Executions : run[e].pc \in {"idle", "ended"}
    /\ phase' = "draining"
    /\ missed' \in {{}} \cup {{e} : e \in {x \in Executions : At(x, "idle")}}
    /\ UNCHANGED <<run, stop, permits>>

\* Mutation: finalizers are not awaited.
MutUnloadAtOnce ==
    phase = "draining" /\ phase' = "unloaded" /\ UNCHANGED <<run, stop, permits, missed>>

\* The model is unloaded after the last finalizer: shutdown() waits for no
\* execution, only for what executions have left behind.
Unload ==
    /\ phase = "draining"
    /\ \A e \in Executions : ~run[e].finalizer
    /\ phase' = "unloaded"
    /\ UNCHANGED <<run, stop, permits, missed>>

Init ==
    /\ run = [e \in Executions |-> Fresh]
    /\ stop = [e \in Executions |-> FALSE]
    /\ permits = MaxPermits
    /\ phase = "up"
    /\ missed = {}

\* What the event loop does for an execution without outside help.
Proceed(e) ==
    \/ MetadataReturns(e) \/ MetadataFinishesLate(e) \/ CaptionsReturn(e)
    \/ AudioReturns(e) \/ DownloadFinishesLate(e) \/ CancellationWins(e)
    \/ StartNative(e) \/ NativeReturns(e) \/ Finalize(e)

Interrupt(e) ==
    \/ \E outcome \in {"failed", "aborted"} :
         \/ MetadataInterrupted(e, outcome) \/ DownloadInterrupted(e, outcome)
         \/ NativeAbandoned(e, outcome)
    \/ CallerCancelled(e)

Next ==
    \/ \E e \in Executions :
         \/ Execute(e) \/ ThreadEnds(e) \/ PermitAcquired(e) \/ Proceed(e)
         \/ Interrupt(e) \/ request_cancellation(e)
    \/ shutdown \/ Unload

\* The event loop runs what can run, and every thread ends some time: the
\* providers have socket timeouts and native inference is finite.
Fairness ==
    /\ \A e \in Executions : WF_vars(Proceed(e)) /\ WF_vars(ThreadEnds(e))
    /\ WF_vars(Unload)

Spec == Init /\ [][Next]_vars /\ Fairness

-----------------------------------------------------------------------------
(* Properties. *)

\* Every variable has its type; there are never more permits than configured.
TypeOK ==
    /\ run \in [Executions -> Run]
    /\ stop \in [Executions -> BOOLEAN]
    /\ permits \in 0 .. MaxPermits
    /\ phase \in {"up", "draining", "unloaded"}
    /\ missed \in {{}} \cup {{e} : e \in Executions}

\* The cancelled outcome is published when cleanup_complete is set.  By then
\* nothing of the execution is left on disk and no thread that reads the
\* content of its files or writes them is running, whichever of caller and
\* finalizer came last.  (The thread that validates prepared audio may be
\* left behind by a cancelled caller: it asks for the file's size and type.)
CleanupMeansReleased ==
    \A e \in Executions : run[e].cleaned =>
        /\ run[e].media = {}
        /\ run[e].thread = "running" => run[e].work \in {"captions", "validate"}

\* The GPU never runs more inferences than the model has workers, counting
\* those whose jobs have long been reported as timed out.
NativeWithinPermits ==
    Cardinality({e \in Executions : run[e].work = "native" /\ run[e].thread = "running"})
      <= MaxPermits

\* The model is not unloaded under an inference that an execution left
\* behind at its deadline, nor under any execution the drain knew of.  The
\* one it missed may start inference on a model that is gone: executor
\* shutdown does not look at executions.
UnloadedWhenIdle ==
    phase = "unloaded" =>
      \A e \in Executions \ missed : ~(run[e].work = "native" /\ run[e].thread = "running")

\* Every accepted cancellation comes to the point where it can be published,
\* even when the execution waits for a permit that never comes.
CancellationFinishes == \A e \in Executions : stop[e] ~> run[e].cleaned

\* A permit is out exactly while an inference is being started, running or
\* waiting for its finalizer: test_durable_cancellation_keeps_a_waiting_job_
\* outside_transcriber keeps "the native permit after Cancellation until its
\* running call returns" and then lets the waiting job have it.
PermitsReturned ==
    permits + Cardinality({e \in Executions :
        run[e].pc \in {"permitted", "native"} \/ run[e].finalizer}) = MaxPermits
=============================================================================
