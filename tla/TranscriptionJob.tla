-------------------------- MODULE TranscriptionJob --------------------------
(***************************************************************************)
(* What the service promises of a Transcription Job, with no clock, lease, *)
(* broker or worker in sight: the lifecycle of JobStatus and JobOutcome in *)
(* jobs/types.py.  A job is admitted within the capacity, starts at most   *)
(* once, finishes exactly once, and an accepted cancellation decides how.  *)
(* Several jobs may move in one step, as the store's batches do.           *)
(***************************************************************************)
EXTENDS Integers, FiniteSets

CONSTANTS Jobs, Capacity

VARIABLES
    phase,       \* where the job is in its lifecycle
    cancelling   \* a cancellation was accepted while the job was processing

jobVars == <<phase, cancelling>>

Active == {"queued", "processing"}
Terminal == {"succeeded", "failed", "cancelled"}
Phase == Active \cup Terminal \cup {"unsubmitted", "deleted"}

JobsIn(phases) == {j \in Jobs : phase[j] \in phases}

\* The moves of one job that need no admission decision.
Start(j) ==
    phase[j] = "queued" /\ phase'[j] = "processing" /\ cancelling'[j] = FALSE

LeaveQueue(j) ==
    /\ phase[j] = "queued"
    /\ phase'[j] \in {"failed", "cancelled"}
    /\ cancelling'[j] = FALSE

AcceptCancellation(j) ==
    /\ phase[j] = "processing" /\ ~cancelling[j]
    /\ phase'[j] = "processing" /\ cancelling'[j] = TRUE

\* Cancelled exactly when a cancellation was accepted.
Finish(j) ==
    /\ phase[j] = "processing"
    /\ phase'[j] \in IF cancelling[j] THEN {"cancelled"} ELSE {"succeeded", "failed"}
    /\ cancelling'[j] = cancelling[j]

Forget(j) ==
    phase[j] \in Terminal /\ phase'[j] = "deleted" /\ cancelling'[j] = FALSE

Stay(j) == phase'[j] = phase[j] /\ cancelling'[j] = cancelling[j]

JobStep(j) ==
    \/ Start(j) \/ LeaveQueue(j) \/ AcceptCancellation(j)
    \/ Finish(j) \/ Forget(j) \/ Stay(j)

\* One new job, in the queue, when the capacity allows it.
Admit(j) ==
    /\ phase[j] = "unsubmitted"
    /\ Cardinality(JobsIn(Active)) < Capacity
    /\ phase' = [phase EXCEPT ![j] = "queued"]
    /\ UNCHANGED cancelling

Move ==
    /\ phase' \in [Jobs -> Phase]
    /\ cancelling' \in [Jobs -> BOOLEAN]
    /\ \A j \in Jobs : JobStep(j)

Init ==
    /\ phase = [j \in Jobs |-> "unsubmitted"]
    /\ cancelling = [j \in Jobs |-> FALSE]

Next == Move \/ \E j \in Jobs : Admit(j)

Spec == Init /\ [][Next]_jobVars
=============================================================================
