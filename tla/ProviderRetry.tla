--------------------------- MODULE ProviderRetry ----------------------------
(***************************************************************************)
(* extract_info_with_retries of transcription/util.py with the callbacks   *)
(* that run inside the yt-dlp call: up to MaxAttempts calls, ended early   *)
(* by cancellation, by the absolute deadline, by media over the byte limit *)
(* or by a source over the duration limit.  The event is set and the       *)
(* deadline passes at any moment, between a check and the call it guards   *)
(* too.                                                                    *)
(***************************************************************************)
EXTENDS Naturals

CONSTANT MaxAttempts   \* _MAX_YTDLP_ATTEMPTS, a positive number

VARIABLES
    download,    \* the call transfers media, watched by the progress hook
    filtered,    \* the call has the duration filter
    call,        \* where the loop is: idle, check, begin, running, last check,
                 \* final check, over
    attempt,     \* of range(MaxAttempts)
    cancelled,   \* cancellation_event
    expired,     \* the monotonic clock has reached the deadline
    late,        \* history: provider calls begun after either of them
    answer       \* what the loop returned or raised

\* What yt-dlp may raise for good, as the callers tell exceptions apart.
Faults == {"typed timeout", "not video", "unavailable", "other error"}

Begin == call' = "check" /\ attempt' = 0 /\ answer' = "none"
Reset == call' = "idle" /\ attempt' = 0 /\ answer' = "none"

Return(a) == call' = "over" /\ answer' = a
GoOn(where) == call' = where /\ UNCHANGED answer
LateCall == late' = late + IF cancelled \/ expired THEN 1 ELSE 0

\* raise_if_cancelled_or_expired, and what it raises.
Stopped == cancelled \/ expired
StopReason == IF cancelled THEN "cancelled" ELSE "timeout"

-----------------------------------------------------------------------------

\* The loop header and the check before a call.
CheckAttempt ==
    /\ call = "check"
    /\ IF attempt = MaxAttempts THEN Return("assertion")
       ELSE IF Stopped THEN Return(StopReason)
       ELSE GoOn("begin")
    /\ UNCHANGED <<attempt, cancelled, expired, late>>

BeginCall ==
    /\ call = "begin"
    /\ GoOn("running") /\ LateCall
    /\ UNCHANGED <<attempt, cancelled, expired>>

\* The hook sees the event; DownloadCancelled leaves the loop at once.
HookCancels ==
    /\ call = "running" /\ download /\ cancelled
    /\ Return("cancelled")
    /\ UNCHANGED <<attempt, cancelled, expired, late>>

\* MediaByteLimitExceeded is a DownloadCancelled and leaves the loop too.
HookStopsOversized ==
    /\ call = "running" /\ download
    /\ Return("too large")
    /\ UNCHANGED <<attempt, cancelled, expired, late>>

\* So is what the duration filter raises.
FilterStopsTooLong ==
    /\ call = "running" /\ filtered
    /\ Return("too long")
    /\ UNCHANGED <<attempt, cancelled, expired, late>>

\* Mutation: the attempt is not counted.
MutFailsUncounted ==
    /\ call = "running"
    /\ GoOn("check")
    /\ UNCHANGED <<attempt, cancelled, expired, late>>

\* Any other exception, the hook's TimeoutError included, is retried unless
\* this was the last attempt.
CallFails ==
    /\ call = "running"
    /\ IF attempt = MaxAttempts - 1
       THEN GoOn("last check") /\ UNCHANGED attempt
       ELSE GoOn("check") /\ attempt' = attempt + 1
    /\ UNCHANGED <<cancelled, expired, late>>

\* The last exception is raised, unless a stop explains it.
LastCheck ==
    /\ call = "last check"
    /\ IF Stopped THEN Return(StopReason) ELSE \E fault \in Faults : Return(fault)
    /\ UNCHANGED <<attempt, cancelled, expired, late>>

CallReturns ==
    /\ call = "running"
    /\ GoOn("final check")
    /\ UNCHANGED <<attempt, cancelled, expired, late>>

\* Mutation: the answer is returned without looking at the event.
MutFinalUnchecked ==
    /\ call = "final check"
    /\ Return("info")
    /\ UNCHANGED <<attempt, cancelled, expired, late>>

\* An answer that comes too late is dropped.
FinalCheck ==
    /\ call = "final check"
    /\ Return(IF Stopped THEN StopReason ELSE "info")
    /\ UNCHANGED <<attempt, cancelled, expired, late>>

RetryStep ==
    \/ CheckAttempt \/ BeginCall
    \/ HookCancels \/ HookStopsOversized \/ FilterStopsTooLong
    \/ CallFails \/ LastCheck \/ CallReturns \/ FinalCheck
=============================================================================
