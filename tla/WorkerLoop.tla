----------------------------- MODULE WorkerLoop -----------------------------
(***************************************************************************)
(* The threads of one GPU worker process (jobs/worker.py): the main        *)
(* thread, which starts the runtime, runs Celery and shuts the runtime     *)
(* down; the thread that runs the asyncio loop; and the Celery pool        *)
(* threads, each of which submits one coroutine to the loop and blocks on  *)
(* its result.  Callbacks from other threads reach the loop through one    *)
(* queue.  Celery stops warm, when every pool thread has returned, or      *)
(* cold, with pool threads still inside process_payload.                   *)
(***************************************************************************)
EXTENDS Sequences, Naturals

CONSTANT Threads   \* Celery pool threads

VARIABLES
    main,        \* where the main thread is
    pool,        \* whether Celery still has its pool, joined it or left it
    started,     \* _started
    ready,       \* _runtime_ready
    loop,        \* the loop and its thread
    queue,       \* callbacks handed to the loop by other threads
    accepting,   \* the claim manager accepts work
    resources,   \* claim manager, executor, GPU and engine
    thread,      \* each pool thread inside process_payload
    task,        \* each thread's coroutine on the loop
    gathered     \* tasks the loop cancelled on its way out

vars == <<main, pool, started, ready, loop, queue, accepting, resources, thread, task, gathered>>

Signals == {"stop claiming", "shut down", "stop loop"}

\* A coroutine is told from the runtime's own callbacks.
ASSUME ThreadsAssumption == Threads \cap Signals = {}

TypeOK ==
    /\ main \in {"starting", "serving", "stopping", "closing", "joining", "exited"}
    /\ pool \in {"held", "joined", "left"}
    /\ started \in BOOLEAN /\ ready \in BOOLEAN /\ accepting \in BOOLEAN
    /\ loop \in {"none", "running", "stopping", "halted", "closed"}
    /\ queue \in Seq(Threads \cup Signals)
    /\ resources \in {"none", "up", "draining", "down"}
    /\ thread \in [Threads -> {"idle", "entered", "submitting", "waiting"}]
    /\ task \in [Threads -> {"none", "claiming", "pending", "executing"}]
    /\ gathered \subseteq Threads

Init ==
    /\ main = "starting" /\ pool = "held" /\ started = FALSE /\ ready = FALSE
    /\ loop = "none" /\ queue = <<>>
    /\ accepting = FALSE /\ resources = "none"
    /\ thread = [t \in Threads |-> "idle"]
    /\ task = [t \in Threads |-> "none"]
    /\ gathered = {}

Post(callback) == queue' = Append(queue, callback)
LoopTurns == loop \in {"running", "stopping", "halted"}

-----------------------------------------------------------------------------
(* The main thread. *)

\* start creates the loop thread and waits for _start_resources.
StartLoop ==
    /\ main = "starting" /\ loop = "none"
    /\ started' = TRUE /\ loop' = "running"
    /\ UNCHANGED <<main, pool, ready, queue, accepting, resources, thread, task, gathered>>

ResourcesStarted ==
    /\ main = "starting" /\ loop = "running"
    /\ ready' = TRUE /\ accepting' = TRUE /\ resources' = "up"
    /\ main' = "serving"
    /\ UNCHANGED <<pool, started, loop, queue, thread, task, gathered>>

\* Mutation: the loop of a failed start is not told to stop.
MutStartFailsLoopKept ==
    /\ main = "starting" /\ loop = "running"
    /\ main' = "joining"
    /\ UNCHANGED <<pool, started, ready, loop, queue, accepting, resources, thread, task, gathered>>

\* The rollback has released everything; the loop is stopped and joined.
StartFails ==
    /\ main = "starting" /\ loop = "running"
    /\ Post("stop loop") /\ main' = "joining"
    /\ UNCHANGED <<pool, started, ready, loop, accepting, resources, thread, task, gathered>>

\* Mutation: the signal stops the loop itself.
MutSignalStopsLoop ==
    /\ main = "serving"
    /\ Post("stop loop") /\ main' = "stopping"
    /\ UNCHANGED <<pool, started, ready, loop, accepting, resources, thread, task, gathered>>

\* Celery's worker_shutting_down signal: stop_claiming on the loop.
stop_claiming ==
    /\ main = "serving"
    /\ Post("stop claiming") /\ main' = "stopping"
    /\ UNCHANGED <<pool, started, ready, loop, accepting, resources, thread, task, gathered>>

\* worker_main returns, warm when every pool thread has returned or cold
\* without them; shutdown then closes the runtime to new payloads and
\* submits _shutdown_resources.
shutdown(how) ==
    /\ main = "stopping"
    /\ how = "joined" => \A t \in Threads : thread[t] = "idle"
    /\ pool' = how
    /\ started' = FALSE /\ ready' = FALSE
    /\ Post("shut down") /\ main' = "closing"
    /\ UNCHANGED <<loop, accepting, resources, thread, task, gathered>>

\* ... waits for its result and stops the loop.
ResourcesDown ==
    /\ main = "closing" /\ resources = "down"
    /\ Post("stop loop") /\ main' = "joining"
    /\ UNCHANGED <<pool, started, ready, loop, accepting, resources, thread, task, gathered>>

Joined ==
    /\ main = "joining" /\ loop = "closed"
    /\ main' = "exited" /\ started' = FALSE /\ ready' = FALSE
    /\ UNCHANGED <<pool, loop, queue, accepting, resources, thread, task, gathered>>

-----------------------------------------------------------------------------
(* A Celery pool thread. *)

Deliver(t) ==
    /\ main \in {"serving", "stopping"} /\ thread[t] = "idle"
    /\ thread' = [thread EXCEPT ![t] = "entered"]
    /\ UNCHANGED <<main, pool, started, ready, loop, queue, accepting, resources, task, gathered>>

\* Under _state_lock: the loop is taken only while the runtime is ready.  A
\* malformed payload and lost GPU ownership end here too.
ReadLoop(t) ==
    /\ thread[t] = "entered"
    /\ \/ started /\ ready /\ thread' = [thread EXCEPT ![t] = "submitting"]
       \/ thread' = [thread EXCEPT ![t] = "idle"]
    /\ UNCHANGED <<main, pool, started, ready, loop, queue, accepting, resources, task, gathered>>

\* Mutation: the thread does not wait for the result.
MutSubmitAndForget(t) ==
    /\ thread[t] = "submitting" /\ loop # "closed" /\ task[t] = "none"
    /\ Post(t) /\ thread' = [thread EXCEPT ![t] = "idle"]
    /\ UNCHANGED <<main, pool, started, ready, loop, accepting, resources, task, gathered>>

\* run_coroutine_threadsafe raises on a closed loop, and that is caught.
Submit(t) ==
    /\ thread[t] = "submitting"
    /\ IF loop = "closed"
       THEN thread' = [thread EXCEPT ![t] = "idle"] /\ UNCHANGED queue
       ELSE thread' = [thread EXCEPT ![t] = "waiting"] /\ Post(t)
    /\ UNCHANGED <<main, pool, started, ready, loop, accepting, resources, task, gathered>>

-----------------------------------------------------------------------------
(* The loop. *)

\* The next callback: a coroutine becomes a task, or one of the runtime's own.
Turn ==
    /\ LoopTurns /\ queue # <<>>
    /\ LET callback == Head(queue)
       IN  /\ queue' = Tail(queue)
           /\ task' = IF callback \in Threads THEN [task EXCEPT ![callback] = "claiming"] ELSE task
           /\ accepting' = (accepting /\ callback \notin {"stop claiming", "shut down"})
           /\ resources' = IF callback = "shut down" THEN "draining" ELSE resources
           /\ loop' = IF callback = "stop loop" THEN "stopping" ELSE loop
    /\ UNCHANGED <<main, pool, started, ready, thread, gathered>>

\* claim refuses, or begins its store call.
Claim(t) ==
    /\ LoopTurns /\ task[t] = "claiming" /\ accepting /\ t \notin gathered
    /\ task' = [task EXCEPT ![t] = "pending"]
    /\ UNCHANGED <<main, pool, started, ready, loop, queue, accepting, resources, thread, gathered>>

Execute(t) ==
    /\ LoopTurns /\ task[t] = "pending" /\ t \notin gathered
    /\ task' = [task EXCEPT ![t] = "executing"]
    /\ UNCHANGED <<main, pool, started, ready, loop, queue, accepting, resources, thread, gathered>>

\* The coroutine returns, raises or is cancelled, and its thread with it.
TaskEnds(t) ==
    /\ LoopTurns /\ task[t] # "none"
    /\ task' = [task EXCEPT ![t] = "none"]
    /\ thread' = [thread EXCEPT ![t] = "idle"]
    /\ UNCHANGED <<main, pool, started, ready, loop, queue, accepting, resources, gathered>>

\* _shutdown_resources waits for registered executions; a claim that is
\* still pending can slip through (see ClaimManager).
Drained ==
    /\ loop = "running" /\ resources = "draining"
    /\ \A t \in Threads : task[t] # "executing"
    /\ resources' = "down"
    /\ UNCHANGED <<main, pool, started, ready, loop, queue, accepting, thread, task, gathered>>

\* run_forever ends after the iteration that ran stop; tasks that exist by
\* now are cancelled and waited for.
Halt ==
    /\ loop = "stopping"
    /\ loop' = "halted"
    /\ gathered' = {t \in Threads : task[t] # "none"}
    /\ UNCHANGED <<main, pool, started, ready, queue, accepting, resources, thread, task>>

\* A callback still queued, or a task it made meanwhile, is dropped.
Close ==
    /\ loop = "halted" /\ \A t \in gathered : task[t] = "none"
    /\ loop' = "closed" /\ queue' = <<>>
    /\ UNCHANGED <<main, pool, started, ready, accepting, resources, thread, task, gathered>>

-----------------------------------------------------------------------------

MainStep ==
    \/ StartLoop \/ ResourcesStarted \/ StartFails
    \/ shutdown("joined") \/ ResourcesDown \/ Joined

ThreadStep(t) == ReadLoop(t) \/ Submit(t)

LoopStep == Turn \/ Drained \/ Halt \/ Close

Next ==
    \/ MainStep \/ stop_claiming \/ shutdown("left") \/ LoopStep
    \/ \E t \in Threads : Deliver(t) \/ ThreadStep(t) \/ Claim(t) \/ Execute(t) \/ TaskEnds(t)

\* Threads run, the loop serves its queue in turn, and a coroutine ends once
\* the loop keeps running it: every provider call has a deadline.  Nothing
\* makes Celery stop, or stop cold.
Fairness ==
    /\ WF_vars(MainStep)
    /\ WF_vars(Turn) /\ WF_vars(Drained) /\ WF_vars(Halt) /\ WF_vars(Close)
    /\ \A t \in Threads : WF_vars(ThreadStep(t)) /\ WF_vars(TaskEnds(t))

Spec == Init /\ [][Next]_vars /\ Fairness

-----------------------------------------------------------------------------
(* Properties. *)

\* Unless Celery leaves its pool behind, nothing is cut short: when the
\* resources are released or the loop halts, no coroutine is left on the
\* loop or on its way to it.
NothingCutShort ==
    pool # "left" /\ (resources = "down" \/ loop \in {"halted", "closed"}) =>
        /\ \A t \in Threads : task[t] = "none"
        /\ \A i \in 1 .. Len(queue) : queue[i] \notin Threads

\* Every payload given to process_payload is processed or rejected, so that
\* its pool thread comes back, as long as Celery keeps or joins its pool.
WarmPayloadReturns ==
    \A t \in Threads : thread[t] # "idle" ~> thread[t] = "idle" \/ pool = "left"

\* A failed start and either kind of stop bring the main thread to its end,
\* whatever the pool threads are doing, and the pool threads to theirs.  The
\* exception: after a cold stop a thread may wait for ever for a coroutine
\* that came too late to be among those the loop cancelled on its way out.
ShutdownReturns ==
    main \in {"closing", "joining"} ~>
        /\ main = "exited"
        /\ \A t \in Threads :
             thread[t] = "idle" \/ (pool = "left" /\ thread[t] = "waiting" /\ t \notin gathered)
=============================================================================
