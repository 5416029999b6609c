----------------------------- MODULE GpuWorkers -----------------------------
(***************************************************************************)
(* GPU workers that compete for one physical GPU: jobs/gpu_ownership.py,   *)
(* the resource startup, rollback and shutdown of jobs/worker.py, and the  *)
(* worker's service heartbeat of jobs/readiness.py.  A worker takes the    *)
(* host lock of its lock directory, then an advisory lock that lives as    *)
(* long as one retained PostgreSQL session, loads the model, and serves    *)
(* while that session answers.  Sessions and processes can die, any store  *)
(* call can fail before or after its commit, and a fresh process is simply *)
(* another worker.                                                         *)
(***************************************************************************)
EXTENDS Naturals

CONSTANTS
    Workers,       \* worker processes; each starts at most once
    Directories,   \* gpu_lock_directory values in use
    MaxFaults,     \* bound on lost sessions, failed store calls and crashes
    Null

ASSUME WorkersAssumption == Null \notin Workers /\ MaxFaults \in Nat

VARIABLES
    directory,   \* the configured lock directory of each worker
    hostLock,    \* whose descriptor holds the flock of each directory
    pgLock,      \* whose session holds the advisory lock, as the server sees it
    proc,        \* the process-local state of each worker
    row,         \* each worker's service_heartbeat row
    faults

vars == <<directory, hostLock, pgLock, proc, row, faults>>

Startup == {"starting", "session", "model", "first probe", "first row"}
Closing == {"stop heartbeat", "remove row", "drain", "unload", "release", "unlock host",
            "halt loop"}
Over == {"ended", "crashed"}
Stages == {"off", "serving"} \cup Startup \cup Closing \cup Over

Process ==
    [pc : Stages,
     conn : BOOLEAN,       \* _connection is not None
     model : BOOLEAN,      \* the model is in memory
     ready : BOOLEAN,      \* _model_ready
     guard : {"free", "beat", "claim"},   \* _connection_lock
     accepting : BOOLEAN,  \* the claim manager accepts work
     mayExist : BOOLEAN,   \* _row_may_exist
     beat : {"off", "sleeping", "probing", "recording", "removing"},
     warm : {"no", "cancel", "remove", "done"},   \* _heartbeat_stop_task
     claim : {"none", "probing", "claiming", "executing"},
     lost : BOOLEAN,       \* ghost: it lost the session it retained, because the
                           \* server dropped it or a failed probe closed it
     hurt : BOOLEAN]       \* ghost: one of its store calls failed

Fresh ==
    [pc |-> "off", conn |-> FALSE, model |-> FALSE, ready |-> FALSE, guard |-> "free",
     accepting |-> FALSE, mayExist |-> FALSE, beat |-> "off", warm |-> "no",
     claim |-> "none", lost |-> FALSE, hurt |-> FALSE]

TypeOK ==
    /\ directory \in [Workers -> Directories]
    /\ hostLock \in [Directories -> Workers \cup {Null}]
    /\ pgLock \in Workers \cup {Null}
    /\ proc \in [Workers -> Process]
    /\ row \in [Workers -> {"none", "fresh", "stale"}]
    /\ faults \in 0 .. MaxFaults

-----------------------------------------------------------------------------

At(w, pc) == proc[w].pc = pc
Set(w, p) == proc' = [proc EXCEPT ![w] = p]
Goto(w, pc) == Set(w, [proc[w] EXCEPT !.pc = pc])
Fault == faults < MaxFaults /\ faults' = faults + 1
NoFault == UNCHANGED faults

FreeHost(w) ==
    hostLock' = [hostLock EXCEPT ![directory[w]] = IF @ = w THEN Null ELSE @]
FreeSession(w) == pgLock' = IF pgLock = w THEN Null ELSE pgLock

\* is_ready; a session the server has dropped does not show here.
IsReady(w) == proc[w].ready /\ proc[w].conn

\* The retained session still exists on the server.
SessionAnswers(w) == pgLock = w

\* can_claim after a failed statement: readiness goes, the connection closes.
Unready(p) == [p EXCEPT !.ready = FALSE, !.conn = FALSE, !.guard = "free"]

\* can_claim's statement on the retained session answers, or finds that the
\* session is gone, or fails on a session that is well: closing it then
\* gives the advisory lock away, as soon as the server notices.
Probed(w, yes, no) ==
    \/ SessionAnswers(w) /\ Set(w, yes) /\ NoFault
    \/ ~SessionAnswers(w) /\ Set(w, no) /\ NoFault
    \/ SessionAnswers(w) /\ Set(w, [no EXCEPT !.lost = TRUE, !.hurt = TRUE]) /\ Fault

-----------------------------------------------------------------------------
(* Startup: every failure enters the rollback, which is the closing        *)
(* sequence over whatever exists.                                          *)

Start(w) ==
    /\ At(w, "off")
    /\ Goto(w, "starting")
    /\ UNCHANGED <<directory, hostLock, pgLock, row, faults>>

\* Mutation: a conflict on the directory lock goes unnoticed.
MutAcquireHostUnchecked(w) ==
    /\ At(w, "starting")
    /\ hostLock' = [hostLock EXCEPT ![directory[w]] = w]
    /\ Goto(w, "session") /\ NoFault
    /\ UNCHANGED <<directory, pgLock, row>>

\* The database is verified, then the directory is locked without waiting.
AcquireHost(w) ==
    /\ At(w, "starting")
    /\ \/ /\ hostLock[directory[w]] = Null
          /\ hostLock' = [hostLock EXCEPT ![directory[w]] = w]
          /\ Goto(w, "session") /\ NoFault
       \/ /\ hostLock[directory[w]] # Null
          /\ Goto(w, "stop heartbeat") /\ UNCHANGED hostLock /\ NoFault
       \/ Goto(w, "stop heartbeat") /\ UNCHANGED hostLock /\ Fault
    /\ UNCHANGED <<directory, pgLock, row>>

\* Mutation: the answer of pg_try_advisory_lock is not looked at.
MutAcquireSessionUnchecked(w) ==
    /\ At(w, "session")
    /\ pgLock' = IF pgLock = Null THEN w ELSE pgLock
    /\ Set(w, [proc[w] EXCEPT !.conn = TRUE, !.pc = "model"])
    /\ UNCHANGED <<directory, hostLock, row, faults>>

\* pg_try_advisory_lock on a new session; a conflict or an error closes it
\* and frees the directory.  After an error the server may keep the session.
AcquireSession(w) ==
    /\ At(w, "session")
    /\ \/ /\ pgLock = Null /\ pgLock' = w
          /\ Set(w, [proc[w] EXCEPT !.conn = TRUE, !.pc = "model"])
          /\ UNCHANGED hostLock /\ NoFault
       \/ /\ pgLock # Null /\ UNCHANGED pgLock
          /\ Goto(w, "stop heartbeat") /\ FreeHost(w) /\ NoFault
       \/ /\ pgLock' \in {pgLock} \cup (IF pgLock = Null THEN {w} ELSE {})
          /\ Set(w, [proc[w] EXCEPT !.pc = "stop heartbeat", !.hurt = TRUE])
          /\ FreeHost(w) /\ Fault
    /\ UNCHANGED <<directory, row>>

\* The factory loads the model; then claims may be admitted and the manager
\* starts.
LoadModel(w) ==
    /\ At(w, "model")
    /\ \/ /\ Set(w, [proc[w] EXCEPT !.model = TRUE, !.ready = TRUE, !.accepting = TRUE,
                                    !.pc = "first probe"])
          /\ NoFault
       \/ Goto(w, "stop heartbeat") /\ Fault
    /\ UNCHANGED <<directory, hostLock, pgLock, row>>

\* heartbeat.start probes before it writes the first row.
FirstProbe(w) ==
    /\ At(w, "first probe")
    /\ Probed(w, [proc[w] EXCEPT !.pc = "first row"],
                 [Unready(proc[w]) EXCEPT !.pc = "stop heartbeat"])
    /\ UNCHANGED <<directory, hostLock, pgLock, row>>

FirstRow(w) ==
    /\ At(w, "first row")
    /\ \/ /\ row' = [row EXCEPT ![w] = "fresh"]
          /\ Set(w, [proc[w] EXCEPT !.mayExist = TRUE, !.beat = "sleeping", !.pc = "serving"])
          /\ NoFault
       \/ /\ row' \in {row, [row EXCEPT ![w] = "fresh"]}
          /\ Set(w, [proc[w] EXCEPT !.pc = "stop heartbeat", !.hurt = TRUE])
          /\ Fault
    /\ UNCHANGED <<directory, hostLock, pgLock>>

-----------------------------------------------------------------------------
(* The periodic heartbeat task. *)

\* Its probe takes the connection lock, or finds the worker unready at once.
BeatWakes(w) ==
    /\ proc[w].beat = "sleeping" /\ proc[w].guard = "free"
    /\ Set(w, IF IsReady(w) THEN [proc[w] EXCEPT !.guard = "beat", !.beat = "probing"]
              ELSE [proc[w] EXCEPT !.beat = "removing"])
    /\ UNCHANGED <<directory, hostLock, pgLock, row, faults>>

\* Mutation: the probe asks any connection of the pool.
MutBeatProbedAnywhere(w) ==
    /\ proc[w].beat = "probing"
    /\ Set(w, [proc[w] EXCEPT !.guard = "free", !.beat = "recording"])
    /\ UNCHANGED <<directory, hostLock, pgLock, row, faults>>

BeatProbed(w) ==
    /\ proc[w].beat = "probing"
    /\ Probed(w, [proc[w] EXCEPT !.guard = "free", !.beat = "recording"],
                 [Unready(proc[w]) EXCEPT !.beat = "removing"])
    /\ UNCHANGED <<directory, hostLock, pgLock, row>>

\* A failed refresh is logged and tried again at the next interval.
BeatRecords(w) ==
    /\ proc[w].beat = "recording"
    /\ \/ /\ row' = [row EXCEPT ![w] = "fresh"]
          /\ Set(w, [proc[w] EXCEPT !.mayExist = TRUE, !.beat = "sleeping"])
          /\ NoFault
       \/ /\ row' \in {row, [row EXCEPT ![w] = "fresh"]}
          /\ Set(w, [proc[w] EXCEPT !.beat = "sleeping", !.hurt = TRUE])
          /\ Fault
    /\ UNCHANGED <<directory, hostLock, pgLock>>

\* _remove_row; then the process goes on as p.
RemoveRow(w, p) ==
    \/ /\ ~p.mayExist
       /\ Set(w, p) /\ UNCHANGED row /\ NoFault
    \/ /\ p.mayExist
       /\ row' = [row EXCEPT ![w] = "none"]
       /\ Set(w, [p EXCEPT !.mayExist = FALSE]) /\ NoFault
    \/ /\ p.mayExist
       /\ row' \in {row, [row EXCEPT ![w] = "none"]}
       /\ Set(w, [p EXCEPT !.hurt = TRUE]) /\ Fault

\* The task ends after an unready answer.
BeatRemoves(w) ==
    /\ proc[w].beat = "removing"
    /\ RemoveRow(w, [proc[w] EXCEPT !.beat = "off"])
    /\ UNCHANGED <<directory, hostLock, pgLock>>

\* Mutation: a cancelled probe keeps the connection lock.
MutCancelBeatKeepsGuard(w, p) ==
    Set(w, [p EXCEPT !.beat = "off"]) /\ UNCHANGED <<pgLock, row>>

\* heartbeat.stop cancels the task and waits for it.  A statement cut short
\* may have been committed; a probe cut short can cost the retained session.
CancelBeat(w, p) ==
    LET q == [p EXCEPT !.beat = "off",
                       !.guard = IF @ = "beat" THEN "free" ELSE @]
        written == CASE p.beat = "recording" -> {row[w], "fresh"}
                     [] p.beat = "removing" /\ p.mayExist -> {row[w], "none"}
                     [] OTHER -> {row[w]}
    IN  /\ \E r \in written : row' = [row EXCEPT ![w] = r]
        /\ \/ Set(w, q) /\ UNCHANGED pgLock
           \/ /\ p.beat = "probing" /\ pgLock = w
              /\ pgLock' = Null /\ Set(w, [q EXCEPT !.lost = TRUE])

-----------------------------------------------------------------------------
(* Claims: can_claim, then the store's answer, then an execution.          *)

ClaimProbes(w) ==
    /\ At(w, "serving") /\ proc[w].accepting /\ IsReady(w)
    /\ proc[w].claim = "none" /\ proc[w].guard = "free"
    /\ Set(w, [proc[w] EXCEPT !.claim = "probing", !.guard = "claim"])
    /\ UNCHANGED <<directory, hostLock, pgLock, row, faults>>

\* After the answer the manager checks again that it accepts work, and asks
\* the store for the claim.
ClaimProbed(w) ==
    /\ proc[w].claim = "probing"
    /\ Probed(w, [proc[w] EXCEPT !.guard = "free",
                                 !.claim = IF proc[w].accepting THEN "claiming" ELSE "none"],
                 [Unready(proc[w]) EXCEPT !.claim = "none"])
    /\ UNCHANGED <<directory, hostLock, pgLock, row>>

ClaimAnswered(w) ==
    /\ proc[w].claim = "claiming"
    /\ \E claim \in {"none", "executing"} : Set(w, [proc[w] EXCEPT !.claim = claim])
    /\ UNCHANGED <<directory, hostLock, pgLock, row, faults>>

ExecutionEnds(w) ==
    /\ proc[w].claim = "executing"
    /\ Set(w, [proc[w] EXCEPT !.claim = "none"])
    /\ UNCHANGED <<directory, hostLock, pgLock, row, faults>>

-----------------------------------------------------------------------------
(* Stopping: Celery's signal withdraws readiness early, shutdown and       *)
(* rollback run the closing sequence.                                      *)

\* stop_claiming: admission closes and a task stops the heartbeat.
stop_claiming(w) ==
    /\ At(w, "serving") /\ proc[w].warm = "no"
    /\ Set(w, [proc[w] EXCEPT !.accepting = FALSE, !.warm = "cancel"])
    /\ UNCHANGED <<directory, hostLock, pgLock, row, faults>>

WarmCancels(w) ==
    /\ proc[w].warm = "cancel"
    /\ CancelBeat(w, [proc[w] EXCEPT !.warm = "remove"])
    /\ UNCHANGED <<directory, hostLock, faults>>

WarmRemoves(w) ==
    /\ proc[w].warm = "remove"
    /\ RemoveRow(w, [proc[w] EXCEPT !.warm = "done"])
    /\ UNCHANGED <<directory, hostLock, pgLock>>

shutdown(w) ==
    /\ At(w, "serving")
    /\ Set(w, [proc[w] EXCEPT !.accepting = FALSE, !.pc = "stop heartbeat"])
    /\ UNCHANGED <<directory, hostLock, pgLock, row, faults>>

\* Mutation: the periodic task is cancelled but not waited for, so the row
\* is removed while its last write is on its way.
MutStopWithoutWaiting(w) ==
    /\ At(w, "stop heartbeat") /\ proc[w].warm \in {"no", "done"}
    /\ Goto(w, "remove row")
    /\ UNCHANGED <<directory, hostLock, pgLock, row, faults>>

\* A removal already under way is waited for first.
StopHeartbeat(w) ==
    /\ At(w, "stop heartbeat") /\ proc[w].warm \in {"no", "done"}
    /\ CancelBeat(w, [proc[w] EXCEPT !.pc = "remove row"])
    /\ UNCHANGED <<directory, hostLock, faults>>

\* The row goes, and with mark_model_not_ready the admission of claims.
RemoveReadiness(w) ==
    /\ At(w, "remove row")
    /\ RemoveRow(w, [proc[w] EXCEPT !.pc = "drain", !.ready = FALSE, !.accepting = FALSE])
    /\ UNCHANGED <<directory, hostLock, pgLock>>

\* The claim manager's drain waits for claims in flight and executions.
Drain(w) ==
    /\ At(w, "drain") /\ proc[w].claim \notin {"claiming", "executing"}
    /\ Goto(w, "unload")
    /\ UNCHANGED <<directory, hostLock, pgLock, row, faults>>

\* The answer to the last claim in flight wakes the drain before the
\* execution is registered, so the closing goes on under it.
DrainMisses(w) ==
    /\ At(w, "drain") /\ proc[w].claim = "claiming"
    /\ Set(w, [proc[w] EXCEPT !.claim = "executing", !.pc = "unload"])
    /\ UNCHANGED <<directory, hostLock, pgLock, row, faults>>

\* executor.shutdown returns once the model is out of memory.
Unload(w) ==
    /\ At(w, "unload")
    /\ Set(w, [proc[w] EXCEPT !.model = FALSE, !.pc = "release"])
    /\ UNCHANGED <<directory, hostLock, pgLock, row, faults>>

\* release: the advisory lock under the connection lock.  A failed unlock
\* invalidates the session, which the server may keep for a while.
ReleaseSession(w) ==
    /\ At(w, "release") /\ proc[w].guard = "free"
    /\ LET p == [proc[w] EXCEPT !.ready = FALSE, !.conn = FALSE, !.pc = "unlock host"]
       IN  \/ proc[w].conn /\ FreeSession(w) /\ Set(w, p) /\ NoFault
           \/ ~proc[w].conn /\ UNCHANGED pgLock /\ Set(w, p) /\ NoFault
           \/ proc[w].conn /\ UNCHANGED pgLock /\ Set(w, [p EXCEPT !.hurt = TRUE]) /\ Fault
    /\ UNCHANGED <<directory, hostLock, row>>

\* ... then the host lock and the engine.
ReleaseHost(w) ==
    /\ At(w, "unlock host")
    /\ FreeHost(w) /\ Goto(w, "halt loop")
    /\ UNCHANGED <<directory, pgLock, row, faults>>

\* _run_worker_loop cancels what is left on the loop, an execution that the
\* drain missed, and waits for it; then the loop's thread is joined.
Halt(w) ==
    /\ At(w, "halt loop") /\ proc[w].claim = "none"
    /\ Goto(w, "ended")
    /\ UNCHANGED <<directory, hostLock, pgLock, row, faults>>

-----------------------------------------------------------------------------
(* Failures and time. *)

\* The kernel frees the descriptor and the GPU; the row and the session stay.
Crash(w) ==
    /\ proc[w].pc \notin {"off"} \cup Over
    /\ Fault /\ FreeHost(w)
    /\ Set(w, [Fresh EXCEPT !.pc = "crashed", !.mayExist = proc[w].mayExist,
                            !.lost = proc[w].lost, !.hurt = proc[w].hurt])
    /\ UNCHANGED <<directory, pgLock, row>>

\* The server restarts or drops the session; the client learns nothing.
SessionLost(w) ==
    /\ pgLock = w /\ proc[w].conn
    /\ Fault
    /\ pgLock' = Null /\ Set(w, [proc[w] EXCEPT !.lost = TRUE])
    /\ UNCHANGED <<directory, hostLock, row>>

\* The server ends a session whose client has gone.
ServerNotices(w) ==
    /\ pgLock = w /\ ~proc[w].conn
    /\ pgLock' = Null
    /\ UNCHANGED <<directory, hostLock, proc, row, faults>>

\* service_heartbeat_ttl_seconds pass without a refresh.
RowAges(w) ==
    /\ row[w] = "fresh"
    /\ row' = [row EXCEPT ![w] = "stale"]
    /\ UNCHANGED <<directory, hostLock, pgLock, proc, faults>>

-----------------------------------------------------------------------------

Init ==
    /\ directory \in [Workers -> Directories]
    /\ hostLock = [d \in Directories |-> Null]
    /\ pgLock = Null
    /\ proc = [w \in Workers |-> Fresh]
    /\ row = [w \in Workers |-> "none"]
    /\ faults = 0

\* What the worker's event loop does without being asked.
LoopStep(w) ==
    \/ AcquireHost(w) \/ AcquireSession(w) \/ LoadModel(w) \/ FirstProbe(w) \/ FirstRow(w)
    \/ StopHeartbeat(w) \/ RemoveReadiness(w) \/ Drain(w) \/ Unload(w)
    \/ ReleaseSession(w) \/ ReleaseHost(w) \/ Halt(w)

BeatStep(w) == BeatWakes(w) \/ BeatProbed(w) \/ BeatRecords(w) \/ BeatRemoves(w)
ClaimStep(w) == ClaimProbed(w) \/ ClaimAnswered(w) \/ DrainMisses(w) \/ ExecutionEnds(w)
WarmStep(w) == WarmCancels(w) \/ WarmRemoves(w)

Next ==
    \E w \in Workers :
        \/ LoopStep(w) \/ BeatStep(w) \/ ClaimStep(w) \/ WarmStep(w)
        \/ Start(w) \/ ClaimProbes(w) \/ stop_claiming(w) \/ shutdown(w)
        \/ Crash(w) \/ SessionLost(w) \/ ServerNotices(w) \/ RowAges(w)

\* Every task of a running loop is scheduled again, executions end, the
\* server notices closed connections and time passes.
Fairness ==
    \A w \in Workers :
        /\ WF_vars(LoopStep(w)) /\ WF_vars(BeatStep(w))
        /\ WF_vars(ClaimStep(w)) /\ WF_vars(WarmStep(w))
        /\ WF_vars(ServerNotices(w)) /\ WF_vars(RowAges(w))

Spec == Init /\ [][Next]_vars /\ Fairness

-----------------------------------------------------------------------------
(* Properties. *)

\* Workers that share a lock directory never have the model in memory at the
\* same time, whatever happens to their database sessions.
OneModelPerDirectory ==
    \A v, w \in Workers :
        proc[v].model /\ proc[w].model /\ directory[v] = directory[w] => v = w

\* Even with separate lock directories the advisory lock keeps a second
\* model out of memory, as long as each worker keeps the session it took the
\* lock with: until the server drops it, or a failed probe of the worker's
\* own closes it with the model still loaded.
TwoModelsOnlyAfterLoss ==
    \A v, w \in Workers :
        v # w /\ proc[v].model /\ proc[w].model => proc[v].lost \/ proc[w].lost

\* A worker that ended, from whichever startup step it had to back out,
\* holds no lock and no model and runs no execution, not even one that its
\* drain missed; and if its store calls worked it does not hold the advisory
\* lock or announce readiness either.
EndedLeavesNothing ==
    \A w \in Workers :
        At(w, "ended") =>
            /\ hostLock[directory[w]] # w
            /\ ~proc[w].model /\ ~proc[w].conn /\ ~proc[w].ready /\ proc[w].claim = "none"
            /\ ~proc[w].hurt => pgLock # w /\ row[w] = "none"

\* A worker that lost its session or its process stops being announced as
\* ready, for good.
DeadWorkerWithdrawn ==
    \A w \in Workers : proc[w].lost \/ At(w, "crashed") ~> [](row[w] # "fresh")

\* Startup and closing never hang: every started worker comes to serve or
\* to an end.
WorkerSettles ==
    \A w \in Workers :
        proc[w].pc \notin {"off", "serving"} \cup Over
            ~> proc[w].pc \in {"serving"} \cup Over
=============================================================================
