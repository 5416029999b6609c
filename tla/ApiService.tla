----------------------------- MODULE ApiService -----------------------------
(***************************************************************************)
(* One API process: TranscriptionJobService (jobs/service.py), which sends *)
(* every store call through one asyncio lock and latches the first store   *)
(* failure for the life of the process; the lifespan that owns it          *)
(* (main.py); and the health endpoint with its aggregate readiness         *)
(* (ops.py, jobs/readiness.py).  Requests interleave at every await and    *)
(* can be interrupted there.                                               *)
(***************************************************************************)
EXTENDS Naturals, SequencesExt

CONSTANTS
    Requests,   \* concurrent submit, get_status and cancel requests
    Probes      \* concurrent health requests

VARIABLES
    phase,      \* of the lifespan
    appReady,   \* application.state.ready
    available,  \* _store_available
    latched,    \* how often on_store_unavailable was called
    lock,       \* _lock: its holder and those who wait, first come first
    request,    \* where each request is
    health,     \* where each health request is
    told        \* ghost: some client was answered "store unavailable"

vars == <<phase, appReady, available, latched, lock, request, health, told>>

Active == {"waiting", "calling", "marking"}
Answered == {"answered", "unavailable", "interrupted"}

TypeOK ==
    /\ phase \in {"starting", "serving", "stopping", "closed"}
    /\ appReady \in BOOLEAN /\ available \in BOOLEAN /\ told \in BOOLEAN
    /\ latched \in 0 .. 1
    /\ lock \in Seq(Requests)
    /\ \A r \in Requests : request[r] \in Active <=> \E i \in 1 .. Len(lock) : lock[i] = r
    /\ request \in [Requests -> {"idle"} \cup Active \cup Answered]
    /\ health \in [Probes -> [pc : {"idle", "database", "broker", "roles", "healthy", "unready"},
                              late : BOOLEAN]]

Init ==
    /\ phase = "starting" /\ appReady = FALSE
    /\ available = TRUE /\ latched = 0
    /\ lock = <<>>
    /\ request = [r \in Requests |-> "idle"]
    /\ health = [p \in Probes |-> [pc |-> "idle", late |-> FALSE]]
    /\ told = FALSE

Holds(r) == lock # <<>> /\ Head(lock) = r
Answer(r, result) == request' = [request EXCEPT ![r] = result]

-----------------------------------------------------------------------------
(* The lifespan. *)

\* The store is verified and the service assembled before readiness.
StartUp ==
    /\ phase = "starting"
    /\ \/ phase' = "serving" /\ appReady' = TRUE
       \/ phase' = "closed" /\ UNCHANGED appReady
    /\ UNCHANGED <<available, latched, lock, request, health, told>>

Stop ==
    /\ phase = "serving"
    /\ phase' = "stopping"
    /\ UNCHANGED <<appReady, available, latched, lock, request, health, told>>

\* close_resources, once the server has let its requests go.
CloseResources ==
    /\ phase = "stopping"
    /\ \A r \in Requests : request[r] \notin Active
    /\ \A p \in Probes : health[p].pc \notin {"database", "broker", "roles"}
    /\ phase' = "closed" /\ appReady' = FALSE
    /\ UNCHANGED <<available, latched, lock, request, health, told>>

-----------------------------------------------------------------------------
(* submit, get_status, cancel *)

\* A malformed URL or capability is refused before the lock.
Arrive(r) ==
    /\ phase = "serving" /\ request[r] \in {"idle"} \cup Answered
    /\ \/ Answer(r, "waiting") /\ lock' = Append(lock, r)
       \/ Answer(r, "answered") /\ UNCHANGED lock
    /\ UNCHANGED <<phase, appReady, available, latched, health, told>>

\* Mutation: the latch is tested before the lock is waited for.
MutEnterUnchecked(r) ==
    /\ request[r] = "waiting" /\ Holds(r)
    /\ Answer(r, "calling")
    /\ UNCHANGED <<phase, appReady, available, latched, lock, health, told>>

\* _require_store_available under the lock.
Enter(r) ==
    /\ request[r] = "waiting" /\ Holds(r)
    /\ IF available
       THEN Answer(r, "calling") /\ UNCHANGED <<lock, told>>
       ELSE Answer(r, "unavailable") /\ lock' = Tail(lock) /\ told' = TRUE
    /\ UNCHANGED <<phase, appReady, available, latched, health>>

\* The store answers, or refuses with capacity, conflict or finished.
StoreAnswers(r) ==
    /\ request[r] = "calling"
    /\ Answer(r, "answered") /\ lock' = Tail(lock)
    /\ UNCHANGED <<phase, appReady, available, latched, health, told>>

\* TranscriptionJobStoreUnavailableError: the lock is left and asked for
\* again, behind everyone who waits.
StoreFails(r) ==
    /\ request[r] = "calling"
    /\ Answer(r, "marking") /\ lock' = Append(Tail(lock), r)
    /\ UNCHANGED <<phase, appReady, available, latched, health, told>>

\* _mark_store_unavailable, then the client is told.
MarkStoreUnavailable(r) ==
    /\ request[r] = "marking" /\ Holds(r)
    /\ available' = FALSE
    /\ IF available THEN appReady' = FALSE /\ latched' = latched + 1
       ELSE UNCHANGED <<appReady, latched>>
    /\ Answer(r, "unavailable") /\ lock' = Tail(lock) /\ told' = TRUE
    /\ UNCHANGED <<phase, health>>

\* Mutation: an interrupted request does not leave the lock.
MutInterruptKeepsLock(r) ==
    /\ request[r] \in Active
    /\ Answer(r, "interrupted")
    /\ UNCHANGED <<phase, appReady, available, latched, lock, health, told>>

\* The request task is cancelled at whichever await it is.
Interrupt(r) ==
    /\ request[r] \in Active
    /\ Answer(r, "interrupted")
    /\ \E i \in 1 .. Len(lock) : lock[i] = r /\ lock' = RemoveAt(lock, i)
    /\ UNCHANGED <<phase, appReady, available, latched, health, told>>

-----------------------------------------------------------------------------
(* health *)

Check(p, pc) ==
    /\ health' = [health EXCEPT ![p].pc = pc]
    /\ UNCHANGED <<phase, appReady, available, latched, lock, request, told>>

\* The ready flag is read once, before the dependency probes.
HealthBegins(p) ==
    /\ phase = "serving" /\ health[p].pc \in {"idle", "healthy", "unready"}
    /\ health' = [health EXCEPT ![p] =
                    [pc |-> IF appReady THEN "database" ELSE "unready", late |-> told]]
    /\ UNCHANGED <<phase, appReady, available, latched, lock, request, told>>

\* ApplicationReadiness.is_ready: PostgreSQL, the broker, fresh role rows.
ProbeSucceeds(p) ==
    \/ health[p].pc = "database" /\ Check(p, "broker")
    \/ health[p].pc = "broker" /\ Check(p, "roles")
    \/ health[p].pc = "roles" /\ Check(p, "healthy")

ProbeFails(p) ==
    /\ health[p].pc \in {"database", "broker", "roles"}
    /\ Check(p, "unready")

-----------------------------------------------------------------------------

StoreReturns(r) == StoreAnswers(r) \/ StoreFails(r)
ProbeReturns(p) == ProbeSucceeds(p) \/ ProbeFails(p)

Next ==
    \/ StartUp \/ Stop \/ CloseResources
    \/ \E r \in Requests :
         Arrive(r) \/ Enter(r) \/ StoreReturns(r) \/ MarkStoreUnavailable(r) \/ Interrupt(r)
    \/ \E p \in Probes : HealthBegins(p) \/ ProbeReturns(p)

\* The event loop runs every task, and every store call and probe returns.
Fairness ==
    /\ WF_vars(StartUp) /\ WF_vars(CloseResources)
    /\ \A r \in Requests :
         WF_vars(Enter(r)) /\ WF_vars(StoreReturns(r)) /\ WF_vars(MarkStoreUnavailable(r))
    /\ \A p \in Probes : WF_vars(ProbeReturns(p))

Spec == Init /\ [][Next]_vars /\ Fairness

-----------------------------------------------------------------------------
(* Properties. *)

\* Once a client has been told that the store is unavailable, no request
\* reaches the store and no health request that comes later is answered
\* ready, although others were waiting when the failure happened.
FailFast ==
    told => /\ \A r \in Requests : request[r] # "calling"
            /\ \A p \in Probes : health[p].late => health[p].pc # "healthy"

\* No request waits for ever behind the one lock: failures and interruptions
\* hand it on.
RequestSettles ==
    \A r \in Requests : request[r] \in Active ~> request[r] \in Answered
=============================================================================
