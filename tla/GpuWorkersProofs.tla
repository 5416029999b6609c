-------------------------- MODULE GpuWorkersProofs --------------------------
(***************************************************************************)
(* Proofs about GPU ownership, for every number of workers, of lock        *)
(* directories and of faults.  ProcInv relates the stages of one worker's  *)
(* startup, heartbeat, claims and closing to what the process still has;   *)
(* LockInv relates that to the locks and the row others can see.           *)
(***************************************************************************)
EXTENDS GpuWorkers, TLAPS

\* From the load of the model to its unloading.
ModelStages ==
    {"first probe", "first row", "serving", "stop heartbeat", "remove row", "drain", "unload"}

\* Readiness has been withdrawn.
Withdrawn == {"drain", "unload", "release", "unlock host", "halt loop", "ended"}

ProcInv(p) ==
    /\ p.model => p.pc \in ModelStages
    /\ p.pc = "model" => p.conn
    /\ p.model /\ ~p.lost => p.conn
    /\ p.beat # "off" => p.pc \in {"serving", "stop heartbeat"} /\ p.mayExist
    /\ p.warm # "no" => p.pc \notin {"off"} \cup Startup
    /\ p.warm = "remove" => p.beat = "off"
    /\ p.guard = "beat" <=> p.beat = "probing"
    /\ p.guard = "claim" <=> p.claim = "probing"
    /\ p.claim # "none" => p.pc \in {"serving"} \cup Closing
    /\ p.claim = "probing" => p.pc \notin {"unlock host", "halt loop"}
    /\ p.claim = "claiming" => p.pc \in {"serving", "stop heartbeat", "remove row", "drain"}
    /\ p.pc \in Withdrawn => ~p.accepting /\ ~p.ready /\ (p.hurt \/ ~p.mayExist)
    /\ p.pc \in {"unlock host", "halt loop", "ended"} => ~p.conn

HasHost(w) == hostLock[directory[w]] = w

\* What a process p may rely on and may leave behind: host and held say
\* whether it has the directory lock and the advisory lock, r is its row.
Locked(p, host, held, r) ==
    /\ p.pc \in {"session", "model"} \/ p.model => host
    /\ p.pc \in {"halt loop", "ended"} => ~host
    /\ p.conn /\ ~p.lost => held
    /\ ~p.conn /\ ~p.hurt /\ p.pc # "crashed" => ~held
    /\ ~p.mayExist /\ ~p.hurt => r = "none"

LockInv(w) == Locked(proc[w], HasHost(w), pgLock = w, row[w])

GpuInv ==
    /\ TypeOK
    /\ \A w \in Workers : ProcInv(proc[w]) /\ LockInv(w)

-----------------------------------------------------------------------------
(* One worker steps. *)

SharedTypes ==
    /\ hostLock' \in [Directories -> Workers \cup {Null}]
    /\ pgLock' \in Workers \cup {Null}
    /\ row' \in [Workers -> {"none", "fresh", "stale"}]
    /\ faults' \in 0 .. MaxFaults
    /\ UNCHANGED directory

\* What a step of w leaves to the others.
Frame(w) ==
    \A v \in Workers \ {w} :
        /\ HasHost(v)' <=> HasHost(v)
        /\ pgLock' = v <=> pgLock = v
        /\ row'[v] = row[v]

\* Others keep their part of the invariant when their locks and row stay.
LEMMA WorkerStep ==
    ASSUME GpuInv, NEW w \in Workers, NEW q \in Process, Set(w, q), ProcInv(q),
           SharedTypes, Frame(w), Locked(q, HasHost(w)', pgLock' = w, row'[w])
    PROVE  GpuInv'
  <1>1. TypeOK'
    BY DEF GpuInv, TypeOK, SharedTypes, Set
  <1>2. proc'[w] = q /\ \A v \in Workers \ {w} : proc'[v] = proc[v]
    BY DEF GpuInv, TypeOK, Set
  <1>3. \A v \in Workers : ProcInv(proc[v])'
    BY <1>2 DEF GpuInv
  <1>4. \A v \in Workers : LockInv(v)'
    <2>1. LockInv(w)'
      BY <1>2 DEF LockInv
    <2>2. ASSUME NEW v \in Workers \ {w} PROVE LockInv(v)'
      BY <1>2 DEF GpuInv, LockInv, Locked, Frame
    <2> QED BY <2>1, <2>2
  <1> QED BY <1>1, <1>3, <1>4 DEF GpuInv

\* Only the process changes.
LEMMA QuietStep ==
    ASSUME GpuInv, NEW w \in Workers, NEW q \in Process, Set(w, q), ProcInv(q),
           UNCHANGED <<directory, hostLock, pgLock, row>>, faults' \in 0 .. MaxFaults,
           Locked(q, HasHost(w), pgLock = w, row[w])
    PROVE  GpuInv'
  <1>1. SharedTypes /\ Frame(w)
    BY DEF GpuInv, TypeOK, SharedTypes, Frame, HasHost
  <1>2. Locked(q, HasHost(w)', pgLock' = w, row'[w])
    BY DEF Locked, HasHost
  <1> QED BY <1>1, <1>2, WorkerStep

\* The number of faults keeps its bound.
LEMMA FaultType == ASSUME TypeOK, Fault \/ NoFault PROVE faults' \in 0 .. MaxFaults
  BY WorkersAssumption DEF TypeOK, Fault, NoFault

\* The row of one worker is written.
LEMMA RowStep ==
    ASSUME GpuInv, NEW w \in Workers, NEW q \in Process, Set(w, q), ProcInv(q),
           UNCHANGED <<directory, hostLock, pgLock>>, faults' \in 0 .. MaxFaults,
           NEW r \in {"none", "fresh", "stale"}, row' = [row EXCEPT ![w] = r],
           Locked(q, HasHost(w), pgLock = w, r)
    PROVE  GpuInv'
  <1>1. SharedTypes /\ Frame(w)
    BY DEF GpuInv, TypeOK, SharedTypes, Frame, HasHost
  <1>2. row'[w] = r
    BY DEF GpuInv, TypeOK
  <1>3. Locked(q, HasHost(w)', pgLock' = w, row'[w])
    BY <1>2 DEF Locked, HasHost
  <1> QED BY <1>1, <1>3, WorkerStep

\* Two processes differ in nothing but what they know of their row.
SameButRow(p, h) ==
    /\ h.model = p.model /\ h.pc = p.pc /\ h.conn = p.conn /\ h.lost = p.lost
    /\ h.warm = p.warm /\ h.guard = p.guard /\ h.beat = p.beat /\ h.claim = p.claim
    /\ h.accepting = p.accepting /\ h.ready = p.ready

\* Without a heartbeat task the row matters only once readiness is withdrawn.
LEMMA SameStage ==
    ASSUME NEW h, ProcInv(h), NEW p, SameButRow(p, h), p.beat = "off", ~p.mayExist
    PROVE  ProcInv(p)
  BY DEF ProcInv, SameButRow

\* _remove_row, whether or not it fails.
LEMMA RemoveRowStep ==
    ASSUME GpuInv, NEW w \in Workers, NEW p \in Process, RemoveRow(w, p),
           UNCHANGED <<directory, hostLock, pgLock>>, p.beat = "off",
           ProcInv([p EXCEPT !.hurt = TRUE]), Locked(p, HasHost(w), pgLock = w, row[w])
    PROVE  GpuInv'
  <1>0. LET h == [p EXCEPT !.hurt = TRUE]
        IN  ProcInv(h) /\ SameButRow(p, h) /\ \A q : SameButRow(q, p) => SameButRow(q, h)
    BY DEF Process, SameButRow
  <1>1. CASE ~p.mayExist /\ Set(w, p) /\ UNCHANGED row /\ NoFault
    <2>1. ProcInv(p)
      BY <1>1, <1>0, SameStage
    <2>2. faults' \in 0 .. MaxFaults
      BY <1>1, FaultType DEF GpuInv
    <2> QED BY <1>1, <2>1, <2>2, QuietStep
  <1>2. CASE /\ p.mayExist /\ row' = [row EXCEPT ![w] = "none"]
             /\ Set(w, [p EXCEPT !.mayExist = FALSE]) /\ NoFault
    <2> DEFINE q == [p EXCEPT !.mayExist = FALSE]
    <2>1. q \in Process /\ SameButRow(q, p) /\ q.beat = "off" /\ ~q.mayExist
      BY DEF Process, SameButRow
    <2>5. ProcInv(q)
      BY <1>0, <2>1, SameStage DEF SameButRow
    <2>2. Locked(q, HasHost(w), pgLock = w, "none")
      BY DEF Locked, Process
    <2>3. faults' \in 0 .. MaxFaults
      BY <1>2, FaultType DEF GpuInv
    <2> HIDE DEF q
    <2>4. Set(w, q)
      BY <1>2 DEF q
    <2> QED BY <1>2, <2>1, <2>2, <2>3, <2>4, <2>5, RowStep
  <1>3. CASE /\ p.mayExist /\ row' \in {row, [row EXCEPT ![w] = "none"]}
             /\ Set(w, [p EXCEPT !.hurt = TRUE]) /\ Fault
    <2> DEFINE q == [p EXCEPT !.hurt = TRUE]
    <2>1. q \in Process /\ ProcInv(q) /\ q.hurt
      BY DEF Process
    <2>2. \A r : Locked(q, HasHost(w), pgLock = w, r)
      BY DEF Locked, Process
    <2>3. faults' \in 0 .. MaxFaults
      BY <1>3, FaultType DEF GpuInv
    <2> HIDE DEF q
    <2>4. Set(w, q)
      BY <1>3 DEF q
    <2>5. CASE row' = row
      BY <2>1, <2>2, <2>3, <2>4, <2>5, QuietStep
    <2>6. CASE row' = [row EXCEPT ![w] = "none"]
      BY <2>1, <2>2, <2>3, <2>4, <2>6, RowStep
    <2> QED BY <1>3, <2>5, <2>6
  <1> QED BY <1>1, <1>2, <1>3 DEF RemoveRow

\* heartbeat.stop: the task and its hold on the connection are gone, and a
\* session lost with a probe is known to be lost.
LEMMA CancelBeatStep ==
    ASSUME GpuInv, NEW w \in Workers, NEW p \in Process, CancelBeat(w, p),
           UNCHANGED <<directory, hostLock, faults>>,
           p.beat # "off" => p.mayExist, Locked(p, HasHost(w), pgLock = w, row[w]),
           ProcInv([p EXCEPT !.beat = "off", !.guard = IF @ = "beat" THEN "free" ELSE @])
    PROVE  GpuInv'
  <1> DEFINE q == [p EXCEPT !.beat = "off", !.guard = IF @ = "beat" THEN "free" ELSE @]
             k == [q EXCEPT !.lost = TRUE]
  <1>1. q \in Process /\ ProcInv(q)
    BY DEF Process
  <1>2. /\ q.pc = p.pc /\ q.model = p.model /\ q.conn = p.conn /\ q.lost = p.lost
        /\ q.hurt = p.hurt /\ q.mayExist = p.mayExist
    BY DEF Process
  <1>3. PICK r \in {"none", "fresh", "stale"} :
             row' = [row EXCEPT ![w] = r] /\ (r = row[w] \/ p.mayExist)
    BY DEF CancelBeat, GpuInv, TypeOK
  <1>4. \/ Set(w, q) /\ UNCHANGED pgLock
        \/ pgLock = w /\ pgLock' = Null /\ Set(w, k)
    BY DEF CancelBeat
  <1>5. faults' \in 0 .. MaxFaults
    BY DEF GpuInv, TypeOK
  <1> HIDE DEF q
  <1>6. CASE Set(w, q) /\ UNCHANGED pgLock
    <2>1. Locked(q, HasHost(w), pgLock = w, r)
      BY <1>2, <1>3 DEF Locked
    <2> QED BY <1>1, <1>3, <1>5, <1>6, <2>1, RowStep
  <1>7. CASE pgLock = w /\ pgLock' = Null /\ Set(w, k)
    <2>1. /\ k \in Process /\ k.lost
          /\ k.model = q.model /\ k.pc = q.pc /\ k.conn = q.conn /\ k.hurt = q.hurt
          /\ k.mayExist = q.mayExist
          /\ k.warm = q.warm /\ k.guard = q.guard /\ k.beat = q.beat /\ k.claim = q.claim
          /\ k.accepting = q.accepting /\ k.ready = q.ready
      BY <1>1 DEF Process
    <2> HIDE DEF k
    <2>2. ProcInv(k)
      BY ZenonT(60), <1>1, <2>1 DEF ProcInv
    <2>3. SharedTypes /\ Frame(w) /\ (HasHost(w)' <=> HasHost(w)) /\ row'[w] = r
      BY <1>3, <1>5, <1>7, WorkersAssumption DEF GpuInv, TypeOK, SharedTypes, Frame, HasHost
    <2>4. pgLock' # w
      BY <1>7, WorkersAssumption
    <2>5. Locked(k, HasHost(w)', pgLock' = w, row'[w])
      BY <1>2, <1>3, <2>1, <2>3, <2>4 DEF Locked
    <2> QED BY <1>7, <2>1, <2>2, <2>3, <2>5, WorkerStep
  <1> QED BY <1>4, <1>6, <1>7

\* A worker frees the directory lock if it has it, and nobody else's.
LEMMA FreeHostFrame ==
    ASSUME TypeOK, NEW w \in Workers, FreeHost(w), UNCHANGED directory
    PROVE  /\ hostLock' \in [Directories -> Workers \cup {Null}]
           /\ ~HasHost(w)'
           /\ \A v \in Workers \ {w} : HasHost(v)' <=> HasHost(v)
  BY WorkersAssumption DEF TypeOK, FreeHost, HasHost

-----------------------------------------------------------------------------
(* The invariant is inductive. *)

\* Nothing has started.
LEMMA InitInv == Init => GpuInv
  <1> SUFFICES ASSUME Init PROVE GpuInv
    OBVIOUS
  <1>1. Fresh \in Process /\ ProcInv(Fresh)
    BY DEF Fresh, Process, Stages, ProcInv, Startup, Closing, Over, ModelStages, Withdrawn
  <1>2. \A w \in Workers : proc[w] = Fresh /\ row[w] = "none" /\ pgLock # w
    BY WorkersAssumption DEF Init
  <1>3. TypeOK
    BY <1>1, WorkersAssumption DEF Init, TypeOK
  <1>4. ASSUME NEW w \in Workers PROVE LockInv(w)
    <2>1. Locked(Fresh, HasHost(w), pgLock = w, row[w])
      BY <1>2 DEF Locked, Fresh
    <2> QED BY <1>2, <2>1 DEF LockInv
  <1> QED BY <1>1, <1>2, <1>3, <1>4 DEF GpuInv

\* Every step preserves the invariant.
LEMMA StepInv == GpuInv /\ [Next]_vars => GpuInv'
  <1> SUFFICES ASSUME GpuInv, [Next]_vars PROVE GpuInv'
    OBVIOUS
  <1>a. \A w \in Workers : /\ proc[w] \in Process /\ ProcInv(proc[w])
                           /\ Locked(proc[w], HasHost(w), pgLock = w, row[w])
    BY DEF GpuInv, TypeOK, LockInv
  <1>b. faults \in 0 .. MaxFaults /\ (Fault \/ NoFault => faults' \in 0 .. MaxFaults)
    BY FaultType DEF GpuInv, TypeOK
  <1> USE DEF At, Goto
  <1>1. ASSUME NEW w \in Workers, Start(w) PROVE GpuInv'
    <2>0. SUFFICES ASSUME NEW p \in Process, p = proc[w], ProcInv(p),
                          Locked(p, HasHost(w), pgLock = w, row[w])
                   PROVE  GpuInv'
      BY <1>a
    <2>1. p.pc = "off" /\ ProcInv(p) /\ Locked(p, HasHost(w), pgLock = w, row[w])
      BY <1>1, <2>0 DEF Start
    <2>2. CASE Set(w, [p EXCEPT !.pc = "starting"])
      <3> DEFINE q == [p EXCEPT !.pc = "starting"]
      <3>1. q \in Process
        BY DEF Process, Stages, Startup, Closing, Over
      <3>2. ProcInv(q)
        BY <2>1 DEF Process, ProcInv, Startup, Closing, ModelStages, Withdrawn
      <3>3. Locked(q, HasHost(w), pgLock = w, row[w])
        BY <2>1 DEF Process, ProcInv, Startup, Closing, ModelStages, Withdrawn, Locked
      <3> HIDE DEF q
      <3>4. Set(w, q)
        BY <2>2 DEF q
      <3> QED BY <1>b, <1>1, <2>2, <3>1, <3>2, <3>3, <3>4, QuietStep DEF Start
    <2> QED BY <1>1, <2>0, <2>2 DEF Start
  <1>2. ASSUME NEW w \in Workers, LoadModel(w) PROVE GpuInv'
    <2>0. SUFFICES ASSUME NEW p \in Process, p = proc[w], ProcInv(p),
                          Locked(p, HasHost(w), pgLock = w, row[w])
                   PROVE  GpuInv'
      BY <1>a
    <2>1. p.pc = "model" /\ ProcInv(p) /\ Locked(p, HasHost(w), pgLock = w, row[w])
      BY <1>2, <2>0 DEF LoadModel
    <2>2. CASE Set(w, [p EXCEPT !.model = TRUE, !.ready = TRUE, !.accepting = TRUE,
                             !.pc = "first probe"])
      <3> DEFINE q == [p EXCEPT !.model = TRUE, !.ready = TRUE, !.accepting = TRUE,
                             !.pc = "first probe"]
      <3>1. q \in Process
        BY DEF Process, Stages, Startup, Closing, Over
      <3>2. ProcInv(q)
        BY <2>1 DEF Process, ProcInv, Startup, Closing, ModelStages, Withdrawn
      <3>3. Locked(q, HasHost(w), pgLock = w, row[w])
        BY <2>1 DEF Process, ProcInv, Startup, Closing, ModelStages, Withdrawn, Locked
      <3> HIDE DEF q
      <3>4. Set(w, q)
        BY <2>2 DEF q
      <3> QED BY <1>b, <1>2, <2>2, <3>1, <3>2, <3>3, <3>4, QuietStep DEF LoadModel
    <2>3. CASE Set(w, [p EXCEPT !.pc = "stop heartbeat"])
      <3> DEFINE q == [p EXCEPT !.pc = "stop heartbeat"]
      <3>1. q \in Process
        BY DEF Process, Stages, Startup, Closing, Over
      <3>2. ProcInv(q)
        BY <2>1 DEF Process, ProcInv, Startup, Closing, ModelStages, Withdrawn
      <3>3. Locked(q, HasHost(w), pgLock = w, row[w])
        BY <2>1 DEF Process, ProcInv, Startup, Closing, ModelStages, Withdrawn, Locked
      <3> HIDE DEF q
      <3>4. Set(w, q)
        BY <2>3 DEF q
      <3> QED BY <1>b, <1>2, <2>3, <3>1, <3>2, <3>3, <3>4, QuietStep DEF LoadModel
    <2> QED BY <1>2, <2>0, <2>2, <2>3 DEF LoadModel
  <1>3. ASSUME NEW w \in Workers, FirstProbe(w) PROVE GpuInv'
    <2>0. SUFFICES ASSUME NEW p \in Process, p = proc[w], ProcInv(p),
                          Locked(p, HasHost(w), pgLock = w, row[w])
                   PROVE  GpuInv'
      BY <1>a
    <2>1. p.pc = "first probe" /\ ProcInv(p) /\ Locked(p, HasHost(w), pgLock = w, row[w])
      BY <1>3, <2>0 DEF FirstProbe
    <2>2. CASE /\ Fault \/ NoFault
               /\ Set(w, [p EXCEPT !.pc = "first row"])
      <3> DEFINE q == [p EXCEPT !.pc = "first row"]
      <3>1. q \in Process
        BY DEF Process, Stages, Startup, Closing, Over
      <3>2. ProcInv(q)
        BY <2>1 DEF Process, ProcInv, Startup, Closing, ModelStages, Withdrawn
      <3>3. Locked(q, HasHost(w), pgLock = w, row[w])
        BY <2>1 DEF Process, ProcInv, Startup, Closing, ModelStages, Withdrawn, Locked
      <3> HIDE DEF q
      <3>4. Set(w, q)
        BY <2>2 DEF q
      <3> QED BY <1>b, <1>3, <2>2, <3>1, <3>2, <3>3, <3>4, QuietStep DEF FirstProbe
    <2>3. CASE /\ pgLock # w /\ (Fault \/ NoFault)
               /\ Set(w, [Unready(p) EXCEPT !.pc = "stop heartbeat"])
      <3> DEFINE q == [Unready(p) EXCEPT !.pc = "stop heartbeat"]
      <3>1. q \in Process
        BY DEF Process, Stages, Startup, Closing, Over, Unready
      <3>2. ProcInv(q)
        BY <2>1, <2>3 DEF Process, ProcInv, Startup, Closing, ModelStages, Withdrawn, Locked,
           Unready
      <3>3. Locked(q, HasHost(w), pgLock = w, row[w])
        BY <2>1, <2>3 DEF Process, ProcInv, Startup, Closing, ModelStages, Withdrawn, Locked,
           Unready
      <3> HIDE DEF q
      <3>4. Set(w, q)
        BY <2>3 DEF q
      <3> QED BY <1>b, <1>3, <2>3, <3>1, <3>2, <3>3, <3>4, QuietStep DEF FirstProbe
    <2>4. CASE /\ Fault \/ NoFault
               /\ Set(w, [[Unready(p) EXCEPT !.pc = "stop heartbeat"]
                             EXCEPT !.lost = TRUE, !.hurt = TRUE])
      <3> DEFINE q == [[Unready(p) EXCEPT !.pc = "stop heartbeat"]
                         EXCEPT !.lost = TRUE, !.hurt = TRUE]
      <3>1. q \in Process
        BY ZenonT(60) DEF Process, Stages, Startup, Closing, Over, Unready
      <3>2. ProcInv(q)
        BY ZenonT(60), <2>1
           DEF Process, ProcInv, Startup, Closing, ModelStages, Withdrawn, Unready
      <3>3. Locked(q, HasHost(w), pgLock = w, row[w])
        BY <2>1 DEF Process, ProcInv, Startup, Closing, ModelStages, Withdrawn, Locked, Unready
      <3> HIDE DEF q
      <3>4. Set(w, q)
        BY <2>4 DEF q
      <3> QED BY <1>b, <1>3, <2>4, <3>1, <3>2, <3>3, <3>4, QuietStep DEF FirstProbe
    <2> QED BY <1>3, <2>0, <2>2, <2>3, <2>4 DEF FirstProbe, Probed, SessionAnswers
  <1>4. ASSUME NEW w \in Workers, BeatWakes(w) PROVE GpuInv'
    <2>0. SUFFICES ASSUME NEW p \in Process, p = proc[w], ProcInv(p),
                          Locked(p, HasHost(w), pgLock = w, row[w])
                   PROVE  GpuInv'
      BY <1>a
    <2>1. /\ p.beat = "sleeping" /\ p.guard = "free" /\ ProcInv(p)
          /\ Locked(p, HasHost(w), pgLock = w, row[w])
      BY <1>4, <2>0 DEF BeatWakes
    <2>2. CASE Set(w, [p EXCEPT !.guard = "beat", !.beat = "probing"])
      <3> DEFINE q == [p EXCEPT !.guard = "beat", !.beat = "probing"]
      <3>1. q \in Process
        BY DEF Process, Stages, Startup, Closing, Over
      <3>2. ProcInv(q)
        BY <2>1 DEF Process, ProcInv, Startup, Closing, ModelStages, Withdrawn
      <3>3. Locked(q, HasHost(w), pgLock = w, row[w])
        BY <2>1 DEF Process, ProcInv, Startup, Closing, ModelStages, Withdrawn, Locked
      <3> HIDE DEF q
      <3>4. Set(w, q)
        BY <2>2 DEF q
      <3> QED BY <1>b, <1>4, <2>2, <3>1, <3>2, <3>3, <3>4, QuietStep DEF BeatWakes
    <2>3. CASE Set(w, [p EXCEPT !.beat = "removing"])
      <3> DEFINE q == [p EXCEPT !.beat = "removing"]
      <3>1. q \in Process
        BY DEF Process, Stages, Startup, Closing, Over
      <3>2. ProcInv(q)
        BY <2>1 DEF Process, ProcInv, Startup, Closing, ModelStages, Withdrawn
      <3>3. Locked(q, HasHost(w), pgLock = w, row[w])
        BY <2>1 DEF Process, ProcInv, Startup, Closing, ModelStages, Withdrawn, Locked
      <3> HIDE DEF q
      <3>4. Set(w, q)
        BY <2>3 DEF q
      <3> QED BY <1>b, <1>4, <2>3, <3>1, <3>2, <3>3, <3>4, QuietStep DEF BeatWakes
    <2> QED BY <1>4, <2>0, <2>2, <2>3 DEF BeatWakes
  <1>5. ASSUME NEW w \in Workers, BeatProbed(w) PROVE GpuInv'
    <2>0. SUFFICES ASSUME NEW p \in Process, p = proc[w], ProcInv(p),
                          Locked(p, HasHost(w), pgLock = w, row[w])
                   PROVE  GpuInv'
      BY <1>a
    <2>1. p.beat = "probing" /\ ProcInv(p) /\ Locked(p, HasHost(w), pgLock = w, row[w])
      BY <1>5, <2>0 DEF BeatProbed
    <2>2. CASE /\ Fault \/ NoFault
               /\ Set(w, [p EXCEPT !.guard = "free", !.beat = "recording"])
      <3> DEFINE q == [p EXCEPT !.guard = "free", !.beat = "recording"]
      <3>1. q \in Process
        BY DEF Process, Stages, Startup, Closing, Over
      <3>2. ProcInv(q)
        BY <2>1 DEF Process, ProcInv, Startup, Closing, ModelStages, Withdrawn
      <3>3. Locked(q, HasHost(w), pgLock = w, row[w])
        BY <2>1 DEF Process, ProcInv, Startup, Closing, ModelStages, Withdrawn, Locked
      <3> HIDE DEF q
      <3>4. Set(w, q)
        BY <2>2 DEF q
      <3> QED BY <1>b, <1>5, <2>2, <3>1, <3>2, <3>3, <3>4, QuietStep DEF BeatProbed
    <2>3. CASE /\ pgLock # w /\ (Fault \/ NoFault)
               /\ Set(w, [Unready(p) EXCEPT !.beat = "removing"])
      <3> DEFINE q == [Unready(p) EXCEPT !.beat = "removing"]
      <3>1. q \in Process
        BY DEF Process, Stages, Startup, Closing, Over, Unready
      <3>2. ProcInv(q)
        BY <2>1, <2>3 DEF Process, ProcInv, Startup, Closing, ModelStages, Withdrawn, Locked,
           Unready
      <3>3. Locked(q, HasHost(w), pgLock = w, row[w])
        BY <2>1, <2>3 DEF Process, ProcInv, Startup, Closing, ModelStages, Withdrawn, Locked,
           Unready
      <3> HIDE DEF q
      <3>4. Set(w, q)
        BY <2>3 DEF q
      <3> QED BY <1>b, <1>5, <2>3, <3>1, <3>2, <3>3, <3>4, QuietStep DEF BeatProbed
    <2>4. CASE /\ Fault \/ NoFault
               /\ Set(w, [[Unready(p) EXCEPT !.beat = "removing"]
                             EXCEPT !.lost = TRUE, !.hurt = TRUE])
      <3> DEFINE q == [[Unready(p) EXCEPT !.beat = "removing"]
                         EXCEPT !.lost = TRUE, !.hurt = TRUE]
      <3>1. q \in Process
        BY ZenonT(60) DEF Process, Stages, Startup, Closing, Over, Unready
      <3>2. ProcInv(q)
        BY ZenonT(60), <2>1
           DEF Process, ProcInv, Startup, Closing, ModelStages, Withdrawn, Unready
      <3>3. Locked(q, HasHost(w), pgLock = w, row[w])
        BY <2>1 DEF Process, ProcInv, Startup, Closing, ModelStages, Withdrawn, Locked, Unready
      <3> HIDE DEF q
      <3>4. Set(w, q)
        BY <2>4 DEF q
      <3> QED BY <1>b, <1>5, <2>4, <3>1, <3>2, <3>3, <3>4, QuietStep DEF BeatProbed
    <2> QED BY <1>5, <2>0, <2>2, <2>3, <2>4 DEF BeatProbed, Probed, SessionAnswers
  <1>6. ASSUME NEW w \in Workers, ClaimProbes(w) PROVE GpuInv'
    <2>0. SUFFICES ASSUME NEW p \in Process, p = proc[w], ProcInv(p),
                          Locked(p, HasHost(w), pgLock = w, row[w])
                   PROVE  GpuInv'
      BY <1>a
    <2>1. /\ p.pc = "serving" /\ p.claim = "none" /\ p.guard = "free" /\ ProcInv(p)
          /\ Locked(p, HasHost(w), pgLock = w, row[w])
      BY <1>6, <2>0 DEF ClaimProbes
    <2>2. CASE Set(w, [p EXCEPT !.claim = "probing", !.guard = "claim"])
      <3> DEFINE q == [p EXCEPT !.claim = "probing", !.guard = "claim"]
      <3>1. q \in Process
        BY DEF Process, Stages, Startup, Closing, Over
      <3>2. ProcInv(q)
        BY <2>1 DEF Process, ProcInv, Startup, Closing, ModelStages, Withdrawn
      <3>3. Locked(q, HasHost(w), pgLock = w, row[w])
        BY <2>1 DEF Process, ProcInv, Startup, Closing, ModelStages, Withdrawn, Locked
      <3> HIDE DEF q
      <3>4. Set(w, q)
        BY <2>2 DEF q
      <3> QED BY <1>b, <1>6, <2>2, <3>1, <3>2, <3>3, <3>4, QuietStep DEF ClaimProbes
    <2> QED BY <1>6, <2>0, <2>2 DEF ClaimProbes
  <1>7. ASSUME NEW w \in Workers, ClaimProbed(w) PROVE GpuInv'
    <2>0. SUFFICES ASSUME NEW p \in Process, p = proc[w], ProcInv(p),
                          Locked(p, HasHost(w), pgLock = w, row[w])
                   PROVE  GpuInv'
      BY <1>a
    <2>1. p.claim = "probing" /\ ProcInv(p) /\ Locked(p, HasHost(w), pgLock = w, row[w])
      BY <1>7, <2>0 DEF ClaimProbed
    <2>2. CASE /\ Fault \/ NoFault
               /\ Set(w, [p EXCEPT !.guard = "free",
                                   !.claim = IF p.accepting THEN "claiming" ELSE "none"])
      <3> DEFINE q == [p EXCEPT !.guard = "free",
                             !.claim = IF p.accepting THEN "claiming" ELSE "none"]
      <3>1. q \in Process
        BY ZenonT(60) DEF Process, Stages, Startup, Closing, Over
      <3>2. ProcInv(q)
        BY ZenonT(60), <2>1 DEF Process, ProcInv, Startup, Closing, ModelStages, Withdrawn
      <3>3. Locked(q, HasHost(w), pgLock = w, row[w])
        BY <2>1 DEF Process, ProcInv, Startup, Closing, ModelStages, Withdrawn, Locked
      <3> HIDE DEF q
      <3>4. Set(w, q)
        BY <2>2 DEF q
      <3> QED BY <1>b, <1>7, <2>2, <3>1, <3>2, <3>3, <3>4, QuietStep DEF ClaimProbed
    <2>3. CASE /\ pgLock # w /\ (Fault \/ NoFault)
               /\ Set(w, [Unready(p) EXCEPT !.claim = "none"])
      <3> DEFINE q == [Unready(p) EXCEPT !.claim = "none"]
      <3>1. q \in Process
        BY DEF Process, Stages, Startup, Closing, Over, Unready
      <3>2. ProcInv(q)
        BY ZenonT(60), <2>1, <2>3
           DEF Process, ProcInv, Startup, Closing, ModelStages, Withdrawn, Locked, Unready
      <3>3. Locked(q, HasHost(w), pgLock = w, row[w])
        BY <2>1, <2>3 DEF Process, ProcInv, Startup, Closing, ModelStages, Withdrawn, Locked,
           Unready
      <3> HIDE DEF q
      <3>4. Set(w, q)
        BY <2>3 DEF q
      <3> QED BY <1>b, <1>7, <2>3, <3>1, <3>2, <3>3, <3>4, QuietStep DEF ClaimProbed
    <2>4. CASE /\ Fault \/ NoFault
               /\ Set(w, [[Unready(p) EXCEPT !.claim = "none"]
                             EXCEPT !.lost = TRUE, !.hurt = TRUE])
      <3> DEFINE q == [[Unready(p) EXCEPT !.claim = "none"]
                         EXCEPT !.lost = TRUE, !.hurt = TRUE]
      <3>1. q \in Process
        BY ZenonT(60) DEF Process, Stages, Startup, Closing, Over, Unready
      <3>2. ProcInv(q)
        BY ZenonT(60), <2>1
           DEF Process, ProcInv, Startup, Closing, ModelStages, Withdrawn, Unready
      <3>3. Locked(q, HasHost(w), pgLock = w, row[w])
        BY <2>1 DEF Process, ProcInv, Startup, Closing, ModelStages, Withdrawn, Locked, Unready
      <3> HIDE DEF q
      <3>4. Set(w, q)
        BY <2>4 DEF q
      <3> QED BY <1>b, <1>7, <2>4, <3>1, <3>2, <3>3, <3>4, QuietStep DEF ClaimProbed
    <2> QED BY <1>7, <2>0, <2>2, <2>3, <2>4 DEF ClaimProbed, Probed, SessionAnswers
  <1>8. ASSUME NEW w \in Workers, ExecutionEnds(w) PROVE GpuInv'
    <2>0. SUFFICES ASSUME NEW p \in Process, p = proc[w], ProcInv(p),
                          Locked(p, HasHost(w), pgLock = w, row[w])
                   PROVE  GpuInv'
      BY <1>a
    <2>1. p.claim = "executing" /\ ProcInv(p) /\ Locked(p, HasHost(w), pgLock = w, row[w])
      BY <1>8, <2>0 DEF ExecutionEnds
    <2>2. CASE Set(w, [p EXCEPT !.claim = "none"])
      <3> DEFINE q == [p EXCEPT !.claim = "none"]
      <3>1. q \in Process
        BY ZenonT(60) DEF Process, Stages, Startup, Closing, Over
      <3>2. ProcInv(q)
        BY <2>1 DEF Process, ProcInv, Startup, Closing, ModelStages, Withdrawn
      <3>3. Locked(q, HasHost(w), pgLock = w, row[w])
        BY <2>1 DEF Process, ProcInv, Startup, Closing, ModelStages, Withdrawn, Locked
      <3> HIDE DEF q
      <3>4. Set(w, q)
        BY <2>2 DEF q
      <3> QED BY <1>b, <1>8, <2>2, <3>1, <3>2, <3>3, <3>4, QuietStep DEF ExecutionEnds
    <2> QED BY <1>8, <2>0, <2>2 DEF ExecutionEnds
  <1>9. ASSUME NEW w \in Workers, stop_claiming(w) PROVE GpuInv'
    <2>0. SUFFICES ASSUME NEW p \in Process, p = proc[w], ProcInv(p),
                          Locked(p, HasHost(w), pgLock = w, row[w])
                   PROVE  GpuInv'
      BY <1>a
    <2>1. /\ p.pc = "serving" /\ p.warm = "no" /\ ProcInv(p)
          /\ Locked(p, HasHost(w), pgLock = w, row[w])
      BY <1>9, <2>0 DEF stop_claiming
    <2>2. CASE Set(w, [p EXCEPT !.accepting = FALSE, !.warm = "cancel"])
      <3> DEFINE q == [p EXCEPT !.accepting = FALSE, !.warm = "cancel"]
      <3>1. q \in Process
        BY DEF Process, Stages, Startup, Closing, Over
      <3>2. ProcInv(q)
        BY <2>1 DEF Process, ProcInv, Startup, Closing, ModelStages, Withdrawn
      <3>3. Locked(q, HasHost(w), pgLock = w, row[w])
        BY <2>1 DEF Process, ProcInv, Startup, Closing, ModelStages, Withdrawn, Locked
      <3> HIDE DEF q
      <3>4. Set(w, q)
        BY <2>2 DEF q
      <3> QED BY <1>b, <1>9, <2>2, <3>1, <3>2, <3>3, <3>4, QuietStep DEF stop_claiming
    <2> QED BY <1>9, <2>0, <2>2 DEF stop_claiming
  <1>10. ASSUME NEW w \in Workers, shutdown(w) PROVE GpuInv'
    <2>0. SUFFICES ASSUME NEW p \in Process, p = proc[w], ProcInv(p),
                          Locked(p, HasHost(w), pgLock = w, row[w])
                   PROVE  GpuInv'
      BY <1>a
    <2>1. p.pc = "serving" /\ ProcInv(p) /\ Locked(p, HasHost(w), pgLock = w, row[w])
      BY <1>10, <2>0 DEF shutdown
    <2>2. CASE Set(w, [p EXCEPT !.accepting = FALSE, !.pc = "stop heartbeat"])
      <3> DEFINE q == [p EXCEPT !.accepting = FALSE, !.pc = "stop heartbeat"]
      <3>1. q \in Process
        BY DEF Process, Stages, Startup, Closing, Over
      <3>2. ProcInv(q)
        BY <2>1 DEF Process, ProcInv, Startup, Closing, ModelStages, Withdrawn
      <3>3. Locked(q, HasHost(w), pgLock = w, row[w])
        BY <2>1 DEF Process, ProcInv, Startup, Closing, ModelStages, Withdrawn, Locked
      <3> HIDE DEF q
      <3>4. Set(w, q)
        BY <2>2 DEF q
      <3> QED BY <1>b, <1>10, <2>2, <3>1, <3>2, <3>3, <3>4, QuietStep DEF shutdown
    <2> QED BY <1>10, <2>0, <2>2 DEF shutdown
  <1>11. ASSUME NEW w \in Workers, Drain(w) PROVE GpuInv'
    <2>0. SUFFICES ASSUME NEW p \in Process, p = proc[w], ProcInv(p),
                          Locked(p, HasHost(w), pgLock = w, row[w])
                   PROVE  GpuInv'
      BY <1>a
    <2>1. /\ p.pc = "drain" /\ p.claim \notin {"claiming", "executing"} /\ ProcInv(p)
          /\ Locked(p, HasHost(w), pgLock = w, row[w])
      BY <1>11, <2>0 DEF Drain
    <2>2. CASE Set(w, [p EXCEPT !.pc = "unload"])
      <3> DEFINE q == [p EXCEPT !.pc = "unload"]
      <3>1. q \in Process
        BY DEF Process, Stages, Startup, Closing, Over
      <3>2. ProcInv(q)
        BY <2>1 DEF Process, ProcInv, Startup, Closing, ModelStages, Withdrawn
      <3>3. Locked(q, HasHost(w), pgLock = w, row[w])
        BY <2>1 DEF Process, ProcInv, Startup, Closing, ModelStages, Withdrawn, Locked
      <3> HIDE DEF q
      <3>4. Set(w, q)
        BY <2>2 DEF q
      <3> QED BY <1>b, <1>11, <2>2, <3>1, <3>2, <3>3, <3>4, QuietStep DEF Drain
    <2> QED BY <1>11, <2>0, <2>2 DEF Drain
  <1>12. ASSUME NEW w \in Workers, Unload(w) PROVE GpuInv'
    <2>0. SUFFICES ASSUME NEW p \in Process, p = proc[w], ProcInv(p),
                          Locked(p, HasHost(w), pgLock = w, row[w])
                   PROVE  GpuInv'
      BY <1>a
    <2>1. p.pc = "unload" /\ ProcInv(p) /\ Locked(p, HasHost(w), pgLock = w, row[w])
      BY <1>12, <2>0 DEF Unload
    <2>2. CASE Set(w, [p EXCEPT !.model = FALSE, !.pc = "release"])
      <3> DEFINE q == [p EXCEPT !.model = FALSE, !.pc = "release"]
      <3>1. q \in Process
        BY DEF Process, Stages, Startup, Closing, Over
      <3>2. ProcInv(q)
        BY <2>1 DEF Process, ProcInv, Startup, Closing, ModelStages, Withdrawn
      <3>3. Locked(q, HasHost(w), pgLock = w, row[w])
        BY <2>1 DEF Process, ProcInv, Startup, Closing, ModelStages, Withdrawn, Locked
      <3> HIDE DEF q
      <3>4. Set(w, q)
        BY <2>2 DEF q
      <3> QED BY <1>b, <1>12, <2>2, <3>1, <3>2, <3>3, <3>4, QuietStep DEF Unload
    <2> QED BY <1>12, <2>0, <2>2 DEF Unload
  <1>13. ASSUME NEW w \in Workers, AcquireHost(w) PROVE GpuInv'
    <2>0. SUFFICES ASSUME NEW p \in Process, p = proc[w], ProcInv(p),
                          Locked(p, HasHost(w), pgLock = w, row[w])
                   PROVE  GpuInv'
      BY <1>a
    <2>1. p.pc = "starting" /\ ProcInv(p) /\ Locked(p, HasHost(w), pgLock = w, row[w])
      BY <1>13, <2>0 DEF AcquireHost
    <2>2. CASE /\ hostLock[directory[w]] = Null
               /\ hostLock' = [hostLock EXCEPT ![directory[w]] = w]
               /\ Set(w, [p EXCEPT !.pc = "session"]) /\ NoFault
      <3> DEFINE q == [p EXCEPT !.pc = "session"]
      <3>1. q \in Process
        BY DEF Process, Stages, Startup, Closing, Over
      <3>2. ProcInv(q)
        BY <2>1 DEF Process, ProcInv, Startup, Closing, ModelStages, Withdrawn
      <3>3. /\ SharedTypes /\ Frame(w) /\ (HasHost(w)' <=> TRUE)
            /\ (pgLock' = w <=> pgLock = w) /\ row'[w] = row[w]
        BY <1>b, <1>13, <2>2, WorkersAssumption DEF AcquireHost, GpuInv, TypeOK, SharedTypes,
           Frame, HasHost
      <3>4. Locked(q, TRUE, pgLock = w, row[w])
        BY <2>1, <2>2 DEF Process, ProcInv, Startup, Closing, ModelStages, Withdrawn, Locked
      <3> HIDE DEF q
      <3>5. Locked(q, HasHost(w)', pgLock' = w, row'[w])
        BY <3>3, <3>4 DEF Locked
      <3>6. Set(w, q)
        BY <2>2 DEF q
      <3> QED BY <3>1, <3>2, <3>3, <3>5, <3>6, WorkerStep
    <2>3. CASE /\ UNCHANGED hostLock /\ (Fault \/ NoFault)
               /\ Set(w, [p EXCEPT !.pc = "stop heartbeat"])
      <3> DEFINE q == [p EXCEPT !.pc = "stop heartbeat"]
      <3>1. q \in Process
        BY DEF Process, Stages, Startup, Closing, Over
      <3>2. ProcInv(q)
        BY <2>1 DEF Process, ProcInv, Startup, Closing, ModelStages, Withdrawn
      <3>3. /\ SharedTypes /\ Frame(w) /\ (HasHost(w)' <=> HasHost(w))
            /\ (pgLock' = w <=> pgLock = w) /\ row'[w] = row[w]
        BY <1>b, <1>13, <2>3 DEF AcquireHost, GpuInv, TypeOK, SharedTypes, Frame, HasHost
      <3>4. Locked(q, HasHost(w), pgLock = w, row[w])
        BY <2>1, <2>3 DEF Process, ProcInv, Startup, Closing, ModelStages, Withdrawn, Locked
      <3> HIDE DEF q
      <3>5. Locked(q, HasHost(w)', pgLock' = w, row'[w])
        BY <3>3, <3>4 DEF Locked
      <3>6. Set(w, q)
        BY <2>3 DEF q
      <3> QED BY <3>1, <3>2, <3>3, <3>5, <3>6, WorkerStep
    <2> QED BY <1>13, <2>0, <2>2, <2>3 DEF AcquireHost
  <1>14. ASSUME NEW w \in Workers, AcquireSession(w) PROVE GpuInv'
    <2>0. SUFFICES ASSUME NEW p \in Process, p = proc[w], ProcInv(p),
                          Locked(p, HasHost(w), pgLock = w, row[w])
                   PROVE  GpuInv'
      BY <1>a
    <2>1. p.pc = "session" /\ ProcInv(p) /\ Locked(p, HasHost(w), pgLock = w, row[w])
      BY <1>14, <2>0 DEF AcquireSession
    <2>2. CASE /\ pgLock = Null /\ pgLock' = w /\ UNCHANGED hostLock /\ NoFault
               /\ Set(w, [p EXCEPT !.conn = TRUE, !.pc = "model"])
      <3> DEFINE q == [p EXCEPT !.conn = TRUE, !.pc = "model"]
      <3>1. q \in Process
        BY DEF Process, Stages, Startup, Closing, Over
      <3>2. ProcInv(q)
        BY <2>1 DEF Process, ProcInv, Startup, Closing, ModelStages, Withdrawn
      <3>3. /\ SharedTypes /\ Frame(w) /\ (HasHost(w)' <=> HasHost(w))
            /\ (pgLock' = w <=> TRUE) /\ row'[w] = row[w]
        BY <1>b, <1>14, <2>2, WorkersAssumption DEF AcquireSession, GpuInv, TypeOK,
           SharedTypes, Frame, HasHost
      <3>4. Locked(q, HasHost(w), TRUE, row[w])
        BY <2>1, <2>2 DEF Process, ProcInv, Startup, Closing, ModelStages, Withdrawn, Locked
      <3> HIDE DEF q
      <3>5. Locked(q, HasHost(w)', pgLock' = w, row'[w])
        BY <3>3, <3>4 DEF Locked
      <3>6. Set(w, q)
        BY <2>2 DEF q
      <3> QED BY <3>1, <3>2, <3>3, <3>5, <3>6, WorkerStep
    <2>3. CASE /\ UNCHANGED pgLock /\ FreeHost(w) /\ NoFault
               /\ Set(w, [p EXCEPT !.pc = "stop heartbeat"])
      <3> DEFINE q == [p EXCEPT !.pc = "stop heartbeat"]
      <3>1. q \in Process
        BY DEF Process, Stages, Startup, Closing, Over
      <3>2. ProcInv(q)
        BY <2>1 DEF Process, ProcInv, Startup, Closing, ModelStages, Withdrawn
      <3>3. /\ SharedTypes /\ Frame(w) /\ (HasHost(w)' <=> FALSE)
            /\ (pgLock' = w <=> pgLock = w) /\ row'[w] = row[w]
        BY <1>b, <1>14, <2>3, FreeHostFrame DEF AcquireSession, GpuInv, TypeOK, SharedTypes,
           Frame
      <3>4. Locked(q, FALSE, pgLock = w, row[w])
        BY <2>1, <2>3 DEF Process, ProcInv, Startup, Closing, ModelStages, Withdrawn, Locked
      <3> HIDE DEF q
      <3>5. Locked(q, HasHost(w)', pgLock' = w, row'[w])
        BY <3>3, <3>4 DEF Locked
      <3>6. Set(w, q)
        BY <2>3 DEF q
      <3> QED BY <3>1, <3>2, <3>3, <3>5, <3>6, WorkerStep
    <2>4. CASE /\ pgLock' \in {pgLock} \cup (IF pgLock = Null THEN {w} ELSE {}) /\ FreeHost(w)
               /\ Fault
               /\ Set(w, [p EXCEPT !.pc = "stop heartbeat", !.hurt = TRUE])
      <3> DEFINE q == [p EXCEPT !.pc = "stop heartbeat", !.hurt = TRUE]
      <3>1. q \in Process
        BY DEF Process, Stages, Startup, Closing, Over
      <3>2. ProcInv(q)
        BY <2>1 DEF Process, ProcInv, Startup, Closing, ModelStages, Withdrawn
      <3>3. /\ SharedTypes /\ Frame(w) /\ (HasHost(w)' <=> FALSE)
            /\ (pgLock' = w <=> pgLock' = w) /\ row'[w] = row[w]
        BY <1>b, <1>14, <2>4, FreeHostFrame, WorkersAssumption DEF AcquireSession, GpuInv,
           TypeOK, SharedTypes, Frame
      <3>4. Locked(q, FALSE, pgLock' = w, row[w])
        BY <2>1, <2>4 DEF Process, ProcInv, Startup, Closing, ModelStages, Withdrawn, Locked
      <3> HIDE DEF q
      <3>5. Locked(q, HasHost(w)', pgLock' = w, row'[w])
        BY <3>3, <3>4 DEF Locked
      <3>6. Set(w, q)
        BY <2>4 DEF q
      <3> QED BY <3>1, <3>2, <3>3, <3>5, <3>6, WorkerStep
    <2> QED BY <1>14, <2>0, <2>2, <2>3, <2>4 DEF AcquireSession
  <1>15. ASSUME NEW w \in Workers, FirstRow(w) PROVE GpuInv'
    <2>0. SUFFICES ASSUME NEW p \in Process, p = proc[w], ProcInv(p),
                          Locked(p, HasHost(w), pgLock = w, row[w])
                   PROVE  GpuInv'
      BY <1>a
    <2>1. p.pc = "first row" /\ ProcInv(p) /\ Locked(p, HasHost(w), pgLock = w, row[w])
      BY <1>15, <2>0 DEF FirstRow
    <2>2. CASE /\ row' = [row EXCEPT ![w] = "fresh"] /\ NoFault
               /\ Set(w, [p EXCEPT !.mayExist = TRUE, !.beat = "sleeping", !.pc = "serving"])
      <3> DEFINE q == [p EXCEPT !.mayExist = TRUE, !.beat = "sleeping", !.pc = "serving"]
      <3>1. q \in Process
        BY DEF Process, Stages, Startup, Closing, Over
      <3>2. ProcInv(q)
        BY <2>1, <2>2 DEF Process, ProcInv, Startup, Closing, ModelStages, Withdrawn, Locked
      <3>3. Locked(q, HasHost(w), pgLock = w, "fresh")
        BY <2>1, <2>2 DEF Process, ProcInv, Startup, Closing, ModelStages, Withdrawn, Locked
      <3> HIDE DEF q
      <3>4. Set(w, q)
        BY <2>2 DEF q
      <3> QED BY <1>b, <1>15, <2>2, <3>1, <3>2, <3>3, <3>4, RowStep DEF FirstRow
    <2>3. CASE /\ row' = [row EXCEPT ![w] = "fresh"] /\ Fault
               /\ Set(w, [p EXCEPT !.pc = "stop heartbeat", !.hurt = TRUE])
      <3> DEFINE q == [p EXCEPT !.pc = "stop heartbeat", !.hurt = TRUE]
      <3>1. q \in Process
        BY DEF Process, Stages, Startup, Closing, Over
      <3>2. ProcInv(q)
        BY <2>1, <2>3 DEF Process, ProcInv, Startup, Closing, ModelStages, Withdrawn, Locked
      <3>3. Locked(q, HasHost(w), pgLock = w, "fresh")
        BY <2>1, <2>3 DEF Process, ProcInv, Startup, Closing, ModelStages, Withdrawn, Locked
      <3> HIDE DEF q
      <3>4. Set(w, q)
        BY <2>3 DEF q
      <3> QED BY <1>b, <1>15, <2>3, <3>1, <3>2, <3>3, <3>4, RowStep DEF FirstRow
    <2>4. CASE /\ row' = row /\ Fault
               /\ Set(w, [p EXCEPT !.pc = "stop heartbeat", !.hurt = TRUE])
      <3> DEFINE q == [p EXCEPT !.pc = "stop heartbeat", !.hurt = TRUE]
      <3>1. q \in Process
        BY DEF Process, Stages, Startup, Closing, Over
      <3>2. ProcInv(q)
        BY <2>1, <2>4 DEF Process, ProcInv, Startup, Closing, ModelStages, Withdrawn, Locked
      <3>3. Locked(q, HasHost(w), pgLock = w, row[w])
        BY <2>1, <2>4 DEF Process, ProcInv, Startup, Closing, ModelStages, Withdrawn, Locked
      <3> HIDE DEF q
      <3>4. Set(w, q)
        BY <2>4 DEF q
      <3> QED BY <1>b, <1>15, <2>4, <3>1, <3>2, <3>3, <3>4, QuietStep DEF FirstRow
    <2> QED BY <1>15, <2>0, <2>2, <2>3, <2>4 DEF FirstRow
  <1>16. ASSUME NEW w \in Workers, BeatRecords(w) PROVE GpuInv'
    <2>0. SUFFICES ASSUME NEW p \in Process, p = proc[w], ProcInv(p),
                          Locked(p, HasHost(w), pgLock = w, row[w])
                   PROVE  GpuInv'
      BY <1>a
    <2>1. p.beat = "recording" /\ ProcInv(p) /\ Locked(p, HasHost(w), pgLock = w, row[w])
      BY <1>16, <2>0 DEF BeatRecords
    <2>2. CASE /\ row' = [row EXCEPT ![w] = "fresh"] /\ NoFault
               /\ Set(w, [p EXCEPT !.mayExist = TRUE, !.beat = "sleeping"])
      <3> DEFINE q == [p EXCEPT !.mayExist = TRUE, !.beat = "sleeping"]
      <3>1. q \in Process
        BY DEF Process, Stages, Startup, Closing, Over
      <3>2. ProcInv(q)
        BY <2>1, <2>2 DEF Process, ProcInv, Startup, Closing, ModelStages, Withdrawn, Locked
      <3>3. Locked(q, HasHost(w), pgLock = w, "fresh")
        BY <2>1, <2>2 DEF Process, ProcInv, Startup, Closing, ModelStages, Withdrawn, Locked
      <3> HIDE DEF q
      <3>4. Set(w, q)
        BY <2>2 DEF q
      <3> QED BY <1>b, <1>16, <2>2, <3>1, <3>2, <3>3, <3>4, RowStep DEF BeatRecords
    <2>3. CASE /\ row' = [row EXCEPT ![w] = "fresh"] /\ Fault
               /\ Set(w, [p EXCEPT !.beat = "sleeping", !.hurt = TRUE])
      <3> DEFINE q == [p EXCEPT !.beat = "sleeping", !.hurt = TRUE]
      <3>1. q \in Process
        BY DEF Process, Stages, Startup, Closing, Over
      <3>2. ProcInv(q)
        BY <2>1, <2>3 DEF Process, ProcInv, Startup, Closing, ModelStages, Withdrawn, Locked
      <3>3. Locked(q, HasHost(w), pgLock = w, "fresh")
        BY <2>1, <2>3 DEF Process, ProcInv, Startup, Closing, ModelStages, Withdrawn, Locked
      <3> HIDE DEF q
      <3>4. Set(w, q)
        BY <2>3 DEF q
      <3> QED BY <1>b, <1>16, <2>3, <3>1, <3>2, <3>3, <3>4, RowStep DEF BeatRecords
    <2>4. CASE /\ row' = row /\ Fault
               /\ Set(w, [p EXCEPT !.beat = "sleeping", !.hurt = TRUE])
      <3> DEFINE q == [p EXCEPT !.beat = "sleeping", !.hurt = TRUE]
      <3>1. q \in Process
        BY DEF Process, Stages, Startup, Closing, Over
      <3>2. ProcInv(q)
        BY <2>1, <2>4 DEF Process, ProcInv, Startup, Closing, ModelStages, Withdrawn, Locked
      <3>3. Locked(q, HasHost(w), pgLock = w, row[w])
        BY <2>1, <2>4 DEF Process, ProcInv, Startup, Closing, ModelStages, Withdrawn, Locked
      <3> HIDE DEF q
      <3>4. Set(w, q)
        BY <2>4 DEF q
      <3> QED BY <1>b, <1>16, <2>4, <3>1, <3>2, <3>3, <3>4, QuietStep DEF BeatRecords
    <2> QED BY <1>16, <2>0, <2>2, <2>3, <2>4 DEF BeatRecords
  <1>17. ASSUME NEW w \in Workers, BeatRemoves(w) PROVE GpuInv'
    <2>0. SUFFICES ASSUME NEW p \in Process, p = proc[w], ProcInv(p),
                          Locked(p, HasHost(w), pgLock = w, row[w])
                   PROVE  GpuInv'
      BY <1>a
    <2>1. p.beat = "removing" /\ ProcInv(p) /\ Locked(p, HasHost(w), pgLock = w, row[w])
      BY <1>17, <2>0 DEF BeatRemoves
    <2> DEFINE q == [p EXCEPT !.beat = "off"]
    <2>2. q \in Process
      BY DEF Process, Stages, Startup, Closing, Over
    <2>3. ProcInv([q EXCEPT !.hurt = TRUE])
      BY <2>1 DEF Process, ProcInv, Startup, Closing, ModelStages, Withdrawn
    <2>4. q.beat = "off" /\ Locked(q, HasHost(w), pgLock = w, row[w])
      BY <2>1 DEF Process, ProcInv, Startup, Closing, ModelStages, Withdrawn, Locked
    <2>5. RemoveRow(w, q)
      BY <1>17, <2>0 DEF BeatRemoves
    <2> HIDE DEF q
    <2> QED BY <1>17, <2>2, <2>3, <2>4, <2>5, RemoveRowStep DEF BeatRemoves
  <1>18. ASSUME NEW w \in Workers, WarmRemoves(w) PROVE GpuInv'
    <2>0. SUFFICES ASSUME NEW p \in Process, p = proc[w], ProcInv(p),
                          Locked(p, HasHost(w), pgLock = w, row[w])
                   PROVE  GpuInv'
      BY <1>a
    <2>1. p.warm = "remove" /\ ProcInv(p) /\ Locked(p, HasHost(w), pgLock = w, row[w])
      BY <1>18, <2>0 DEF WarmRemoves
    <2> DEFINE q == [p EXCEPT !.warm = "done"]
    <2>2. q \in Process
      BY DEF Process, Stages, Startup, Closing, Over
    <2>3. ProcInv([q EXCEPT !.hurt = TRUE])
      BY <2>1 DEF Process, ProcInv, Startup, Closing, ModelStages, Withdrawn
    <2>4. q.beat = "off" /\ Locked(q, HasHost(w), pgLock = w, row[w])
      BY <2>1 DEF Process, ProcInv, Startup, Closing, ModelStages, Withdrawn, Locked
    <2>5. RemoveRow(w, q)
      BY <1>18, <2>0 DEF WarmRemoves
    <2> HIDE DEF q
    <2> QED BY <1>18, <2>2, <2>3, <2>4, <2>5, RemoveRowStep DEF WarmRemoves
  <1>19. ASSUME NEW w \in Workers, RemoveReadiness(w) PROVE GpuInv'
    <2>0. SUFFICES ASSUME NEW p \in Process, p = proc[w], ProcInv(p),
                          Locked(p, HasHost(w), pgLock = w, row[w])
                   PROVE  GpuInv'
      BY <1>a
    <2>1. p.pc = "remove row" /\ ProcInv(p) /\ Locked(p, HasHost(w), pgLock = w, row[w])
      BY <1>19, <2>0 DEF RemoveReadiness
    <2> DEFINE q == [p EXCEPT !.pc = "drain", !.ready = FALSE, !.accepting = FALSE]
    <2>2. q \in Process
      BY DEF Process, Stages, Startup, Closing, Over
    <2>3. ProcInv([q EXCEPT !.hurt = TRUE])
      BY <2>1 DEF Process, ProcInv, Startup, Closing, ModelStages, Withdrawn
    <2>4. q.beat = "off" /\ Locked(q, HasHost(w), pgLock = w, row[w])
      BY <2>1 DEF Process, ProcInv, Startup, Closing, ModelStages, Withdrawn, Locked
    <2>5. RemoveRow(w, q)
      BY <1>19, <2>0 DEF RemoveReadiness
    <2> HIDE DEF q
    <2> QED BY <1>19, <2>2, <2>3, <2>4, <2>5, RemoveRowStep DEF RemoveReadiness
  <1>20. ASSUME NEW w \in Workers, WarmCancels(w) PROVE GpuInv'
    <2>0. SUFFICES ASSUME NEW p \in Process, p = proc[w], ProcInv(p),
                          Locked(p, HasHost(w), pgLock = w, row[w])
                   PROVE  GpuInv'
      BY <1>a
    <2>1. p.warm = "cancel" /\ ProcInv(p) /\ Locked(p, HasHost(w), pgLock = w, row[w])
      BY <1>20, <2>0 DEF WarmCancels
    <2> DEFINE q == [p EXCEPT !.warm = "remove"]
    <2>2. q \in Process
      BY DEF Process, Stages, Startup, Closing, Over
    <2>3. ProcInv([q EXCEPT !.beat = "off", !.guard = IF @ = "beat" THEN "free" ELSE @])
      BY ZenonT(60), <2>1 DEF Process, ProcInv, Startup, Closing, ModelStages, Withdrawn
    <2>4. (q.beat # "off" => q.mayExist) /\ Locked(q, HasHost(w), pgLock = w, row[w])
      BY <2>1 DEF Process, ProcInv, Startup, Closing, ModelStages, Withdrawn, Locked
    <2>5. CancelBeat(w, q)
      BY <1>20, <2>0 DEF WarmCancels
    <2> HIDE DEF q
    <2> QED BY <1>20, <2>2, <2>3, <2>4, <2>5, CancelBeatStep DEF WarmCancels
  <1>21. ASSUME NEW w \in Workers, StopHeartbeat(w) PROVE GpuInv'
    <2>0. SUFFICES ASSUME NEW p \in Process, p = proc[w], ProcInv(p),
                          Locked(p, HasHost(w), pgLock = w, row[w])
                   PROVE  GpuInv'
      BY <1>a
    <2>1. p.pc = "stop heartbeat" /\ ProcInv(p) /\ Locked(p, HasHost(w), pgLock = w, row[w])
      BY <1>21, <2>0 DEF StopHeartbeat
    <2> DEFINE q == [p EXCEPT !.pc = "remove row"]
    <2>2. q \in Process
      BY DEF Process, Stages, Startup, Closing, Over
    <2>3. ProcInv([q EXCEPT !.beat = "off", !.guard = IF @ = "beat" THEN "free" ELSE @])
      BY ZenonT(60), <2>1 DEF Process, ProcInv, Startup, Closing, ModelStages, Withdrawn
    <2>4. (q.beat # "off" => q.mayExist) /\ Locked(q, HasHost(w), pgLock = w, row[w])
      BY <2>1 DEF Process, ProcInv, Startup, Closing, ModelStages, Withdrawn, Locked
    <2>5. CancelBeat(w, q)
      BY <1>21, <2>0 DEF StopHeartbeat
    <2> HIDE DEF q
    <2> QED BY <1>21, <2>2, <2>3, <2>4, <2>5, CancelBeatStep DEF StopHeartbeat
  <1>22. ASSUME NEW w \in Workers, ReleaseSession(w) PROVE GpuInv'
    <2>0. SUFFICES ASSUME NEW p \in Process, p = proc[w], ProcInv(p),
                          Locked(p, HasHost(w), pgLock = w, row[w])
                   PROVE  GpuInv'
      BY <1>a
    <2>1. /\ p.pc = "release" /\ p.guard = "free" /\ ProcInv(p)
          /\ Locked(p, HasHost(w), pgLock = w, row[w])
      BY <1>22, <2>0 DEF ReleaseSession
    <2>2. CASE /\ p.conn /\ FreeSession(w) /\ NoFault
               /\ Set(w, [p EXCEPT !.ready = FALSE, !.conn = FALSE, !.pc = "unlock host"])
      <3> DEFINE q == [p EXCEPT !.ready = FALSE, !.conn = FALSE, !.pc = "unlock host"]
      <3>1. q \in Process
        BY DEF Process, Stages, Startup, Closing, Over
      <3>2. ProcInv(q)
        BY <2>1 DEF Process, ProcInv, Startup, Closing, ModelStages, Withdrawn
      <3>3. /\ SharedTypes /\ Frame(w) /\ (HasHost(w)' <=> HasHost(w))
            /\ (pgLock' = w <=> FALSE) /\ row'[w] = row[w]
        BY <1>b, <1>22, <2>2, WorkersAssumption DEF ReleaseSession, FreeSession, GpuInv,
           TypeOK, SharedTypes, Frame, HasHost
      <3>4. Locked(q, HasHost(w), FALSE, row[w])
        BY <2>1, <2>2 DEF Process, ProcInv, Startup, Closing, ModelStages, Withdrawn, Locked
      <3> HIDE DEF q
      <3>5. Locked(q, HasHost(w)', pgLock' = w, row'[w])
        BY <3>3, <3>4 DEF Locked
      <3>6. Set(w, q)
        BY <2>2 DEF q
      <3> QED BY <3>1, <3>2, <3>3, <3>5, <3>6, WorkerStep
    <2>3. CASE /\ ~p.conn /\ UNCHANGED pgLock /\ NoFault
               /\ Set(w, [p EXCEPT !.ready = FALSE, !.conn = FALSE, !.pc = "unlock host"])
      <3> DEFINE q == [p EXCEPT !.ready = FALSE, !.conn = FALSE, !.pc = "unlock host"]
      <3>1. q \in Process
        BY DEF Process, Stages, Startup, Closing, Over
      <3>2. ProcInv(q)
        BY <2>1 DEF Process, ProcInv, Startup, Closing, ModelStages, Withdrawn
      <3>3. /\ SharedTypes /\ Frame(w) /\ (HasHost(w)' <=> HasHost(w))
            /\ (pgLock' = w <=> pgLock = w) /\ row'[w] = row[w]
        BY <1>b, <1>22, <2>3 DEF ReleaseSession, GpuInv, TypeOK, SharedTypes, Frame, HasHost
      <3>4. Locked(q, HasHost(w), pgLock = w, row[w])
        BY <2>1, <2>3 DEF Process, ProcInv, Startup, Closing, ModelStages, Withdrawn, Locked
      <3> HIDE DEF q
      <3>5. Locked(q, HasHost(w)', pgLock' = w, row'[w])
        BY <3>3, <3>4 DEF Locked
      <3>6. Set(w, q)
        BY <2>3 DEF q
      <3> QED BY <3>1, <3>2, <3>3, <3>5, <3>6, WorkerStep
    <2>4. CASE /\ p.conn /\ UNCHANGED pgLock /\ Fault
               /\ Set(w, [p EXCEPT !.ready = FALSE, !.conn = FALSE, !.pc = "unlock host",
                                   !.hurt = TRUE])
      <3> DEFINE q == [p EXCEPT !.ready = FALSE, !.conn = FALSE, !.pc = "unlock host",
                                !.hurt = TRUE]
      <3>1. q \in Process
        BY DEF Process, Stages, Startup, Closing, Over
      <3>2. ProcInv(q)
        BY <2>1 DEF Process, ProcInv, Startup, Closing, ModelStages, Withdrawn
      <3>3. /\ SharedTypes /\ Frame(w) /\ (HasHost(w)' <=> HasHost(w))
            /\ (pgLock' = w <=> pgLock = w) /\ row'[w] = row[w]
        BY <1>b, <1>22, <2>4 DEF ReleaseSession, GpuInv, TypeOK, SharedTypes, Frame, HasHost
      <3>4. Locked(q, HasHost(w), pgLock = w, row[w])
        BY <2>1, <2>4 DEF Process, ProcInv, Startup, Closing, ModelStages, Withdrawn, Locked
      <3> HIDE DEF q
      <3>5. Locked(q, HasHost(w)', pgLock' = w, row'[w])
        BY <3>3, <3>4 DEF Locked
      <3>6. Set(w, q)
        BY <2>4 DEF q
      <3> QED BY <3>1, <3>2, <3>3, <3>5, <3>6, WorkerStep
    <2> QED BY <1>22, <2>0, <2>2, <2>3, <2>4 DEF ReleaseSession
  <1>23. ASSUME NEW w \in Workers, ReleaseHost(w) PROVE GpuInv'
    <2>0. SUFFICES ASSUME NEW p \in Process, p = proc[w], ProcInv(p),
                          Locked(p, HasHost(w), pgLock = w, row[w])
                   PROVE  GpuInv'
      BY <1>a
    <2>1. p.pc = "unlock host" /\ ProcInv(p) /\ Locked(p, HasHost(w), pgLock = w, row[w])
      BY <1>23, <2>0 DEF ReleaseHost
    <2>2. CASE FreeHost(w) /\ Set(w, [p EXCEPT !.pc = "halt loop"])
      <3> DEFINE q == [p EXCEPT !.pc = "halt loop"]
      <3>1. q \in Process
        BY DEF Process, Stages, Startup, Closing, Over
      <3>2. ProcInv(q)
        BY <2>1 DEF Process, ProcInv, Startup, Closing, ModelStages, Withdrawn
      <3>3. /\ SharedTypes /\ Frame(w) /\ (HasHost(w)' <=> FALSE)
            /\ (pgLock' = w <=> pgLock = w) /\ row'[w] = row[w]
        BY <1>b, <1>23, <2>2, FreeHostFrame DEF ReleaseHost, GpuInv, TypeOK, SharedTypes, Frame
      <3>4. Locked(q, FALSE, pgLock = w, row[w])
        BY <2>1, <2>2 DEF Process, ProcInv, Startup, Closing, ModelStages, Withdrawn, Locked
      <3> HIDE DEF q
      <3>5. Locked(q, HasHost(w)', pgLock' = w, row'[w])
        BY <3>3, <3>4 DEF Locked
      <3>6. Set(w, q)
        BY <2>2 DEF q
      <3> QED BY <3>1, <3>2, <3>3, <3>5, <3>6, WorkerStep
    <2> QED BY <1>23, <2>0, <2>2 DEF ReleaseHost
  <1>24. ASSUME NEW w \in Workers, Crash(w) PROVE GpuInv'
    <2>0. SUFFICES ASSUME NEW p \in Process, p = proc[w], ProcInv(p),
                          Locked(p, HasHost(w), pgLock = w, row[w])
                   PROVE  GpuInv'
      BY <1>a
    <2>1. /\ p.pc \notin {"off"} \cup Over /\ ProcInv(p)
          /\ Locked(p, HasHost(w), pgLock = w, row[w])
      BY <1>24, <2>0 DEF Crash
    <2>2. CASE /\ Fault /\ FreeHost(w)
               /\ Set(w, [Fresh EXCEPT !.pc = "crashed", !.mayExist = p.mayExist,
                                    !.lost = p.lost, !.hurt = p.hurt])
      <3> DEFINE q == [Fresh EXCEPT !.pc = "crashed", !.mayExist = p.mayExist,
                                    !.lost = p.lost, !.hurt = p.hurt]
      <3>1. q \in Process
        BY ZenonT(60) DEF Fresh, Process, Stages, Startup, Closing, Over
      <3>2. ProcInv(q)
        BY ZenonT(60), <2>1
           DEF Fresh, Process, ProcInv, Startup, Closing, ModelStages, Withdrawn
      <3>3. /\ SharedTypes /\ Frame(w) /\ (HasHost(w)' <=> FALSE)
            /\ (pgLock' = w <=> pgLock = w) /\ row'[w] = row[w]
        BY <1>b, <1>24, <2>2, FreeHostFrame DEF Crash, GpuInv, TypeOK, SharedTypes, Frame
      <3>4. Locked(q, FALSE, pgLock = w, row[w])
        BY <2>1, <2>2 DEF Fresh, Process, ProcInv, Startup, Closing, ModelStages, Withdrawn,
           Locked
      <3> HIDE DEF q
      <3>5. Locked(q, HasHost(w)', pgLock' = w, row'[w])
        BY <3>3, <3>4 DEF Locked
      <3>6. Set(w, q)
        BY <2>2 DEF q
      <3> QED BY <3>1, <3>2, <3>3, <3>5, <3>6, WorkerStep
    <2> QED BY <1>24, <2>0, <2>2 DEF Crash
  <1>25. ASSUME NEW w \in Workers, SessionLost(w) PROVE GpuInv'
    <2>0. SUFFICES ASSUME NEW p \in Process, p = proc[w], ProcInv(p),
                          Locked(p, HasHost(w), pgLock = w, row[w])
                   PROVE  GpuInv'
      BY <1>a
    <2>1. pgLock = w /\ p.conn /\ ProcInv(p) /\ Locked(p, HasHost(w), pgLock = w, row[w])
      BY <1>25, <2>0 DEF SessionLost
    <2>2. CASE /\ Fault /\ pgLock' = Null
               /\ Set(w, [p EXCEPT !.lost = TRUE])
      <3> DEFINE q == [p EXCEPT !.lost = TRUE]
      <3>1. q \in Process
        BY DEF Process, Stages, Startup, Closing, Over
      <3>2. ProcInv(q)
        BY ZenonT(60), <2>1 DEF Process, ProcInv, Startup, Closing, ModelStages, Withdrawn
      <3>3. /\ SharedTypes /\ Frame(w) /\ (HasHost(w)' <=> HasHost(w))
            /\ (pgLock' = w <=> FALSE) /\ row'[w] = row[w]
        BY <1>b, <1>25, <2>2, WorkersAssumption DEF SessionLost, GpuInv, TypeOK, SharedTypes,
           Frame, HasHost
      <3>4. Locked(q, HasHost(w), FALSE, row[w])
        BY <2>1, <2>2 DEF Process, ProcInv, Startup, Closing, ModelStages, Withdrawn, Locked
      <3> HIDE DEF q
      <3>5. Locked(q, HasHost(w)', pgLock' = w, row'[w])
        BY <3>3, <3>4 DEF Locked
      <3>6. Set(w, q)
        BY <2>2 DEF q
      <3> QED BY <3>1, <3>2, <3>3, <3>5, <3>6, WorkerStep
    <2> QED BY <1>25, <2>0, <2>2 DEF SessionLost
  <1>26. ASSUME NEW w \in Workers, ServerNotices(w) PROVE GpuInv'
    <2>0. SUFFICES ASSUME NEW p \in Process, p = proc[w], ProcInv(p),
                          Locked(p, HasHost(w), pgLock = w, row[w])
                   PROVE  GpuInv'
      BY <1>a
    <2>1. pgLock = w /\ ~p.conn /\ ProcInv(p) /\ Locked(p, HasHost(w), pgLock = w, row[w])
      BY <1>26, <2>0 DEF ServerNotices
    <2>2. CASE pgLock' = Null /\ Set(w, p)
      <3> DEFINE q == p
      <3>1. q \in Process
        BY DEF Process, Stages, Startup, Closing, Over
      <3>2. ProcInv(q)
        BY <2>1 DEF Process, ProcInv, Startup, Closing, ModelStages, Withdrawn
      <3>3. /\ SharedTypes /\ Frame(w) /\ (HasHost(w)' <=> HasHost(w))
            /\ (pgLock' = w <=> FALSE) /\ row'[w] = row[w]
        BY <1>b, <1>26, <2>2, WorkersAssumption DEF ServerNotices, GpuInv, TypeOK,
           SharedTypes, Frame, HasHost
      <3>4. Locked(q, HasHost(w), FALSE, row[w])
        BY <2>1, <2>2 DEF Process, ProcInv, Startup, Closing, ModelStages, Withdrawn, Locked
      <3> HIDE DEF q
      <3>5. Locked(q, HasHost(w)', pgLock' = w, row'[w])
        BY <3>3, <3>4 DEF Locked
      <3>6. Set(w, q)
        BY <2>2 DEF q
      <3> QED BY <3>1, <3>2, <3>3, <3>5, <3>6, WorkerStep
    <2> QED BY <1>26, <2>0, <2>2 DEF ServerNotices, Set, GpuInv, TypeOK
  <1>27. ASSUME NEW w \in Workers, RowAges(w) PROVE GpuInv'
    <2>0. SUFFICES ASSUME NEW p \in Process, p = proc[w], ProcInv(p),
                          Locked(p, HasHost(w), pgLock = w, row[w])
                   PROVE  GpuInv'
      BY <1>a
    <2>1. row[w] = "fresh" /\ ProcInv(p) /\ Locked(p, HasHost(w), pgLock = w, row[w])
      BY <1>27, <2>0 DEF RowAges
    <2>2. CASE row' = [row EXCEPT ![w] = "stale"] /\ Set(w, p)
      <3> DEFINE q == p
      <3>1. q \in Process
        BY DEF Process, Stages, Startup, Closing, Over
      <3>2. ProcInv(q)
        BY <2>1 DEF Process, ProcInv, Startup, Closing, ModelStages, Withdrawn
      <3>3. /\ SharedTypes /\ Frame(w) /\ (HasHost(w)' <=> HasHost(w))
            /\ (pgLock' = w <=> pgLock = w) /\ row'[w] = "stale"
        BY <1>b, <1>27, <2>2 DEF RowAges, GpuInv, TypeOK, SharedTypes, Frame, HasHost
      <3>4. Locked(q, HasHost(w), pgLock = w, "stale")
        BY <2>1, <2>2 DEF Process, ProcInv, Startup, Closing, ModelStages, Withdrawn, Locked
      <3> HIDE DEF q
      <3>5. Locked(q, HasHost(w)', pgLock' = w, row'[w])
        BY <3>3, <3>4 DEF Locked
      <3>6. Set(w, q)
        BY <2>2 DEF q
      <3> QED BY <3>1, <3>2, <3>3, <3>5, <3>6, WorkerStep
    <2> QED BY <1>27, <2>0, <2>2 DEF RowAges, Set, GpuInv, TypeOK
  <1>28. ASSUME NEW w \in Workers, ClaimAnswered(w) PROVE GpuInv'
    <2>0. SUFFICES ASSUME NEW p \in Process, p = proc[w], ProcInv(p),
                          Locked(p, HasHost(w), pgLock = w, row[w])
                   PROVE  GpuInv'
      BY <1>a
    <2>1. p.claim = "claiming" /\ ProcInv(p) /\ Locked(p, HasHost(w), pgLock = w, row[w])
      BY <1>28, <2>0 DEF ClaimAnswered
    <2>2. PICK claim \in {"none", "executing"} : Set(w, [p EXCEPT !.claim = claim])
      BY <1>28, <2>0 DEF ClaimAnswered
    <2> DEFINE q == [p EXCEPT !.claim = claim]
    <2>3. q \in Process
      BY ZenonT(60) DEF Process, Stages, Startup, Closing, Over
    <2>4. ProcInv(q)
      BY ZenonT(60), <2>1 DEF Process, ProcInv, Startup, Closing, ModelStages, Withdrawn
    <2>5. Locked(q, HasHost(w), pgLock = w, row[w])
      BY <2>1 DEF Process, Locked
    <2> HIDE DEF q
    <2>6. Set(w, q)
      BY <2>2 DEF q
    <2> QED BY <1>b, <1>28, <2>3, <2>4, <2>5, <2>6, QuietStep DEF ClaimAnswered
  <1>29. ASSUME NEW w \in Workers, DrainMisses(w) PROVE GpuInv'
    <2>0. SUFFICES ASSUME NEW p \in Process, p = proc[w], ProcInv(p),
                          Locked(p, HasHost(w), pgLock = w, row[w])
                   PROVE  GpuInv'
      BY <1>a
    <2>1. /\ p.pc = "drain" /\ p.claim = "claiming" /\ ProcInv(p)
          /\ Locked(p, HasHost(w), pgLock = w, row[w])
      BY <1>29, <2>0 DEF DrainMisses
    <2> DEFINE q == [p EXCEPT !.claim = "executing", !.pc = "unload"]
    <2>2. q \in Process
      BY ZenonT(60) DEF Process, Stages, Startup, Closing, Over
    <2>3. ProcInv(q)
      BY ZenonT(60), <2>1 DEF Process, ProcInv, Startup, Closing, ModelStages, Withdrawn
    <2>4. Locked(q, HasHost(w), pgLock = w, row[w])
      BY <2>1 DEF Process, Locked
    <2> HIDE DEF q
    <2>5. Set(w, q)
      BY <1>29, <2>0 DEF DrainMisses, q
    <2> QED BY <1>b, <1>29, <2>2, <2>3, <2>4, <2>5, QuietStep DEF DrainMisses
  <1>30. ASSUME NEW w \in Workers, Halt(w) PROVE GpuInv'
    <2>0. SUFFICES ASSUME NEW p \in Process, p = proc[w], ProcInv(p),
                          Locked(p, HasHost(w), pgLock = w, row[w])
                   PROVE  GpuInv'
      BY <1>a
    <2>1. /\ p.pc = "halt loop" /\ p.claim = "none" /\ ProcInv(p)
          /\ Locked(p, HasHost(w), pgLock = w, row[w])
      BY <1>30, <2>0 DEF Halt
    <2> DEFINE q == [p EXCEPT !.pc = "ended"]
    <2>2. q \in Process
      BY DEF Process, Stages, Startup, Closing, Over
    <2>3. ProcInv(q)
      BY <2>1 DEF Process, ProcInv, Startup, Closing, ModelStages, Withdrawn
    <2>4. Locked(q, HasHost(w), pgLock = w, row[w])
      BY <2>1 DEF Process, Locked
    <2> HIDE DEF q
    <2>5. Set(w, q)
      BY <1>30, <2>0 DEF Halt, q
    <2> QED BY <1>b, <1>30, <2>2, <2>3, <2>4, <2>5, QuietStep DEF Halt
  <1>31. CASE UNCHANGED vars
    BY <1>31 DEF vars, GpuInv, TypeOK, LockInv, Locked, HasHost
  <1> QED BY <1>1, <1>2, <1>3, <1>4, <1>5, <1>6, <1>7, <1>8, <1>9, <1>10, <1>11, <1>12, <1>13,
             <1>14, <1>15, <1>16, <1>17, <1>18, <1>19, <1>20, <1>21, <1>22, <1>23, <1>24,
             <1>25, <1>26, <1>27, <1>28, <1>29, <1>30, <1>31
          DEF Next, LoopStep, BeatStep, ClaimStep, WarmStep

-----------------------------------------------------------------------------
(* The theorems. *)

\* The invariant holds in every reachable state, for every number of workers
\* and faults.
THEOREM GpuInvariant == Spec => []GpuInv
  BY InitInv, StepInv, PTL DEF Spec

\* Types are kept: a process is never in a state outside its lifecycle.
THEOREM TypeCorrect == Spec => []TypeOK
  <1>1. GpuInv => TypeOK
    BY DEF GpuInv
  <1> QED BY <1>1, GpuInvariant, PTL

\* The directory lock outlives the model, so it excludes a second model for
\* its directory even when the database session is lost.
THEOREM DirectoryExcludes == Spec => []OneModelPerDirectory
  <1>1. ASSUME GpuInv, NEW w \in Workers, proc[w].model PROVE HasHost(w)
    <2>1. Locked(proc[w], HasHost(w), pgLock = w, row[w])
      BY <1>1 DEF GpuInv, LockInv
    <2> QED BY <1>1, <2>1 DEF Locked
  <1>2. GpuInv => OneModelPerDirectory
    BY <1>1 DEF HasHost, OneModelPerDirectory
  <1> QED BY <1>2, GpuInvariant, PTL

\* The advisory lock excludes a second model in every other directory, as
\* long as neither of the two workers has lost the session it retained: to
\* the server, or to a probe of its own that failed.
THEOREM SessionExcludes == Spec => []TwoModelsOnlyAfterLoss
  <1>1. GpuInv => TwoModelsOnlyAfterLoss
    BY DEF GpuInv, ProcInv, LockInv, Locked, TwoModelsOnlyAfterLoss
  <1> QED BY <1>1, GpuInvariant, PTL

\* Rollback from any startup step and shutdown from any state of heartbeat,
\* signal and claim give everything back and leave no execution, although
\* model and locks may go before the one that the drain missed.
THEOREM ClosingIsComplete == Spec => []EndedLeavesNothing
  <1>1. ASSUME GpuInv, NEW w \in Workers, At(w, "ended")
        PROVE  /\ hostLock[directory[w]] # w
               /\ ~proc[w].model /\ ~proc[w].conn /\ ~proc[w].ready /\ proc[w].claim = "none"
               /\ ~proc[w].hurt => pgLock # w /\ row[w] = "none"
    <2>1. ProcInv(proc[w]) /\ Locked(proc[w], HasHost(w), pgLock = w, row[w])
      BY <1>1 DEF GpuInv, LockInv
    <2>2. /\ ~proc[w].model /\ ~proc[w].conn /\ ~proc[w].ready /\ proc[w].claim = "none"
          /\ proc[w].hurt \/ ~proc[w].mayExist
      BY <1>1, <2>1 DEF At, ProcInv, ModelStages, Withdrawn, Closing
    <2> QED BY <1>1, <2>1, <2>2 DEF At, Locked, HasHost
  <1>2. GpuInv => EndedLeavesNothing
    BY <1>1 DEF EndedLeavesNothing
  <1> QED BY <1>2, GpuInvariant, PTL

=============================================================================
