-------------------------- MODULE NativeWorkProofs --------------------------
(***************************************************************************)
(* Proofs about media, permits and the model of one worker, for every      *)
(* number of executions and permits.  RunInv ties the position of an       *)
(* execution to the thread, the directories and the ownership it has;      *)
(* permits are counted by their holders; and the executor's phase is tied  *)
(* to executions that can no longer start inference: all but the one that  *)
(* the drain of the claim manager may have missed.                         *)
(***************************************************************************)
EXTENDS NativeWork, FiniteSetTheorems, TLAPS

\* Before acquire() there is no ownership, and only inspection made media.
Early == {"idle", "metadata", "metadata late", "captions"}

\* Nothing of the hand-over has happened.
Untouched(r) ==
    ~r.retained /\ ~r.callerDone /\ ~r.nativeDone /\ ~r.released /\ ~r.finalizer /\ ~r.cleaned

\* A thread that nobody waits for any more has nothing to do with media.
Harmless(r) == r.thread = "running" => r.work \in {"captions", "validate"}

\* The thread an execution waits for is the one of its position.
ThreadFits(r) ==
    /\ r.pc \in {"metadata", "metadata late"} => r.work = "metadata"
    /\ r.pc \in {"captions", "validate", "native"} => r.work = r.pc
    /\ r.pc \in {"download", "download late"} => r.work = "download"
    /\ r.pc \in {"idle", "permit", "permitted"} => r.thread # "running"

RunInv(r) ==
    /\ ThreadFits(r)
    /\ r.pc # "ended" => Untouched(r)
    /\ r.pc \in Early => ~r.owned /\ r.media \subseteq {"prepared"}
    /\ r.pc \notin Early \cup {"ended"} => r.owned
    /\ r.pc = "ended" /\ ~r.finalizer => r.media = {} /\ Harmless(r)
    /\ r.finalizer => /\ r.pc = "ended" /\ r.work = "native" /\ r.owned /\ r.retained
                      /\ r.callerDone /\ ~r.nativeDone /\ ~r.released /\ ~r.cleaned

\* Who has a permit.  One may be lost (see PermitsReturned), none is made up.
Holder(r) == r.pc \in {"permitted", "native"} \/ r.finalizer
Holders == {e \in Executions : Holder(run[e])}

PermitsBound == permits + Cardinality(Holders) <= MaxPermits

\* shutdown() comes after the last execution the drain knows of, unloading
\* after the last finalizer.
PhaseInv ==
    /\ phase # "up" => \A e \in Executions \ missed : run[e].pc \in {"idle", "ended"}
    /\ phase = "unloaded" => \A e \in Executions \ missed : ~run[e].finalizer

NativeInv ==
    /\ TypeOK /\ PermitsBound /\ PhaseInv
    /\ \A e \in Executions : RunInv(run[e])

-----------------------------------------------------------------------------
(* The ends of an execution. *)

\* acquire() and execute() end: media is gone and cleanup is reported.
LEMMA LeaveAcquireEnds ==
    ASSUME NEW r \in Run, r.owned, Untouched(r), Harmless(r), NEW outcome \in Outcome
    PROVE  LET q == LeaveAcquire(r, outcome)
           IN  q \in Run /\ RunInv(q) /\ q.pc = "ended" /\ ~Holder(q)
  <1> DEFINE a == [r EXCEPT !.media = @ \ {"request"}]
             b == [a EXCEPT !.pc = "ended", !.outcome = outcome]
             c == [b EXCEPT !.callerDone = TRUE]
             q == [c EXCEPT !.released = TRUE, !.media = @ \ {"prepared"}, !.cleaned = TRUE]
  <1>1. a \in Run /\ a.owned /\ Untouched(a) /\ Harmless(a) /\ a.media \subseteq {"prepared"}
    BY DEF Run, Untouched, Harmless
  <1>2. /\ c \in Run /\ c.callerDone /\ ~c.released /\ ~c.retained /\ ~c.finalizer
        /\ c.pc = "ended"
        /\ Harmless(c) /\ c.media \subseteq {"prepared"}
    <2> HIDE DEF a
    <2> QED BY <1>1 DEF Run, Untouched, Harmless
  <1>3. LeaveAcquire(r, outcome) = ReleaseWhenFinished(c)
    BY <1>1 DEF LeaveAcquire, Leave, finish_caller
  <1> HIDE DEF c
  <1>4. ReleaseWhenFinished(c) = q
    BY <1>2 DEF ReleaseWhenFinished
  <1>5. q \in Run /\ RunInv(q) /\ q.pc = "ended" /\ ~Holder(q)
    BY <1>2 DEF Harmless, ThreadFits, Run, RunInv, Early, Holder
  <1> QED BY <1>3, <1>4, <1>5

\* execute() ends before acquire() began.
LEMMA LeaveEnds ==
    ASSUME NEW r \in Run, ~r.owned, Untouched(r), Harmless(r), r.media \subseteq {"prepared"},
           NEW outcome \in Outcome
    PROVE  LET q == Leave(r, outcome)
           IN  q \in Run /\ RunInv(q) /\ q.pc = "ended" /\ ~Holder(q)
  BY ZenonT(60) DEF Leave, Untouched, Harmless, ThreadFits, Run, RunInv, Early, Holder

\* execute() ends but inference goes on: everything passes to the finalizer.
LEMMA AbandonEnds ==
    ASSUME NEW r \in Run, r.pc = "native", RunInv(r), NEW outcome \in Outcome
    PROVE  LET q == Leave(Retain(r), outcome)
           IN  q \in Run /\ RunInv(q) /\ q.pc = "ended" /\ Holder(q)
  BY ZenonT(60)
     DEF Leave, Retain, finish_caller, ReleaseWhenFinished, Untouched, Harmless, ThreadFits,
         Run, RunInv, Early, Holder

\* The finalizer is the last: it removes what is left and reports cleanup.
LEMMA FinalizeEnds ==
    ASSUME NEW r \in Run, r.finalizer, RunInv(r), r.thread # "running"
    PROVE  LET q == complete_native_work([r EXCEPT !.media = @ \ {"request"},
                                                   !.finalizer = FALSE])
           IN  q \in Run /\ RunInv(q) /\ q.pc = "ended" /\ ~Holder(q)
  BY ZenonT(60)
     DEF complete_native_work, ReleaseWhenFinished, Untouched, Harmless, ThreadFits, Run,
         RunInv, Early, Holder

-----------------------------------------------------------------------------
(* Permits. *)

\* A finite set with or without one element.
LEMMA CountByOne ==
    ASSUME NEW S, IsFiniteSet(S), NEW x
    PROVE  /\ Cardinality(S) \in Nat
           /\ Cardinality(S \cup {x}) <= Cardinality(S) + 1
           /\ Cardinality(S \ {x}) <= Cardinality(S)
           /\ x \in S => Cardinality(S \ {x}) = Cardinality(S) - 1
  <1>1. Cardinality(S) \in Nat
    BY FS_CardinalityType
  <1>2. Cardinality(S \cup {x}) = IF x \in S THEN Cardinality(S) ELSE Cardinality(S) + 1
    BY FS_AddElement
  <1>3. Cardinality(S \ {x}) = IF x \in S THEN Cardinality(S) - 1 ELSE Cardinality(S)
    BY FS_RemoveElement
  <1> QED BY <1>1, <1>2, <1>3

\* How a step of one execution may use permits: it holds what it held or
\* less; it takes a free one; or it gives back the one it has.
PermitUse(r, q) ==
    \/ permits' = permits /\ (Holder(q) => Holder(r))
    \/ permits > 0 /\ permits' = permits - 1
    \/ permits' = permits + 1 /\ Holder(r) /\ ~Holder(q)

\* No such step makes up a permit.
LEMMA PermitsMove ==
    ASSUME NativeInv, NEW e \in Executions, NEW q, Set(e, q), PermitUse(run[e], q)
    PROVE  PermitsBound' /\ permits' \in 0 .. MaxPermits
  <1>1. Holders' = IF Holder(q) THEN Holders \cup {e} ELSE Holders \ {e}
    BY DEF NativeInv, TypeOK, Set, Holders, Holder
  <1>2. IsFiniteSet(Holders) /\ (e \in Holders <=> Holder(run[e]))
    BY ExecutionsAssumption, FS_Subset DEF Holders
  <1>3. IsFiniteSet(Holders')
    BY ExecutionsAssumption, FS_Subset DEF Holders
  <1>4. Cardinality(Holders') \in Nat
    BY <1>3, FS_CardinalityType
  <1> DEFINE n == Cardinality(Holders)  m == Cardinality(Holders')
  <1>5. /\ n \in Nat /\ m \in Nat
        /\ m <= n + 1
        /\ ~Holder(q) => m <= n
        /\ Holder(q) /\ Holder(run[e]) => m = n
        /\ ~Holder(q) /\ Holder(run[e]) => m = n - 1
    <2>1. Holder(q) /\ Holder(run[e]) => Holders' = Holders
      BY <1>1, <1>2
    <2>2. /\ n \in Nat
          /\ Cardinality(Holders \cup {e}) <= n + 1
          /\ Cardinality(Holders \ {e}) <= n
          /\ e \in Holders => Cardinality(Holders \ {e}) = n - 1
      BY <1>2, CountByOne
    <2>3. CASE Holder(q)
      BY <1>1, <1>2, <1>4, <2>1, <2>2, <2>3
    <2>4. CASE ~Holder(q)
      BY <1>1, <1>2, <1>4, <2>2, <2>4
    <2> QED BY <2>3, <2>4
  <1>6. permits \in 0 .. MaxPermits /\ permits + n <= MaxPermits
    BY DEF NativeInv, TypeOK, PermitsBound
  <1>7. MaxPermits \in Nat
    BY PermitsAssumption
  <1> HIDE DEF n, m
  <1>8. permits' + m <= MaxPermits /\ permits' \in 0 .. MaxPermits
    <2>1. CASE permits' = permits /\ (Holder(q) => Holder(run[e]))
      BY <2>1, <1>5, <1>6, <1>7
    <2>2. CASE permits > 0 /\ permits' = permits - 1
      BY <2>2, <1>5, <1>6, <1>7
    <2>3. CASE permits' = permits + 1 /\ Holder(run[e]) /\ ~Holder(q)
      BY <2>3, <1>5, <1>6, <1>7
    <2> QED BY <2>1, <2>2, <2>3 DEF PermitUse
  <1> QED BY <1>8 DEF PermitsBound, m

-----------------------------------------------------------------------------
(* The invariant is inductive. *)

\* One execution steps to q, and so does nobody else.
LEMMA RunStep ==
    ASSUME NativeInv, NEW e \in Executions, NEW q \in Run, RunInv(q), Set(e, q),
           PermitUse(run[e], q), UNCHANGED <<stop, phase, missed>>,
           run[e].pc = "idle" => phase = "up" \/ e \in missed,
           run[e].pc = "ended" => q.pc = "ended" /\ (q.finalizer => run[e].finalizer)
    PROVE  NativeInv'
  <1>1. PermitsBound' /\ permits' \in 0 .. MaxPermits
    BY PermitsMove
  <1>2. TypeOK'
    BY <1>1 DEF NativeInv, TypeOK, Set
  <1>3. PhaseInv'
    BY DEF NativeInv, TypeOK, PhaseInv, Set
  <1>4. \A x \in Executions : RunInv(run[x])'
    BY DEF NativeInv, TypeOK, Set
  <1> QED BY <1>1, <1>2, <1>3, <1>4 DEF NativeInv

\* Nothing has started.
LEMMA InitInv == Init => NativeInv
  <1> SUFFICES ASSUME Init PROVE NativeInv
    OBVIOUS
  <1>1. \A e \in Executions : run[e] = Fresh
    BY DEF Init
  <1>2. Fresh \in Run /\ RunInv(Fresh) /\ ~Holder(Fresh)
    BY DEF Fresh, Run, Outcome, RunInv, ThreadFits, Untouched, Early, Harmless, Holder
  <1>3. TypeOK
    BY <1>2, PermitsAssumption DEF Init, TypeOK
  <1>4. PermitsBound
    <2>1. Holders = {}
      BY <1>1, <1>2 DEF Holders
    <2> QED BY <2>1, FS_EmptySet, PermitsAssumption DEF Init, PermitsBound
  <1> QED BY <1>1, <1>2, <1>3, <1>4 DEF NativeInv, PhaseInv, Init

\* An execution that has not ended ends, and held no permit or loses it.
LEMMA EndStep ==
    ASSUME NativeInv, NEW e \in Executions, run[e].pc \notin {"idle", "ended"},
           NEW r \in Run, Untouched(r), Harmless(r), NEW outcome \in Outcome,
           UNCHANGED <<stop, phase, missed>>,
           permits' = permits \/ (permits' = permits + 1 /\ Holder(run[e])),
           \/ r.owned /\ Set(e, LeaveAcquire(r, outcome))
           \/ ~r.owned /\ r.media \subseteq {"prepared"} /\ Set(e, Leave(r, outcome))
    PROVE  NativeInv'
  <1>1. PICK q \in Run : RunInv(q) /\ q.pc = "ended" /\ ~Holder(q) /\ Set(e, q)
    BY LeaveAcquireEnds, LeaveEnds
  <1>2. PermitUse(run[e], q)
    BY <1>1 DEF PermitUse
  <1> QED BY <1>1, <1>2, RunStep

\* An execution goes on to another position without touching permits.
LEMMA MoveStep ==
    ASSUME NativeInv, NEW e \in Executions, NEW q \in Run, RunInv(q), ~Holder(q), Set(e, q),
           UNCHANGED <<stop, permits, phase, missed>>, run[e].pc # "ended",
           run[e].pc = "idle" => phase = "up" \/ e \in missed
    PROVE  NativeInv'
  <1>1. PermitUse(run[e], q)
    BY DEF PermitUse
  <1> QED BY <1>1, RunStep

\* acquire() begins.
LEMMA AcquireStep ==
    ASSUME NativeInv, NEW e \in Executions, run[e].pc \in {"metadata", "captions"},
           run[e].thread # "running", Acquire(e, run[e]), UNCHANGED <<stop, permits, phase, missed>>
    PROVE  NativeInv'
  <1> DEFINE r == run[e]
             o == [r EXCEPT !.owned = TRUE]
             a == Spawn(o, "validate", "validate")
             d == Spawn([o EXCEPT !.media = @ \cup {"request"}], "download", "download")
  <1>1. r \in Run /\ RunInv(r)
    BY DEF NativeInv, TypeOK
  <1>2. o \in Run /\ o.owned /\ Untouched(o) /\ Harmless(o)
    BY <1>1 DEF Run, RunInv, Untouched, Harmless
  <1>3. a \in Run /\ RunInv(a) /\ ~Holder(a)
    BY <1>1 DEF Run, RunInv, ThreadFits, Untouched, Harmless, Early, Holder, Spawn
  <1>4. d \in Run /\ RunInv(d) /\ ~Holder(d)
    <2> DEFINE m == [o EXCEPT !.media = @ \cup {"request"}]
    <2>1. m \in Run /\ m.owned /\ Untouched(m)
      BY <1>2 DEF Run, Untouched
    <2> HIDE DEF m
    <2>2. Spawn(m, "download", "download") \in Run /\ RunInv(Spawn(m, "download", "download"))
          /\ ~Holder(Spawn(m, "download", "download"))
      BY <2>1 DEF Run, RunInv, ThreadFits, Untouched, Harmless, Early, Holder, Spawn
    <2> QED BY <2>2 DEF m
  <1>5. Failure(e) \in Outcome
    BY DEF Failure, Outcome
  <1>6. Set(e, a) \/ Set(e, d) \/ Set(e, LeaveAcquire(o, Failure(e)))
    BY DEF Acquire
  <1> HIDE DEF a, d, o
  <1>7. CASE Set(e, a)
    BY <1>3, <1>7, MoveStep
  <1>8. CASE Set(e, d)
    BY <1>4, <1>8, MoveStep
  <1>9. CASE Set(e, LeaveAcquire(o, Failure(e)))
    BY <1>2, <1>5, <1>9, EndStep
  <1> QED BY <1>6, <1>7, <1>8, <1>9

\* Every step preserves the invariant.
LEMMA StepInv == NativeInv /\ [Next]_vars => NativeInv'
  <1> SUFFICES ASSUME NativeInv, [Next]_vars PROVE NativeInv'
    OBVIOUS
  <1>a. \A e \in Executions : run[e] \in Run /\ RunInv(run[e])
    BY DEF NativeInv, TypeOK
  <1>b. \A e \in Executions : Failure(e) \in Outcome
    BY DEF Failure, Outcome
  <1>c. {"returned", "failed", "cancelled", "aborted"} \subseteq Outcome
    BY DEF Outcome
  <1> USE DEF At, Answered
  <1>1. ASSUME NEW e \in Executions, Execute(e) PROVE NativeInv'
    <2> DEFINE q == Spawn(run[e], "metadata", "metadata")
    <2>1. q \in Run /\ RunInv(q) /\ ~Holder(q)
      BY ZenonT(60), <1>a, <1>1
         DEF Execute, Spawn, Run, RunInv, ThreadFits, Untouched, Early, Harmless, Holder
    <2> HIDE DEF q
    <2>2. Set(e, q)
      BY <1>1 DEF Execute, q
    <2> QED BY <1>1, <2>1, <2>2, MoveStep DEF Execute
  <1>2. ASSUME NEW e \in Executions, ThreadEnds(e) PROVE NativeInv'
    <2> DEFINE r == run[e]
    <2>1. PICK q \in Run : /\ Set(e, q) /\ RunInv(q) /\ q.pc = r.pc /\ q.finalizer = r.finalizer
      <3>1. CASE Set(e, [r EXCEPT !.thread = "failed"])
        <4> DEFINE q == [r EXCEPT !.thread = "failed"]
        <4>1. q \in Run /\ RunInv(q) /\ q.pc = r.pc /\ q.finalizer = r.finalizer
          BY ZenonT(60), <1>a DEF Run, RunInv, ThreadFits, Untouched, Early, Harmless
        <4> QED BY <3>1, <4>1
      <3>2. ASSUME NEW prepared \in IF r.work = "metadata" THEN {{}, {"prepared"}} ELSE {{}},
                   Set(e, [r EXCEPT !.thread = "ok", !.media = @ \cup prepared])
            PROVE  \E q \in Run : /\ Set(e, q) /\ RunInv(q) /\ q.pc = r.pc
                                  /\ q.finalizer = r.finalizer
        <4> DEFINE q == [r EXCEPT !.thread = "ok", !.media = @ \cup prepared]
        <4>1. q \in Run /\ q.pc = r.pc /\ q.finalizer = r.finalizer
          BY ZenonT(60), <1>a, <3>2 DEF Run
        <4>2. prepared \subseteq {"prepared"} /\ (r.work # "metadata" => prepared = {})
          BY <3>2
        <4>3. RunInv(q)
          BY ZenonT(60), <1>a, <1>2, <4>2
             DEF ThreadEnds, Run, RunInv, ThreadFits, Untouched, Early, Harmless
        <4> QED BY <3>2, <4>1, <4>3
      <3> QED BY <1>2, <3>1, <3>2 DEF ThreadEnds
    <2>2. PermitUse(r, q)
      BY <1>2, <2>1 DEF ThreadEnds, PermitUse, Holder
    <2>3. r.pc # "idle"
      BY <1>2, <1>a DEF ThreadEnds, RunInv, ThreadFits
    <2> QED BY <1>2, <2>1, <2>2, <2>3, RunStep DEF ThreadEnds
  <1>3. ASSUME NEW e \in Executions, PermitAcquired(e) PROVE NativeInv'
    <2> DEFINE q == [run[e] EXCEPT !.pc = "permitted"]
    <2>1. q \in Run /\ RunInv(q)
      BY ZenonT(60), <1>a, <1>3
         DEF PermitAcquired, Run, RunInv, ThreadFits, Untouched, Early, Harmless
    <2> HIDE DEF q
    <2>2. Set(e, q) /\ PermitUse(run[e], q)
      BY <1>3 DEF PermitAcquired, q, PermitUse
    <2> QED BY <1>3, <2>1, <2>2, RunStep DEF PermitAcquired
  <1>4. ASSUME NEW e \in Executions, MetadataReturns(e) PROVE NativeInv'
    <2>1. /\ ~run[e].owned /\ Untouched(run[e]) /\ Harmless(run[e])
          /\ run[e].media \subseteq {"prepared"}
      BY <1>a, <1>4 DEF MetadataReturns, RunInv, Early, Harmless
    <2>2. CASE Set(e, Leave(run[e], "failed")) \/ Set(e, Leave(run[e], "cancelled"))
      BY <1>a, <1>c, <1>4, <2>1, <2>2, EndStep DEF MetadataReturns
    <2>3. CASE Set(e, Spawn(run[e], "captions", "captions"))
      <3> DEFINE q == Spawn(run[e], "captions", "captions")
      <3>1. q \in Run /\ RunInv(q) /\ ~Holder(q)
        <4>1. q \in Run /\ ~q.owned /\ Untouched(q) /\ q.media \subseteq {"prepared"}
              /\ q.pc = "captions" /\ q.work = "captions"
          BY ZenonT(60), <1>a, <2>1 DEF Spawn, Run, Untouched
        <4> QED BY <4>1 DEF RunInv, ThreadFits, Untouched, Early, Holder
      <3> HIDE DEF q
      <3>2. Set(e, q)
        BY <2>3 DEF q
      <3> QED BY <1>4, <3>1, <3>2, MoveStep DEF MetadataReturns
    <2>4. CASE Acquire(e, run[e])
      BY <1>4, <2>4, AcquireStep DEF MetadataReturns
    <2> QED BY <1>4, <2>2, <2>3, <2>4 DEF MetadataReturns
  <1>5. ASSUME NEW e \in Executions, NEW outcome \in {"failed", "aborted"},
               MetadataInterrupted(e, outcome)
        PROVE  NativeInv'
    <2> DEFINE q == [run[e] EXCEPT !.pc = "metadata late", !.outcome = outcome]
    <2>1. q \in Run /\ RunInv(q) /\ ~Holder(q)
      BY ZenonT(60), <1>a, <1>5
         DEF MetadataInterrupted, Run, Outcome, RunInv, ThreadFits, Untouched, Early,
             Harmless, Holder
    <2> HIDE DEF q
    <2>2. Set(e, q)
      BY <1>5 DEF MetadataInterrupted, q
    <2> QED BY <1>5, <2>1, <2>2, MoveStep DEF MetadataInterrupted
  <1>6. ASSUME NEW e \in Executions, MetadataFinishesLate(e) PROVE NativeInv'
    <2> DEFINE r == [run[e] EXCEPT !.media = @ \ {"prepared"}]
    <2>1. r \in Run /\ ~r.owned /\ Untouched(r) /\ Harmless(r) /\ r.media \subseteq {"prepared"}
      BY ZenonT(60), <1>a, <1>6
         DEF MetadataFinishesLate, Run, RunInv, Untouched, Early, Harmless
    <2>2. run[e].outcome \in Outcome
      BY <1>a DEF Run
    <2> HIDE DEF r
    <2>3. Set(e, Leave(r, run[e].outcome))
      BY <1>6 DEF MetadataFinishesLate, r
    <2> QED BY <1>6, <2>1, <2>2, <2>3, EndStep DEF MetadataFinishesLate
  <1>7. ASSUME NEW e \in Executions, CaptionsReturn(e) PROVE NativeInv'
    <2>1. /\ ~run[e].owned /\ Untouched(run[e]) /\ Harmless(run[e])
          /\ run[e].media \subseteq {"prepared"}
      BY <1>a, <1>7 DEF CaptionsReturn, RunInv, Early, Harmless
    <2>2. CASE Set(e, Leave(run[e], "returned")) \/ Set(e, Leave(run[e], "cancelled"))
      BY <1>a, <1>c, <1>7, <2>1, <2>2, EndStep DEF CaptionsReturn
    <2>3. CASE Acquire(e, run[e])
      BY <1>7, <2>3, AcquireStep DEF CaptionsReturn
    <2> QED BY <1>7, <2>2, <2>3 DEF CaptionsReturn
  <1>8. ASSUME NEW e \in Executions, AudioReturns(e) PROVE NativeInv'
    <2>1. run[e].owned /\ Untouched(run[e]) /\ Harmless(run[e])
      BY <1>a, <1>8 DEF AudioReturns, RunInv, Early, Harmless
    <2>2. ASSUME NEW outcome \in Outcome, Set(e, LeaveAcquire(run[e], outcome)) PROVE NativeInv'
      BY <1>a, <1>8, <2>1, <2>2, EndStep DEF AudioReturns
    <2>3. CASE Set(e, [run[e] EXCEPT !.pc = "permit"])
      <3> DEFINE q == [run[e] EXCEPT !.pc = "permit"]
      <3>1. q \in Run /\ RunInv(q) /\ ~Holder(q)
        BY ZenonT(60), <1>a, <1>8, <2>1
           DEF AudioReturns, Run, RunInv, ThreadFits, Untouched, Early, Harmless, Holder
      <3> HIDE DEF q
      <3>2. Set(e, q)
        BY <2>3 DEF q
      <3> QED BY <1>8, <3>1, <3>2, MoveStep DEF AudioReturns
    <2> QED BY <1>b, <1>c, <1>8, <2>2, <2>3 DEF AudioReturns
  <1>9. ASSUME NEW e \in Executions, NEW outcome \in {"failed", "aborted"},
               DownloadInterrupted(e, outcome)
        PROVE  NativeInv'
    <2> DEFINE q == [run[e] EXCEPT !.pc = "download late", !.outcome = outcome]
    <2>1. q \in Run /\ RunInv(q) /\ ~Holder(q)
      BY ZenonT(60), <1>a, <1>9
         DEF DownloadInterrupted, Run, Outcome, RunInv, ThreadFits, Untouched, Early,
             Harmless, Holder
    <2> HIDE DEF q
    <2>2. Set(e, q)
      BY <1>9 DEF DownloadInterrupted, q
    <2> QED BY <1>9, <2>1, <2>2, MoveStep DEF DownloadInterrupted
  <1>10. ASSUME NEW e \in Executions, DownloadFinishesLate(e) PROVE NativeInv'
    <2>1. run[e].owned /\ Untouched(run[e]) /\ Harmless(run[e])
      BY <1>a, <1>10 DEF DownloadFinishesLate, RunInv, Early, Harmless
    <2>2. PICK outcome \in Outcome : Set(e, LeaveAcquire(run[e], outcome))
      BY <1>b, <1>c, <1>10 DEF DownloadFinishesLate
    <2> QED BY <1>a, <1>10, <2>1, <2>2, EndStep DEF DownloadFinishesLate
  <1>11. ASSUME NEW e \in Executions, CancellationWins(e) PROVE NativeInv'
    <2>1. run[e].owned /\ Untouched(run[e]) /\ Harmless(run[e])
      BY <1>a, <1>11 DEF CancellationWins, RunInv, ThreadFits, Early, Harmless
    <2> QED BY <1>a, <1>c, <1>11, <2>1, EndStep DEF CancellationWins
  <1>12. ASSUME NEW e \in Executions, StartNative(e) PROVE NativeInv'
    <2>1. run[e].owned /\ Untouched(run[e]) /\ Harmless(run[e])
      BY <1>a, <1>12 DEF StartNative, RunInv, ThreadFits, Early, Harmless
    <2>2. CASE Set(e, LeaveAcquire(run[e], "cancelled"))
      BY <1>a, <1>c, <1>12, <2>1, <2>2, EndStep DEF StartNative
    <2>3. CASE Set(e, Spawn(run[e], "native", "native"))
      <3> DEFINE q == Spawn(run[e], "native", "native")
      <3>1. q \in Run /\ RunInv(q)
        BY ZenonT(60), <1>a, <2>1
           DEF Spawn, Run, RunInv, ThreadFits, Untouched, Early, Harmless
      <3> HIDE DEF q
      <3>2. Set(e, q)
        BY <2>3 DEF q
      <3>3. PermitUse(run[e], q)
        BY <1>12 DEF StartNative, PermitUse, Holder
      <3> QED BY <1>12, <3>1, <3>2, <3>3, RunStep DEF StartNative
    <2> QED BY <1>12, <2>2, <2>3 DEF StartNative
  <1>13. ASSUME NEW e \in Executions, NativeReturns(e) PROVE NativeInv'
    <2>1. run[e].owned /\ Untouched(run[e]) /\ Harmless(run[e]) /\ Holder(run[e])
      BY <1>a, <1>13 DEF NativeReturns, RunInv, Early, Harmless, Holder
    <2>2. PICK outcome \in Outcome : Set(e, LeaveAcquire(run[e], outcome))
      BY <1>c, <1>13 DEF NativeReturns
    <2> QED BY <1>a, <1>13, <2>1, <2>2, EndStep DEF NativeReturns
  <1>14. ASSUME NEW e \in Executions, NEW outcome \in {"failed", "aborted"},
                NativeAbandoned(e, outcome)
         PROVE  NativeInv'
    <2> DEFINE q == Leave(Retain(run[e]), outcome)
    <2>1. q \in Run /\ RunInv(q) /\ q.pc = "ended" /\ Holder(q)
      BY <1>a, <1>c, <1>14, AbandonEnds DEF NativeAbandoned
    <2> HIDE DEF q
    <2>2. Set(e, q) /\ PermitUse(run[e], q)
      BY <1>14 DEF NativeAbandoned, q, PermitUse, Holder
    <2> QED BY <1>14, <2>1, <2>2, RunStep DEF NativeAbandoned
  <1>15. ASSUME NEW e \in Executions, Finalize(e) PROVE NativeInv'
    <2> DEFINE q == complete_native_work([run[e] EXCEPT !.media = @ \ {"request"},
                                                        !.finalizer = FALSE])
    <2>1. q \in Run /\ RunInv(q) /\ q.pc = "ended" /\ ~Holder(q)
      BY <1>a, <1>15, FinalizeEnds DEF Finalize
    <2> HIDE DEF q
    <2>2. Set(e, q) /\ PermitUse(run[e], q)
      BY <1>15, <2>1 DEF Finalize, q, PermitUse, Holder
    <2>3. run[e].pc = "ended" /\ run[e].finalizer
      BY <1>a, <1>15 DEF Finalize, RunInv
    <2> QED BY <1>15, <2>1, <2>2, <2>3, RunStep DEF Finalize
  <1>16. ASSUME NEW e \in Executions, CallerCancelled(e) PROVE NativeInv'
    <2>1. CASE At(e, "captions") /\ Set(e, Leave(run[e], "aborted"))
      <3>1. /\ ~run[e].owned /\ Untouched(run[e]) /\ Harmless(run[e])
            /\ run[e].media \subseteq {"prepared"}
        BY <1>a, <2>1 DEF RunInv, ThreadFits, Early, Harmless
      <3> QED BY <1>a, <1>c, <1>16, <2>1, <3>1, EndStep DEF CallerCancelled
    <2>2. CASE (At(e, "validate") \/ At(e, "permit")) /\ Set(e, LeaveAcquire(run[e], "aborted"))
      <3>1. run[e].owned /\ Untouched(run[e]) /\ Harmless(run[e])
        BY <1>a, <2>2 DEF RunInv, ThreadFits, Early, Harmless
      <3> QED BY <1>a, <1>c, <1>16, <2>2, <3>1, EndStep DEF CallerCancelled
    <2> QED BY <1>16, <2>1, <2>2 DEF CallerCancelled
  <1>17. ASSUME NEW e \in Executions, request_cancellation(e) PROVE NativeInv'
    <2>1. stop' \in [Executions -> BOOLEAN]
      BY <1>17 DEF request_cancellation, NativeInv, TypeOK
    <2>2. UNCHANGED <<run, permits, phase, missed>>
      BY <1>17 DEF request_cancellation
    <2> QED BY <2>1, <2>2 DEF NativeInv, TypeOK, PermitsBound, PhaseInv, Holders
  <1>18. CASE shutdown
    BY <1>18 DEF shutdown, NativeInv, TypeOK, PermitsBound, PhaseInv, Holders
  <1>19. CASE Unload
    BY <1>19 DEF Unload, NativeInv, TypeOK, PermitsBound, PhaseInv, Holders
  <1>20. CASE UNCHANGED vars
    BY <1>20 DEF vars, NativeInv, TypeOK, PermitsBound, PhaseInv, Holders
  <1> QED BY <1>1, <1>2, <1>3, <1>4, <1>5, <1>6, <1>7, <1>8, <1>9, <1>10, <1>11, <1>12, <1>13,
             <1>14, <1>15, <1>16, <1>17, <1>18, <1>19, <1>20 DEF Next, Proceed, Interrupt

-----------------------------------------------------------------------------
(* The theorems. *)

\* The invariant holds in every reachable state, whatever the number of
\* executions, permits and interruptions.
THEOREM NativeInvariant == Spec => []NativeInv
  BY InitInv, StepInv, PTL DEF Spec

\* Types are kept, so a permit is never released twice: the semaphore never
\* has more free permits than it was made with.
THEOREM TypeCorrect == Spec => []TypeOK
  <1>1. NativeInv => TypeOK
    BY DEF NativeInv
  <1> QED BY <1>1, NativeInvariant, PTL

\* When cleanup_complete is set, whichever of caller and finalizer set it,
\* nothing is left on disk and no thread still reads the content of a file
\* or writes one.
THEOREM CleanedIsReleased == Spec => []CleanupMeansReleased
  <1>1. NativeInv => CleanupMeansReleased
    BY DEF NativeInv, TypeOK, RunInv, Untouched, Harmless, CleanupMeansReleased, Run
  <1> QED BY <1>1, NativeInvariant, PTL

\* Native inference that is running has a permit.
LEMMA NativeHolds ==
    ASSUME NativeInv, NEW e \in Executions, run[e].work = "native", run[e].thread = "running"
    PROVE  Holder(run[e])
  BY DEF NativeInv, TypeOK, RunInv, ThreadFits, Harmless, Holder, Run

\* Abandoned inferences included, no more run than the model has workers.
THEOREM InferenceWithinPermits == Spec => []NativeWithinPermits
  <1>1. ASSUME NativeInv PROVE NativeWithinPermits
    <2> DEFINE N == {e \in Executions : run[e].work = "native" /\ run[e].thread = "running"}
    <2>1. N \subseteq Holders
      BY <1>1, NativeHolds DEF Holders
    <2>2. IsFiniteSet(Holders)
      BY ExecutionsAssumption, FS_Subset DEF Holders
    <2> HIDE DEF N
    <2>3. Cardinality(N) <= Cardinality(Holders) /\ IsFiniteSet(N)
      BY <2>1, <2>2, FS_Subset
    <2>4. Cardinality(N) \in Nat /\ Cardinality(Holders) \in Nat
      BY <2>2, <2>3, FS_CardinalityType
    <2>5. permits \in Nat /\ permits + Cardinality(Holders) <= MaxPermits /\ MaxPermits \in Nat
      BY <1>1, PermitsAssumption DEF NativeInv, TypeOK, PermitsBound
    <2> QED BY <2>3, <2>4, <2>5 DEF NativeWithinPermits, N
  <1> QED BY <1>1, NativeInvariant, PTL

\* The model is not unloaded while an inference uses it, abandoned or not,
\* of an execution the drain knew of.
THEOREM UnloadWaits == Spec => []UnloadedWhenIdle
  <1>1. NativeInv => UnloadedWhenIdle
    BY NativeHolds DEF NativeInv, PhaseInv, Holder, UnloadedWhenIdle
  <1> QED BY <1>1, NativeInvariant, PTL

=============================================================================
