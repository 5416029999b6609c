-------------------------- MODULE WorkerLoopProofs --------------------------
(***************************************************************************)
(* Proofs about the shutdown of a worker process, for every number of pool *)
(* threads.  A coroutine, on the loop or on its way to it, always has a    *)
(* pool thread that waits for it; so when Celery has joined its pool there *)
(* is none, and before that nothing can stop the loop or its resources.    *)
(***************************************************************************)
EXTENDS WorkerLoop, TLAPS

Items == 1 .. Len(queue)

\* Before the resources are up nothing has been posted.
StartInv ==
    main = "starting" =>
        pool = "held" /\ queue = <<>> /\ loop \in {"none", "running"} /\ resources = "none"

\* While Celery runs, nothing that would end the loop is even on its way.
ServeInv ==
    main \in {"serving", "stopping"} =>
        /\ pool = "held" /\ loop = "running" /\ resources = "up"
        /\ \A i \in Items : queue[i] \notin {"shut down", "stop loop"}

\* Outside that time pool threads are idle unless Celery left them behind.
IdleInv ==
    pool # "left" /\ main \notin {"serving", "stopping"} => \A t \in Threads : thread[t] = "idle"

\* A thread waits for its coroutine, which is in one place only.
TaskInv ==
    \A t \in Threads : task[t] # "none" =>
        thread[t] = "waiting" /\ \A i \in Items : queue[i] # t

QueueInv ==
    \A i \in Items : queue[i] \in Threads =>
        thread[queue[i]] = "waiting" /\ \A j \in Items : queue[j] = queue[i] => j = i

LoopInv == TypeOK /\ StartInv /\ ServeInv /\ IdleInv /\ TaskInv /\ QueueInv

-----------------------------------------------------------------------------
(* The queue. *)

\* The empty queue has no items.
LEMMA NoItems == queue = <<>> => Items = {}
  BY DEF Items

\* What Append does to the items of a sequence.
LEMMA AppendItems ==
    ASSUME NEW S, NEW s \in Seq(S), NEW x \in S
    PROVE  /\ Append(s, x) \in Seq(S) /\ Len(s) \in Nat /\ Len(Append(s, x)) = Len(s) + 1
           /\ \A i \in 1 .. Len(s) : Append(s, x)[i] = s[i]
           /\ Append(s, x)[Len(s) + 1] = x
  OBVIOUS

\* What Tail does to them.
LEMMA TailItems ==
    ASSUME NEW S, NEW s \in Seq(S), s # <<>>
    PROVE  /\ Head(s) = s[1] /\ Head(s) \in S /\ Len(s) \in Nat \ {0}
           /\ Tail(s) \in Seq(S) /\ Len(Tail(s)) = Len(s) - 1
           /\ \A i \in 1 .. Len(Tail(s)) : Tail(s)[i] = s[i + 1]
  OBVIOUS

\* The queue after Post: the old items and the new one.
LEMMA PostItems ==
    ASSUME TypeOK, NEW x \in Threads \cup Signals, Post(x)
    PROVE  /\ queue' \in Seq(Threads \cup Signals)
           /\ Items' = Items \cup {Len(queue) + 1} /\ Len(queue) + 1 \notin Items
           /\ \A i \in Items : queue'[i] = queue[i]
           /\ queue'[Len(queue) + 1] = x
  <1>1. queue \in Seq(Threads \cup Signals) /\ queue' = Append(queue, x)
    BY DEF TypeOK, Post
  <1> QED BY <1>1, AppendItems DEF Items

\* The runtime posts a callback of its own: coroutines stay where they are.
LEMMA PostSignal ==
    ASSUME LoopInv, NEW x \in Signals, Post(x), UNCHANGED <<thread, task>>
    PROVE  TaskInv' /\ QueueInv'
  <1>1. x \notin Threads
    BY ThreadsAssumption
  <1>2. /\ Items' = Items \cup {Len(queue) + 1}
        /\ \A i \in Items : queue'[i] = queue[i]
        /\ queue'[Len(queue) + 1] = x
    BY PostItems DEF LoopInv
  <1>3. TaskInv'
    BY <1>1, <1>2 DEF LoopInv, TaskInv
  <1>4. QueueInv'
    BY <1>1, <1>2 DEF LoopInv, QueueInv
  <1> QED BY <1>3, <1>4

-----------------------------------------------------------------------------
(* The invariant is inductive. *)

\* Nothing has started.
LEMMA InitInv == Init => LoopInv
  <1> SUFFICES ASSUME Init PROVE LoopInv
    OBVIOUS
  <1>1. TypeOK
    <2>1. started \in BOOLEAN /\ ready \in BOOLEAN /\ accepting \in BOOLEAN
      BY Zenon DEF Init
    <2>2. queue \in Seq(Threads \cup Signals) /\ gathered \subseteq Threads
      BY DEF Init
    <2>3. /\ thread \in [Threads -> {"idle", "entered", "submitting", "waiting"}]
          /\ task \in [Threads -> {"none", "claiming", "pending", "executing"}]
      BY DEF Init
    <2> QED BY <2>1, <2>2, <2>3 DEF Init, TypeOK
  <1>2. Items = {}
    BY NoItems DEF Init
  <1>3. StartInv /\ ServeInv /\ IdleInv
    BY DEF Init, StartInv, ServeInv, IdleInv
  <1>4. TaskInv /\ QueueInv
    BY <1>2 DEF Init, TaskInv, QueueInv
  <1> QED BY <1>1, <1>3, <1>4 DEF LoopInv

\* Every step preserves the invariant.
LEMMA StepInv == LoopInv /\ [Next]_vars => LoopInv'
  <1> SUFFICES ASSUME LoopInv, [Next]_vars PROVE LoopInv'
    OBVIOUS
  <1> USE DEF LoopInv
  <1>1. CASE StartLoop
    <2>1. TypeOK'
      BY <1>1 DEF StartLoop, TypeOK
    <2>2. StartInv' /\ ServeInv' /\ IdleInv'
      BY <1>1 DEF StartLoop, TypeOK, StartInv, ServeInv, IdleInv, Items
    <2>3. TaskInv' /\ QueueInv'
      BY <1>1 DEF StartLoop, TypeOK, TaskInv, QueueInv, Items
    <2> QED BY <2>1, <2>2, <2>3
  <1>2. CASE ResourcesStarted
    <2>1. TypeOK'
      BY <1>2 DEF ResourcesStarted, TypeOK
    <2>2. StartInv' /\ ServeInv' /\ IdleInv'
      <3>1. Items' = {} /\ loop = "running" /\ pool = "held"
        BY <1>2, NoItems DEF ResourcesStarted, StartInv, Items
      <3> QED BY <1>2, <3>1 DEF ResourcesStarted, StartInv, ServeInv, IdleInv
    <2>3. TaskInv' /\ QueueInv'
      BY <1>2 DEF ResourcesStarted, TypeOK, TaskInv, QueueInv, Items
    <2> QED BY <2>1, <2>2, <2>3
  <1>3. CASE StartFails
    <2>1. Post("stop loop") /\ "stop loop" \in Signals /\ UNCHANGED <<thread, task>>
      BY <1>3 DEF StartFails, Signals
    <2>2. /\ queue' \in Seq(Threads \cup Signals)
          /\ Items' = Items \cup {Len(queue) + 1}
          /\ \A i \in Items : queue'[i] = queue[i]
          /\ queue'[Len(queue) + 1] = "stop loop"
      BY <2>1, PostItems
    <2>3. TypeOK'
      BY <1>3, <2>2 DEF StartFails, TypeOK
    <2>4. StartInv' /\ ServeInv' /\ IdleInv'
      BY <1>3, <2>2 DEF StartFails, TypeOK, StartInv, ServeInv, IdleInv
    <2>5. TaskInv' /\ QueueInv'
      BY <2>1, PostSignal
    <2> QED BY <2>3, <2>4, <2>5
  <1>4. CASE stop_claiming
    <2>1. Post("stop claiming") /\ "stop claiming" \in Signals /\ UNCHANGED <<thread, task>>
      BY <1>4 DEF stop_claiming, Signals
    <2>2. /\ queue' \in Seq(Threads \cup Signals)
          /\ Items' = Items \cup {Len(queue) + 1}
          /\ \A i \in Items : queue'[i] = queue[i]
          /\ queue'[Len(queue) + 1] = "stop claiming"
      BY <2>1, PostItems
    <2>3. TypeOK'
      BY <1>4, <2>2 DEF stop_claiming, TypeOK
    <2>4. StartInv' /\ ServeInv' /\ IdleInv'
      BY <1>4, <2>2 DEF stop_claiming, TypeOK, StartInv, ServeInv, IdleInv
    <2>5. TaskInv' /\ QueueInv'
      BY <2>1, PostSignal
    <2> QED BY <2>3, <2>4, <2>5
  <1>5. ASSUME NEW how \in {"joined", "left"}, shutdown(how) PROVE LoopInv'
    <2>1. Post("shut down") /\ "shut down" \in Signals /\ UNCHANGED <<thread, task>>
      BY <1>5 DEF shutdown, Signals
    <2>2. /\ queue' \in Seq(Threads \cup Signals)
          /\ Items' = Items \cup {Len(queue) + 1}
          /\ \A i \in Items : queue'[i] = queue[i]
          /\ queue'[Len(queue) + 1] = "shut down"
      BY <2>1, PostItems
    <2>3. TypeOK'
      BY <1>5, <2>2 DEF shutdown, TypeOK
    <2>4. StartInv' /\ ServeInv' /\ IdleInv'
      BY <1>5, <2>2 DEF shutdown, TypeOK, StartInv, ServeInv, IdleInv
    <2>5. TaskInv' /\ QueueInv'
      BY <2>1, PostSignal
    <2> QED BY <2>3, <2>4, <2>5
  <1>6. CASE ResourcesDown
    <2>1. Post("stop loop") /\ "stop loop" \in Signals /\ UNCHANGED <<thread, task>>
      BY <1>6 DEF ResourcesDown, Signals
    <2>2. /\ queue' \in Seq(Threads \cup Signals)
          /\ Items' = Items \cup {Len(queue) + 1}
          /\ \A i \in Items : queue'[i] = queue[i]
          /\ queue'[Len(queue) + 1] = "stop loop"
      BY <2>1, PostItems
    <2>3. TypeOK'
      BY <1>6, <2>2 DEF ResourcesDown, TypeOK
    <2>4. StartInv' /\ ServeInv' /\ IdleInv'
      BY <1>6, <2>2 DEF ResourcesDown, TypeOK, StartInv, ServeInv, IdleInv
    <2>5. TaskInv' /\ QueueInv'
      BY <2>1, PostSignal
    <2> QED BY <2>3, <2>4, <2>5
  <1>7. CASE Joined
    <2>1. TypeOK'
      BY <1>7 DEF Joined, TypeOK
    <2>2. StartInv' /\ ServeInv' /\ IdleInv'
      BY <1>7 DEF Joined, TypeOK, StartInv, ServeInv, IdleInv, Items
    <2>3. TaskInv' /\ QueueInv'
      BY <1>7 DEF Joined, TypeOK, TaskInv, QueueInv, Items
    <2> QED BY <2>1, <2>2, <2>3
  <1>8. ASSUME NEW t \in Threads, Deliver(t) PROVE LoopInv'
    <2>1. TypeOK'
      BY <1>8 DEF Deliver, TypeOK
    <2>2. StartInv' /\ ServeInv' /\ IdleInv'
      BY <1>8 DEF Deliver, TypeOK, StartInv, ServeInv, IdleInv, Items
    <2>3. TaskInv' /\ QueueInv'
      BY <1>8 DEF Deliver, TypeOK, TaskInv, QueueInv, Items
    <2> QED BY <2>1, <2>2, <2>3
  <1>9. ASSUME NEW t \in Threads, ReadLoop(t) PROVE LoopInv'
    <2>1. TypeOK'
      BY <1>9 DEF ReadLoop, TypeOK
    <2>2. StartInv' /\ ServeInv' /\ IdleInv'
      BY <1>9 DEF ReadLoop, TypeOK, StartInv, ServeInv, IdleInv, Items
    <2>3. TaskInv' /\ QueueInv'
      BY <1>9 DEF ReadLoop, TypeOK, TaskInv, QueueInv, Items
    <2> QED BY <2>1, <2>2, <2>3
  <1>10. ASSUME NEW t \in Threads, Submit(t) PROVE LoopInv'
    <2>1. thread[t] = "submitting" /\ task[t] = "none"
          /\ \A i \in Items : queue[i] # t
      BY <1>10 DEF Submit, TypeOK, TaskInv, QueueInv
    <2>2. CASE thread' = [thread EXCEPT ![t] = "idle"] /\ UNCHANGED queue
      <3>1. TypeOK'
        BY <1>10, <2>2 DEF Submit, TypeOK
      <3>2. StartInv' /\ ServeInv' /\ IdleInv'
        BY <1>10, <2>2 DEF Submit, TypeOK, StartInv, ServeInv, IdleInv, Items
      <3>3. TaskInv' /\ QueueInv'
        BY <1>10, <2>1, <2>2 DEF Submit, TypeOK, TaskInv, QueueInv, Items
      <3> QED BY <3>1, <3>2, <3>3
    <2>3. CASE thread' = [thread EXCEPT ![t] = "waiting"] /\ Post(t)
      <3>1. /\ queue' \in Seq(Threads \cup Signals)
            /\ Items' = Items \cup {Len(queue) + 1} /\ Len(queue) + 1 \notin Items
            /\ \A i \in Items : queue'[i] = queue[i]
            /\ queue'[Len(queue) + 1] = t
        BY <2>3, PostItems
      <3>2. TypeOK'
        BY <1>10, <2>3, <3>1 DEF Submit, TypeOK
      <3>3. main \in {"serving", "stopping"} \/ pool = "left"
        BY <2>1 DEF IdleInv
      <3>4. StartInv' /\ ServeInv' /\ IdleInv'
        <4>1. t \notin {"shut down", "stop loop"}
          BY ThreadsAssumption DEF Signals
        <4> QED BY <1>10, <2>1, <2>3, <3>1, <3>3, <4>1
                DEF Submit, TypeOK, StartInv, ServeInv, IdleInv
      <3>5. TaskInv'
        BY <1>10, <2>1, <2>3, <3>1 DEF Submit, TypeOK, TaskInv
      <3>6. QueueInv'
        BY <2>1, <2>3, <3>1 DEF TypeOK, QueueInv
      <3> QED BY <3>2, <3>4, <3>5, <3>6
    <2> QED BY <1>10, <2>2, <2>3 DEF Submit
  <1>11. CASE Turn
    <2> DEFINE c == Head(queue)
    <2>1. /\ c = queue[1] /\ c \in Threads \cup Signals /\ 1 \in Items
          /\ queue' \in Seq(Threads \cup Signals)
          /\ \A i \in Items' : i + 1 \in Items /\ i + 1 # 1 /\ queue'[i] = queue[i + 1]
      <3>1. queue \in Seq(Threads \cup Signals) /\ queue # <<>> /\ queue' = Tail(queue)
        BY <1>11 DEF Turn, TypeOK
      <3>2. /\ c = queue[1] /\ c \in Threads \cup Signals /\ Len(queue) \in Nat \ {0}
            /\ queue' \in Seq(Threads \cup Signals) /\ Len(queue') = Len(queue) - 1
            /\ \A i \in 1 .. Len(queue') : queue'[i] = queue[i + 1]
        BY <3>1, TailItems
      <3> QED BY <3>2 DEF Items
    <2> HIDE DEF c
    <2>2. /\ task' = IF c \in Threads THEN [task EXCEPT ![c] = "claiming"] ELSE task
          /\ accepting' = (accepting /\ c \notin {"stop claiming", "shut down"})
          /\ resources' = IF c = "shut down" THEN "draining" ELSE resources
          /\ loop' = IF c = "stop loop" THEN "stopping" ELSE loop
          /\ queue # <<>>
          /\ UNCHANGED <<main, pool, started, ready, thread, gathered>>
      BY <1>11 DEF Turn, c
    <2>3. TypeOK'
      BY <2>1, <2>2 DEF TypeOK
    <2>4. StartInv' /\ ServeInv' /\ IdleInv'
      <3>1. main \in {"serving", "stopping"} => c \notin {"shut down", "stop loop"}
        BY <2>1 DEF ServeInv
      <3> QED BY <2>1, <2>2, <3>1 DEF StartInv, ServeInv, IdleInv
    <2>5. TaskInv'
      <3> SUFFICES ASSUME NEW t \in Threads, task'[t] # "none"
                   PROVE  thread'[t] = "waiting" /\ \A i \in Items' : queue'[i] # t
        BY DEF TaskInv
      <3>1. CASE t = c
        <4>1. thread[t] = "waiting" /\ \A j \in Items : queue[j] = t => j = 1
          BY <2>1, <3>1 DEF QueueInv
        <4> QED BY <2>1, <2>2, <4>1
      <3>2. CASE t # c
        <4>1. task[t] # "none"
          BY <2>2, <3>2 DEF TypeOK
        <4>2. thread[t] = "waiting" /\ \A j \in Items : queue[j] # t
          BY <4>1 DEF TaskInv
        <4> QED BY <2>1, <2>2, <4>2
      <3> QED BY <3>1, <3>2
    <2>6. QueueInv'
      <3> SUFFICES ASSUME NEW i \in Items', queue'[i] \in Threads
                   PROVE  /\ thread'[queue'[i]] = "waiting"
                          /\ \A j \in Items' : queue'[j] = queue'[i] => j = i
        BY DEF QueueInv
      <3>1. i + 1 \in Items /\ queue'[i] = queue[i + 1] /\ i \in Nat
        BY <2>1 DEF Items
      <3>2. ASSUME NEW j \in Items', queue'[j] = queue'[i] PROVE j = i
        <4>1. j + 1 \in Items /\ queue'[j] = queue[j + 1] /\ j \in Nat
          BY <2>1 DEF Items
        <4>2. j + 1 = i + 1
          BY <3>1, <3>2, <4>1 DEF QueueInv
        <4> QED BY <3>1, <4>1, <4>2
      <3> QED BY <2>2, <3>1, <3>2 DEF QueueInv
    <2> QED BY <2>3, <2>4, <2>5, <2>6
  <1>12. ASSUME NEW t \in Threads, Claim(t) PROVE LoopInv'
    <2>1. TypeOK'
      BY <1>12 DEF Claim, TypeOK
    <2>2. StartInv' /\ ServeInv' /\ IdleInv'
      BY <1>12 DEF Claim, TypeOK, StartInv, ServeInv, IdleInv, Items
    <2>3. TaskInv' /\ QueueInv'
      BY <1>12 DEF Claim, TypeOK, TaskInv, QueueInv, Items
    <2> QED BY <2>1, <2>2, <2>3
  <1>13. ASSUME NEW t \in Threads, Execute(t) PROVE LoopInv'
    <2>1. TypeOK'
      BY <1>13 DEF Execute, TypeOK
    <2>2. StartInv' /\ ServeInv' /\ IdleInv'
      BY <1>13 DEF Execute, TypeOK, StartInv, ServeInv, IdleInv, Items
    <2>3. TaskInv' /\ QueueInv'
      BY <1>13 DEF Execute, TypeOK, TaskInv, QueueInv, Items
    <2> QED BY <2>1, <2>2, <2>3
  <1>14. ASSUME NEW t \in Threads, TaskEnds(t) PROVE LoopInv'
    <2>1. TypeOK'
      BY <1>14 DEF TaskEnds, TypeOK
    <2>2. StartInv' /\ ServeInv' /\ IdleInv'
      BY <1>14 DEF TaskEnds, TypeOK, StartInv, ServeInv, IdleInv, Items
    <2>3. TaskInv' /\ QueueInv'
      BY <1>14 DEF TaskEnds, TypeOK, TaskInv, QueueInv, Items
    <2> QED BY <2>1, <2>2, <2>3
  <1>15. CASE Drained
    <2>1. TypeOK'
      BY <1>15 DEF Drained, TypeOK
    <2>2. StartInv' /\ ServeInv' /\ IdleInv'
      BY <1>15 DEF Drained, TypeOK, StartInv, ServeInv, IdleInv, Items
    <2>3. TaskInv' /\ QueueInv'
      BY <1>15 DEF Drained, TypeOK, TaskInv, QueueInv, Items
    <2> QED BY <2>1, <2>2, <2>3
  <1>16. CASE Halt
    <2>1. TypeOK'
      BY <1>16 DEF Halt, TypeOK
    <2>2. StartInv' /\ ServeInv' /\ IdleInv'
      BY <1>16 DEF Halt, TypeOK, StartInv, ServeInv, IdleInv, Items
    <2>3. TaskInv' /\ QueueInv'
      BY <1>16 DEF Halt, TypeOK, TaskInv, QueueInv, Items
    <2> QED BY <2>1, <2>2, <2>3
  <1>17. CASE Close
    <2>1. TypeOK'
      BY <1>17 DEF Close, TypeOK
    <2>2. StartInv' /\ ServeInv' /\ IdleInv'
      BY <1>17 DEF Close, TypeOK, StartInv, ServeInv, IdleInv, Items
    <2>3. TaskInv' /\ QueueInv'
      BY <1>17 DEF Close, TypeOK, TaskInv, QueueInv, Items
    <2> QED BY <2>1, <2>2, <2>3
  <1>18. CASE UNCHANGED vars
    <2>1. TypeOK'
      BY <1>18 DEF vars, TypeOK
    <2>2. StartInv' /\ ServeInv' /\ IdleInv'
      BY <1>18 DEF vars, TypeOK, StartInv, ServeInv, IdleInv, Items
    <2>3. TaskInv' /\ QueueInv'
      BY <1>18 DEF vars, TypeOK, TaskInv, QueueInv, Items
    <2> QED BY <2>1, <2>2, <2>3
  <1> QED BY <1>1, <1>2, <1>3, <1>4, <1>5, <1>6, <1>7, <1>8, <1>9, <1>10, <1>11, <1>12, <1>13,
             <1>14, <1>15, <1>16, <1>17, <1>18
          DEF Next, MainStep, LoopStep, ThreadStep

-----------------------------------------------------------------------------
(* The theorems. *)

\* The invariant holds in every reachable state, for every pool size.
THEOREM LoopInvariant == Spec => []LoopInv
  BY InitInv, StepInv, PTL DEF Spec

\* Types are kept: the loop's queue holds coroutines and callbacks only.
THEOREM TypeCorrect == Spec => []TypeOK
  <1>1. LoopInv => TypeOK
    BY DEF LoopInv
  <1> QED BY <1>1, LoopInvariant, PTL

\* When the resources go down or the loop halts there is no coroutine left,
\* unless Celery left its pool behind.
THEOREM WarmStopIsClean == Spec => []NothingCutShort
  <1>1. ASSUME LoopInv, pool # "left", resources = "down" \/ loop \in {"halted", "closed"}
        PROVE  /\ \A t \in Threads : task[t] = "none"
               /\ \A i \in 1 .. Len(queue) : queue[i] \notin Threads
    <2>1. \A t \in Threads : thread[t] = "idle"
      BY <1>1 DEF LoopInv, ServeInv, IdleInv
    <2> QED BY <1>1, <2>1 DEF LoopInv, TaskInv, QueueInv, Items
  <1>2. LoopInv => NothingCutShort
    BY <1>1 DEF NothingCutShort
  <1> QED BY <1>2, LoopInvariant, PTL

=============================================================================
