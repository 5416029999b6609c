-------------------------- MODULE ApiServiceProofs --------------------------
(***************************************************************************)
(* Proofs about one API process, for every number of concurrent requests   *)
(* and health requests.  The queue of the lock decides: only its head can  *)
(* be in a store call, so the one who marks the store unavailable is alone *)
(* with the latch.                                                         *)
(***************************************************************************)
EXTENDS ApiService, SequenceTheorems, TLAPS

In(s, x) == \E i \in 1 .. Len(s) : s[i] = x
Distinct(s) == \A i, j \in 1 .. Len(s) : s[i] = s[j] => i = j

\* A request has one place in the queue.
Unique == Distinct(lock)

\* A store call is made by the holder of the lock, while the store is
\* believed available.
CallInv == \A r \in Requests : request[r] = "calling" => Holds(r) /\ available

\* The latch: it closes once, before anyone is told, and takes the ready
\* flag with it.
LatchInv ==
    /\ available => latched = 0
    /\ told => ~available
    /\ ~available => ~appReady
    /\ phase = "starting" => available /\ lock = <<>>

\* A health request that comes later does not get past the ready flag.
LateInv == \A p \in Probes : health[p].late => told /\ health[p].pc = "unready"

ApiInv == TypeOK /\ Unique /\ CallInv /\ LatchInv /\ LateInv

-----------------------------------------------------------------------------
(* Queues. *)

\* The head leaves.
LEMMA TailQueue ==
    ASSUME NEW S, NEW s \in Seq(S), s # <<>>, Distinct(s)
    PROVE  /\ Tail(s) \in Seq(S) /\ Distinct(Tail(s))
           /\ In(s, Head(s)) /\ ~In(Tail(s), Head(s))
           /\ \A x : x # Head(s) => (In(Tail(s), x) <=> In(s, x))
  <1>1. /\ Tail(s) \in Seq(S) /\ Len(s) \in Nat \ {0} /\ Len(Tail(s)) = Len(s) - 1
        /\ Head(s) = s[1]
        /\ \A i \in 1 .. Len(Tail(s)) : Tail(s)[i] = s[i + 1]
    OBVIOUS
  <1> DEFINE t == Tail(s)
  <1> HIDE DEF t
  <1>2. /\ t \in Seq(S) /\ Len(s) \in Nat \ {0} /\ Len(t) = Len(s) - 1
        /\ \A i \in 1 .. Len(t) : t[i] = s[i + 1] /\ i + 1 \in 1 .. Len(s)
    BY <1>1 DEF t
  <1>3. Distinct(t)
    <2> SUFFICES ASSUME NEW i \in 1 .. Len(t), NEW j \in 1 .. Len(t), t[i] = t[j] PROVE i = j
      BY DEF Distinct
    <2>1. i + 1 = j + 1
      BY <1>2 DEF Distinct
    <2> QED BY <1>2, <2>1
  <1>4. In(s, Head(s))
    BY <1>1 DEF In
  <1>5. ~In(t, Head(s))
    <2> SUFFICES ASSUME NEW i \in 1 .. Len(t), t[i] = s[1] PROVE FALSE
      BY <1>1 DEF In
    <2>1. s[i + 1] = s[1] /\ i + 1 \in 1 .. Len(s) /\ 1 \in 1 .. Len(s)
      BY <1>2
    <2>2. i + 1 = 1
      BY <2>1 DEF Distinct
    <2> QED BY <1>2, <2>2
  <1>6. ASSUME NEW x, x # Head(s) PROVE In(t, x) <=> In(s, x)
    <2>1. In(t, x) => In(s, x)
      BY <1>2 DEF In
    <2>2. ASSUME NEW i \in 1 .. Len(s), s[i] = x PROVE In(t, x)
      <3>1. i # 1
        BY <1>1, <1>6, <2>2
      <3>2. i - 1 \in 1 .. Len(t) /\ (i - 1) + 1 = i
        BY <1>2, <3>1
      <3>3. t[i - 1] = x
        BY <1>2, <2>2, <3>2
      <3> QED BY <3>2, <3>3 DEF In
    <2> QED BY <2>1, <2>2 DEF In
  <1> QED BY <1>2, <1>3, <1>4, <1>5, <1>6 DEF t

\* Someone joins at the end; the head stays.
LEMMA AppendQueue ==
    ASSUME NEW S, NEW s \in Seq(S), NEW r \in S, Distinct(s), ~In(s, r)
    PROVE  /\ Append(s, r) \in Seq(S) /\ Distinct(Append(s, r)) /\ In(Append(s, r), r)
           /\ \A x : x # r => (In(Append(s, r), x) <=> In(s, x))
           /\ s # <<>> => Append(s, r) # <<>> /\ Head(Append(s, r)) = Head(s)
  <1> DEFINE t == Append(s, r)
  <1>1. /\ t \in Seq(S) /\ Len(s) \in Nat /\ Len(t) = Len(s) + 1
        /\ \A i \in 1 .. Len(s) : t[i] = s[i]
        /\ t[Len(s) + 1] = r
    OBVIOUS
  <1>2. s # <<>> => t # <<>> /\ Head(t) = Head(s)
    OBVIOUS
  <1> HIDE DEF t
  <1>3. \A i \in 1 .. Len(t) : i = Len(s) + 1 \/ (i \in 1 .. Len(s) /\ t[i] = s[i])
    BY <1>1
  <1>4. \A i \in 1 .. Len(s) : s[i] # r
    BY DEF In
  <1>5. Distinct(t)
    <2> SUFFICES ASSUME NEW i \in 1 .. Len(t), NEW j \in 1 .. Len(t), t[i] = t[j] PROVE i = j
      BY DEF Distinct
    <2> QED BY <1>1, <1>3, <1>4 DEF Distinct
  <1>6. In(t, r)
    BY <1>1 DEF In
  <1>7. ASSUME NEW x, x # r PROVE In(t, x) <=> In(s, x)
    <2>1. ASSUME NEW i \in 1 .. Len(s), s[i] = x PROVE In(t, x)
      BY <1>1, <2>1 DEF In
    <2>2. ASSUME NEW i \in 1 .. Len(t), t[i] = x PROVE In(s, x)
      BY <1>1, <1>3, <1>7, <2>2 DEF In
    <2> QED BY <2>1, <2>2 DEF In
  <1> QED BY <1>1, <1>2, <1>5, <1>6, <1>7 DEF t

\* Someone leaves from any place; if it was not the head, the head stays.
LEMMA RemoveQueue ==
    ASSUME NEW S, NEW s \in Seq(S), NEW k \in 1 .. Len(s), Distinct(s)
    PROVE  /\ RemoveAt(s, k) \in Seq(S) /\ Distinct(RemoveAt(s, k)) /\ ~In(RemoveAt(s, k), s[k])
           /\ \A x : x # s[k] => (In(RemoveAt(s, k), x) <=> In(s, x))
           /\ Head(s) # s[k] => RemoveAt(s, k) # <<>> /\ Head(RemoveAt(s, k)) = Head(s)
  <1> DEFINE t == RemoveAt(s, k)
             at(i) == IF i < k THEN i ELSE i + 1
  <1>1. Len(s) \in Nat /\ k \in Nat /\ k >= 1 /\ k <= Len(s)
    OBVIOUS
  <1>2. /\ t \in Seq(S) /\ Len(t) = Len(s) - 1
        /\ \A i \in 1 .. Len(t) : t[i] = s[at(i)]
    <2> DEFINE a == SubSeq(s, 1, k - 1)
               b == SubSeq(s, k + 1, Len(s))
    <2>1. a \in Seq(S) /\ Len(a) = k - 1 /\ \A i \in 1 .. k - 1 : a[i] = s[i]
      BY <1>1
    <2>2. /\ b \in Seq(S) /\ Len(b) = Len(s) - k
          /\ \A i \in 1 .. Len(s) - k : b[i] = s[i + k]
      BY <1>1
    <2>3. t = a \o b
      BY DEF RemoveAt
    <2> HIDE DEF a, b, t
    <2>4. /\ t \in Seq(S) /\ Len(t) = Len(a) + Len(b)
          /\ \A i \in 1 .. Len(t) : t[i] = IF i <= Len(a) THEN a[i] ELSE b[i - Len(a)]
      <3>1. /\ a \o b \in Seq(S) /\ Len(a \o b) = Len(a) + Len(b)
            /\ \A i \in 1 .. Len(a) + Len(b) :
                 (a \o b)[i] = IF i <= Len(a) THEN a[i] ELSE b[i - Len(a)]
        BY <2>1, <2>2, ConcatProperties, Zenon
      <3> QED BY <2>3, <3>1, Zenon
    <2>5. ASSUME NEW i \in 1 .. Len(t) PROVE t[i] = s[at(i)]
      <3>1. CASE i < k
        BY <1>1, <2>1, <2>4, <3>1
      <3>2. CASE i >= k
        <4>1. i - (k - 1) \in 1 .. Len(s) - k /\ (i - (k - 1)) + k = i + 1
          BY <1>1, <2>1, <2>2, <2>4, <3>2
        <4>2. t[i] = b[i - (k - 1)]
          BY <1>1, <2>1, <2>4, <3>2
        <4> QED BY SMTT(40), <1>1, <2>2, <3>2, <4>1, <4>2
      <3> QED BY <1>1, <3>1, <3>2
    <2> QED BY <1>1, <2>1, <2>2, <2>4, <2>5
  <1> HIDE DEF t
  <1>3. \A i \in 1 .. Len(t) : at(i) \in 1 .. Len(s) /\ at(i) # k
    BY <1>1, <1>2
  <1>4. Distinct(t)
    <2> SUFFICES ASSUME NEW i \in 1 .. Len(t), NEW j \in 1 .. Len(t), t[i] = t[j] PROVE i = j
      BY DEF Distinct
    <2>1. at(i) = at(j)
      BY <1>2, <1>3 DEF Distinct
    <2> QED BY <1>1, <2>1
  <1>5. ~In(t, s[k])
    <2> SUFFICES ASSUME NEW i \in 1 .. Len(t), t[i] = s[k] PROVE FALSE
      BY DEF In
    <2>1. at(i) = k
      BY <1>2, <1>3 DEF Distinct
    <2> QED BY <1>3, <2>1
  <1>6. ASSUME NEW x, x # s[k] PROVE In(t, x) <=> In(s, x)
    <2>1. ASSUME NEW i \in 1 .. Len(t), t[i] = x PROVE In(s, x)
      BY <1>2, <1>3, <2>1 DEF In
    <2>2. ASSUME NEW i \in 1 .. Len(s), s[i] = x PROVE In(t, x)
      <3> DEFINE j == IF i < k THEN i ELSE i - 1
      <3>1. i # k
        BY <1>6, <2>2
      <3>2. j \in 1 .. Len(t) /\ at(j) = i
        BY <1>1, <1>2, <3>1
      <3> HIDE DEF j
      <3>3. t[j] = x
        BY <1>2, <2>2, <3>2
      <3> QED BY <3>2, <3>3 DEF In
    <2> QED BY <2>1, <2>2 DEF In
  <1>7. ASSUME Head(s) # s[k] PROVE t # <<>> /\ Head(t) = Head(s)
    <2>1. Head(s) = s[1]
      BY <1>1
    <2>2. k # 1
      BY <1>7, <2>1
    <2>3. 1 \in 1 .. Len(t) /\ at(1) = 1
      BY <1>1, <1>2, <2>2
    <2>4. t[1] = s[1]
      BY <1>2, <2>3
    <2> QED BY <1>2, <2>1, <2>3, <2>4
  <1> QED BY <1>2, <1>4, <1>5, <1>6, <1>7 DEF t

-----------------------------------------------------------------------------
(* The invariant is inductive. *)

\* The types but for the queue.
OtherTypes ==
    /\ phase \in {"starting", "serving", "stopping", "closed"}
    /\ appReady \in BOOLEAN /\ available \in BOOLEAN /\ told \in BOOLEAN
    /\ latched \in 0 .. 1
    /\ request \in [Requests -> {"idle"} \cup Active \cup Answered]
    /\ health \in [Probes -> [pc : {"idle", "database", "broker", "roles", "healthy", "unready"},
                              late : BOOLEAN]]

\* The requests that are waiting, calling or marking are those in the queue.
QueueInv ==
    /\ lock \in Seq(Requests) /\ Distinct(lock)
    /\ \A r \in Requests : request[r] \in Active <=> In(lock, r)

LEMMA ApiInvParts == ApiInv <=> OtherTypes /\ QueueInv /\ CallInv /\ LatchInv /\ LateInv
  BY DEF ApiInv, TypeOK, Unique, OtherTypes, QueueInv, In

\* The first in the queue leaves with an answer.
LEMMA HeadLeaves ==
    ASSUME ApiInv, NEW r \in Requests, Holds(r), NEW result \in Answered,
           Answer(r, result), lock' = Tail(lock)
    PROVE  /\ QueueInv' /\ request' \in [Requests -> {"idle"} \cup Active \cup Answered]
           /\ \A x \in Requests : request'[x] # "calling"
  <1>1. lock \in Seq(Requests) /\ lock # <<>> /\ Head(lock) = r /\ Distinct(lock)
    BY ApiInvParts DEF QueueInv, Holds
  <1>2. /\ lock' \in Seq(Requests) /\ Distinct(lock') /\ ~In(lock', r)
        /\ \A x : x # r => (In(lock', x) <=> In(lock, x))
    BY <1>1, TailQueue
  <1>3. request' = [request EXCEPT ![r] = result]
    BY DEF Answer
  <1>4. request \in [Requests -> {"idle"} \cup Active \cup Answered]
    BY ApiInvParts DEF OtherTypes
  <1>5. result \notin Active /\ result # "calling"
    BY DEF Active, Answered
  <1>6. QueueInv'
    BY <1>2, <1>3, <1>4, <1>5, ApiInvParts DEF QueueInv
  <1>7. \A x \in Requests : request'[x] # "calling"
    BY <1>1, <1>3, <1>4, <1>5, ApiInvParts DEF CallInv, Holds
  <1> QED BY <1>3, <1>4, <1>6, <1>7

\* Nothing has arrived.
LEMMA InitInv == Init => ApiInv
  <1> SUFFICES ASSUME Init PROVE ApiInv
    OBVIOUS
  <1>1. OtherTypes
    <2>1. appReady \in BOOLEAN /\ available \in BOOLEAN /\ told \in BOOLEAN
      BY Zenon DEF Init
    <2>2. request \in [Requests -> {"idle"} \cup Active \cup Answered]
      BY DEF Init
    <2>3. health \in [Probes -> [pc : {"idle", "database", "broker", "roles", "healthy", "unready"},
                                 late : BOOLEAN]]
      BY DEF Init
    <2> QED BY <2>1, <2>2, <2>3 DEF Init, OtherTypes
  <1>2. lock = <<>> /\ lock \in Seq(Requests) /\ Len(lock) = 0
    BY DEF Init
  <1>3. QueueInv
    BY <1>2 DEF Init, QueueInv, Distinct, In, Active
  <1>4. CallInv /\ LatchInv /\ LateInv
    BY DEF Init, CallInv, LatchInv, LateInv
  <1> QED BY <1>1, <1>3, <1>4, ApiInvParts

\* Every step preserves the invariant.
LEMMA StepInv == ApiInv /\ [Next]_vars => ApiInv'
  <1> SUFFICES ASSUME ApiInv, [Next]_vars PROVE ApiInv'
    OBVIOUS
  <1>a. OtherTypes /\ QueueInv /\ CallInv /\ LatchInv /\ LateInv
    BY ApiInvParts
  <1>b. OtherTypes' /\ QueueInv' /\ CallInv' /\ LatchInv' /\ LateInv' => ApiInv'
    BY DEF ApiInv, TypeOK, Unique, OtherTypes, QueueInv, In
  <1>1. CASE StartUp
    <2>1. OtherTypes'
      BY <1>a, <1>1 DEF StartUp, OtherTypes
    <2>2. QueueInv'
      BY <1>a, <1>1 DEF StartUp, QueueInv
    <2>3. CallInv'
      BY <1>a, <1>1 DEF StartUp, CallInv, Holds
    <2>4. LatchInv'
      BY <1>a, <1>1 DEF StartUp, LatchInv, OtherTypes
    <2>5. LateInv'
      BY <1>a, <1>1 DEF StartUp, LateInv, LatchInv, OtherTypes
    <2> QED BY <1>b, <2>1, <2>2, <2>3, <2>4, <2>5
  <1>2. CASE Stop
    <2>1. OtherTypes'
      BY <1>a, <1>2 DEF Stop, OtherTypes
    <2>2. QueueInv'
      BY <1>a, <1>2 DEF Stop, QueueInv
    <2>3. CallInv'
      BY <1>a, <1>2 DEF Stop, CallInv, Holds
    <2>4. LatchInv'
      BY <1>a, <1>2 DEF Stop, LatchInv, OtherTypes
    <2>5. LateInv'
      BY <1>a, <1>2 DEF Stop, LateInv, LatchInv, OtherTypes
    <2> QED BY <1>b, <2>1, <2>2, <2>3, <2>4, <2>5
  <1>3. CASE CloseResources
    <2>1. OtherTypes'
      BY <1>a, <1>3 DEF CloseResources, OtherTypes
    <2>2. QueueInv'
      BY <1>a, <1>3 DEF CloseResources, QueueInv
    <2>3. CallInv'
      BY <1>a, <1>3 DEF CloseResources, CallInv, Holds
    <2>4. LatchInv'
      BY <1>a, <1>3 DEF CloseResources, LatchInv, OtherTypes
    <2>5. LateInv'
      BY <1>a, <1>3 DEF CloseResources, LateInv, LatchInv, OtherTypes
    <2> QED BY <1>b, <2>1, <2>2, <2>3, <2>4, <2>5
  <1>4. ASSUME NEW r \in Requests, Arrive(r) PROVE ApiInv'
    <2>1. request[r] \notin Active /\ phase # "starting"
      BY <1>a, <1>4 DEF Arrive, Active, Answered
    <2>2. UNCHANGED <<phase, appReady, available, latched, health, told>>
      BY <1>4 DEF Arrive
    <2>3. PICK result \in {"waiting", "answered"} : Answer(r, result)
      BY <1>4 DEF Arrive
    <2>4. OtherTypes'
      BY <1>a, <2>2, <2>3 DEF OtherTypes, Answer, Active, Answered
    <2>5. LatchInv' /\ LateInv'
      BY <1>a, <2>1, <2>2 DEF LatchInv, LateInv
    <2>6. CASE Answer(r, "waiting") /\ lock' = Append(lock, r)
      <3>1. ~In(lock, r) /\ lock \in Seq(Requests) /\ Distinct(lock)
        BY <1>a, <2>1 DEF QueueInv
      <3>2. /\ lock' \in Seq(Requests) /\ Distinct(lock') /\ In(lock', r)
            /\ \A x : x # r => (In(lock', x) <=> In(lock, x))
            /\ lock # <<>> => lock' # <<>> /\ Head(lock') = Head(lock)
        BY <2>6, <3>1, AppendQueue
      <3>3. QueueInv'
        BY <1>a, <2>6, <3>2 DEF QueueInv, OtherTypes, Answer, Active
      <3>4. CallInv'
        BY <1>a, <2>2, <2>6, <3>2 DEF CallInv, Holds, OtherTypes, Answer
      <3> QED BY <1>b, <2>4, <2>5, <3>3, <3>4
    <2>7. CASE Answer(r, "answered") /\ UNCHANGED lock
      <3>1. QueueInv'
        BY <1>a, <2>1, <2>7 DEF QueueInv, OtherTypes, Answer, Active
      <3>2. CallInv'
        BY <1>a, <2>2, <2>7 DEF CallInv, Holds, OtherTypes, Answer
      <3> QED BY <1>b, <2>4, <2>5, <3>1, <3>2
    <2> QED BY <1>4, <2>6, <2>7 DEF Arrive
  <1>5. ASSUME NEW r \in Requests, Enter(r) PROVE ApiInv'
    <2>1. /\ request[r] = "waiting" /\ Holds(r)
          /\ UNCHANGED <<phase, appReady, available, latched, health>>
      BY <1>5 DEF Enter
    <2>2. CASE available /\ Answer(r, "calling") /\ UNCHANGED <<lock, told>>
      <3>1. OtherTypes'
        BY <1>a, <2>1, <2>2 DEF OtherTypes, Answer, Active
      <3>2. QueueInv'
        BY <1>a, <2>1, <2>2 DEF QueueInv, OtherTypes, Answer, Active
      <3>3. CallInv'
        BY <1>a, <2>1, <2>2 DEF CallInv, Holds, OtherTypes, Answer
      <3>4. LatchInv' /\ LateInv'
        BY <1>a, <2>1, <2>2 DEF LatchInv, LateInv
      <3> QED BY <1>b, <3>1, <3>2, <3>3, <3>4
    <2>3. CASE ~available /\ Answer(r, "unavailable") /\ lock' = Tail(lock) /\ told' = TRUE
      <3>1. /\ QueueInv' /\ request' \in [Requests -> {"idle"} \cup Active \cup Answered]
            /\ \A x \in Requests : request'[x] # "calling"
        BY <2>1, <2>3, HeadLeaves DEF Answered
      <3>2. OtherTypes'
        BY <1>a, <2>1, <2>3, <3>1 DEF OtherTypes
      <3>3. CallInv'
        BY <3>1 DEF CallInv
      <3>4. LatchInv' /\ LateInv'
        BY <1>a, <2>1, <2>3 DEF LatchInv, LateInv
      <3> QED BY <1>b, <3>1, <3>2, <3>3, <3>4
    <2> QED BY <1>5, <2>2, <2>3 DEF Enter
  <1>6. ASSUME NEW r \in Requests, StoreAnswers(r) PROVE ApiInv'
    <2>1. /\ Holds(r) /\ phase # "starting"
          /\ UNCHANGED <<phase, appReady, available, latched, health, told>>
      BY <1>a, <1>6 DEF StoreAnswers, CallInv, LatchInv, Holds
    <2>2. /\ QueueInv' /\ request' \in [Requests -> {"idle"} \cup Active \cup Answered]
          /\ \A x \in Requests : request'[x] # "calling"
      BY <1>6, <2>1, HeadLeaves DEF StoreAnswers, Answered
    <2>3. OtherTypes' /\ CallInv'
      BY <1>a, <2>1, <2>2 DEF OtherTypes, CallInv
    <2>4. LatchInv' /\ LateInv'
      BY <1>a, <2>1 DEF LatchInv, LateInv
    <2> QED BY <1>b, <2>2, <2>3, <2>4
  <1>7. ASSUME NEW r \in Requests, StoreFails(r) PROVE ApiInv'
    <2>1. /\ Holds(r) /\ phase # "starting" /\ Answer(r, "marking")
          /\ lock' = Append(Tail(lock), r)
          /\ UNCHANGED <<phase, appReady, available, latched, health, told>>
      BY <1>a, <1>7 DEF StoreFails, CallInv, LatchInv, Holds
    <2>2. lock \in Seq(Requests) /\ lock # <<>> /\ Head(lock) = r /\ Distinct(lock)
      BY <1>a, <2>1 DEF QueueInv, Holds
    <2>3. /\ Tail(lock) \in Seq(Requests) /\ Distinct(Tail(lock)) /\ ~In(Tail(lock), r)
          /\ \A x : x # r => (In(Tail(lock), x) <=> In(lock, x))
      BY <2>2, TailQueue
    <2>4. /\ lock' \in Seq(Requests) /\ Distinct(lock') /\ In(lock', r)
          /\ \A x : x # r => (In(lock', x) <=> In(lock, x))
      BY <2>1, <2>3, AppendQueue
    <2>5. QueueInv'
      BY <1>a, <2>1, <2>4 DEF QueueInv, OtherTypes, Answer, Active
    <2>6. OtherTypes'
      BY <1>a, <2>1 DEF OtherTypes, Answer, Active
    <2>7. CallInv'
      BY <1>a, <2>1, <2>2 DEF CallInv, Holds, OtherTypes, Answer
    <2>8. LatchInv' /\ LateInv'
      BY <1>a, <2>1 DEF LatchInv, LateInv
    <2> QED BY <1>b, <2>5, <2>6, <2>7, <2>8
  <1>8. ASSUME NEW r \in Requests, MarkStoreUnavailable(r) PROVE ApiInv'
    <2>1. /\ Holds(r) /\ phase # "starting" /\ told' = TRUE /\ available' = FALSE
          /\ UNCHANGED <<phase, health>>
      BY <1>a, <1>8 DEF MarkStoreUnavailable, LatchInv, Holds
    <2>2. /\ QueueInv' /\ request' \in [Requests -> {"idle"} \cup Active \cup Answered]
          /\ \A x \in Requests : request'[x] # "calling"
      BY <1>8, <2>1, HeadLeaves DEF MarkStoreUnavailable, Answered
    <2>3. /\ available => appReady' = FALSE /\ latched' = latched + 1
          /\ ~available => UNCHANGED <<appReady, latched>>
      BY <1>8 DEF MarkStoreUnavailable
    <2>4. ~appReady' /\ appReady' \in BOOLEAN /\ latched' \in 0 .. 1
      <3>1. appReady' = FALSE
        BY <1>a, <2>3, Zenon DEF LatchInv, OtherTypes
      <3>2. latched' \in 0 .. 1
        <4>1. CASE available
          BY <1>a, <2>3, <4>1 DEF LatchInv
        <4>2. CASE ~available
          BY <1>a, <2>3, <4>2 DEF OtherTypes
        <4> QED BY <4>1, <4>2
      <3> QED BY <3>1, <3>2, Zenon
    <2>5. OtherTypes' /\ CallInv'
      BY <1>a, <2>1, <2>2, <2>4 DEF OtherTypes, CallInv
    <2>6. LatchInv' /\ LateInv'
      BY <1>a, <2>1, <2>4 DEF LatchInv, LateInv
    <2> QED BY <1>b, <2>2, <2>5, <2>6
  <1>9. ASSUME NEW r \in Requests, Interrupt(r) PROVE ApiInv'
    <2>1. PICK i \in 1 .. Len(lock) : lock[i] = r /\ lock' = RemoveAt(lock, i)
      BY <1>9 DEF Interrupt
    <2>2. /\ Answer(r, "interrupted")
          /\ UNCHANGED <<phase, appReady, available, latched, health, told>>
      BY <1>9 DEF Interrupt
    <2>3. lock \in Seq(Requests) /\ Distinct(lock) /\ lock # <<>>
      BY <1>a, <2>1 DEF QueueInv
    <2>4. /\ lock' \in Seq(Requests) /\ Distinct(lock') /\ ~In(lock', r)
          /\ \A x : x # r => (In(lock', x) <=> In(lock, x))
          /\ Head(lock) # r => lock' # <<>> /\ Head(lock') = Head(lock)
      BY <2>1, <2>3, RemoveQueue
    <2>5. QueueInv'
      BY <1>a, <2>2, <2>4 DEF QueueInv, OtherTypes, Answer, Active
    <2>6. OtherTypes'
      BY <1>a, <2>2 DEF OtherTypes, Answer, Active, Answered
    <2>7. CallInv'
      BY <1>a, <2>2, <2>4 DEF CallInv, Holds, OtherTypes, Answer
    <2>8. LatchInv' /\ LateInv'
      BY <1>a, <2>2, <2>3 DEF LatchInv, LateInv
    <2> QED BY <1>b, <2>5, <2>6, <2>7, <2>8
  <1>10. ASSUME NEW p \in Probes, HealthBegins(p) PROVE ApiInv'
    <2>1. OtherTypes'
      BY <1>a, <1>10 DEF HealthBegins, OtherTypes
    <2>2. QueueInv'
      BY <1>a, <1>10 DEF HealthBegins, QueueInv
    <2>3. CallInv'
      BY <1>a, <1>10 DEF HealthBegins, CallInv, Holds
    <2>4. LatchInv'
      BY <1>a, <1>10 DEF HealthBegins, LatchInv, OtherTypes
    <2>5. LateInv'
      BY <1>a, <1>10 DEF HealthBegins, LateInv, LatchInv, OtherTypes
    <2> QED BY <1>b, <2>1, <2>2, <2>3, <2>4, <2>5
  <1>11. ASSUME NEW p \in Probes, ProbeSucceeds(p) PROVE ApiInv'
    <2>1. OtherTypes'
      BY <1>a, <1>11 DEF ProbeSucceeds, OtherTypes, Check
    <2>2. QueueInv'
      BY <1>a, <1>11 DEF ProbeSucceeds, QueueInv, Check
    <2>3. CallInv'
      BY <1>a, <1>11 DEF ProbeSucceeds, CallInv, Holds, Check
    <2>4. LatchInv'
      BY <1>a, <1>11 DEF ProbeSucceeds, LatchInv, OtherTypes, Check
    <2>5. LateInv'
      BY <1>a, <1>11 DEF ProbeSucceeds, LateInv, LatchInv, OtherTypes, Check
    <2> QED BY <1>b, <2>1, <2>2, <2>3, <2>4, <2>5
  <1>12. ASSUME NEW p \in Probes, ProbeFails(p) PROVE ApiInv'
    <2>1. OtherTypes'
      BY <1>a, <1>12 DEF ProbeFails, OtherTypes, Check
    <2>2. QueueInv'
      BY <1>a, <1>12 DEF ProbeFails, QueueInv, Check
    <2>3. CallInv'
      BY <1>a, <1>12 DEF ProbeFails, CallInv, Holds, Check
    <2>4. LatchInv'
      BY <1>a, <1>12 DEF ProbeFails, LatchInv, OtherTypes, Check
    <2>5. LateInv'
      BY <1>a, <1>12 DEF ProbeFails, LateInv, LatchInv, OtherTypes, Check
    <2> QED BY <1>b, <2>1, <2>2, <2>3, <2>4, <2>5
  <1>13. CASE UNCHANGED vars
    <2>1. OtherTypes'
      BY <1>a, <1>13 DEF vars, OtherTypes
    <2>2. QueueInv'
      BY <1>a, <1>13 DEF vars, QueueInv
    <2>3. CallInv'
      BY <1>a, <1>13 DEF vars, CallInv, Holds
    <2>4. LatchInv'
      BY <1>a, <1>13 DEF vars, LatchInv, OtherTypes
    <2>5. LateInv'
      BY <1>a, <1>13 DEF vars, LateInv, LatchInv, OtherTypes
    <2> QED BY <1>b, <2>1, <2>2, <2>3, <2>4, <2>5
  <1> QED BY <1>1, <1>2, <1>3, <1>4, <1>5, <1>6, <1>7, <1>8, <1>9, <1>10, <1>11, <1>12, <1>13
             DEF Next, StoreReturns, ProbeReturns

-----------------------------------------------------------------------------
(* The theorems. *)

\* The invariant holds in every reachable state.
THEOREM ApiInvariant == Spec => []ApiInv
  BY InitInv, StepInv, PTL DEF Spec

\* Types are kept.  With them: on_store_unavailable is called at most once,
\* and the lock's queue holds exactly the requests that are not answered.
THEOREM TypeCorrect == Spec => []TypeOK
  <1>1. ApiInv => TypeOK
    BY DEF ApiInv
  <1> QED BY <1>1, ApiInvariant, PTL

\* After the first "store unavailable" no request reaches the store and no
\* later health request is answered ready.
THEOREM LatchFailsFast == Spec => []FailFast
  <1>1. ApiInv => FailFast
    BY DEF ApiInv, CallInv, LatchInv, LateInv, FailFast
  <1> QED BY <1>1, ApiInvariant, PTL

=============================================================================
