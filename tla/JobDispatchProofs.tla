------------------------- MODULE JobDispatchProofs --------------------------
(***************************************************************************)
(* Proofs about the publication of dispatches, for every number of jobs,   *)
(* of overlapping reconcilers, of crashes and of failed calls.  Leases,    *)
(* not the local batches of the reconcilers, carry the argument: a batch   *)
(* may be stale in every respect except that its owner still holds the     *)
(* lease on what it is about to record.                                    *)
(***************************************************************************)
EXTENDS JobDispatch, TLAPS

\* A dispatch is leased while it is due and stays due until it is recorded.
LeasedIsDue == \A j \in Jobs : lease[j] # Nobody => due[j]

\* What a reconciler is about to record was sent, unless the lease is no
\* longer its own.
RecordWasSent ==
    \A r \in Reconcilers :
        pc[r] = "record" /\ lease[Head(batch[r])] = r => sent[Head(batch[r])]

DispatchInv == TypeOK /\ LeasedIsDue /\ RecordWasSent /\ PutOffOnlyIfSent

-----------------------------------------------------------------------------
(* Batches. *)

\* A batch is a sequence of members of the set it selects from.
LEMMA FirstOnesType ==
    ASSUME NEW S \in SUBSET Jobs, NEW s \in FirstOnes(S)
    PROVE  s \in Seq(Jobs) /\ ToSet(s) \subseteq S
  <1>1. PICK n \in 0 .. BatchLimit : s \in [1 .. n -> S]
    BY DEF FirstOnes
  <1>2. n \in Nat
    BY <1>1, DispatchBounds
  <1>3. s \in [1 .. n -> Jobs]
    BY <1>1
  <1>4. s \in Seq(Jobs)
    BY <1>2, <1>3
  <1> QED BY <1>1, <1>4 DEF ToSet

\* Head and tail of a batch.
LEMMA BatchParts ==
    ASSUME NEW s \in Seq(Jobs), s # <<>>
    PROVE  Head(s) \in Jobs /\ Tail(s) \in Seq(Jobs) /\ Head(s) \in ToSet(s)
  <1>1. Head(s) \in Jobs /\ Tail(s) \in Seq(Jobs)
    OBVIOUS
  <1>2. Head(s) = s[1] /\ 1 \in DOMAIN s
    OBVIOUS
  <1> QED BY <1>1, <1>2 DEF ToSet

\* A reconciler in the middle of a batch has a job at hand.
LEMMA JobAtHand ==
    ASSUME TypeOK, NEW r \in Reconcilers, pc[r] \in {"publish", "record", "release"}
    PROVE  batch[r] \in Seq(Jobs) /\ batch[r] # <<>> /\ Head(batch[r]) \in Jobs
           /\ Tail(batch[r]) \in Seq(Jobs)
  <1>1. batch[r] \in Seq(Jobs) /\ batch[r] # <<>>
    BY DEF TypeOK
  <1> QED BY <1>1, BatchParts

\* The number of faults keeps its bound.
LEMMA FaultType == ASSUME TypeOK, Fault PROVE faults' \in 0 .. MaxFaults
  BY DispatchBounds DEF TypeOK, Fault

-----------------------------------------------------------------------------
(* The invariant is inductive. *)

\* Nothing is submitted.
LEMMA InitInv == Init => DispatchInv
  <1> SUFFICES ASSUME Init PROVE DispatchInv
    OBVIOUS
  <1>1. TypeOK
    <2>1. 0 \in 0 .. MaxCopies /\ 0 \in 0 .. MaxFaults
      BY DispatchBounds
    <2>2. <<>> \in Seq(Jobs)
      OBVIOUS
    <2> QED BY <2>1, <2>2 DEF Init, TypeOK, Waiting
  <1>2. LeasedIsDue /\ RecordWasSent /\ PutOffOnlyIfSent
    BY DEF Init, LeasedIsDue, RecordWasSent, PutOffOnlyIfSent
  <1> QED BY <1>1, <1>2 DEF DispatchInv

\* Every step preserves the invariant.
LEMMA StepInv == DispatchInv /\ [Next]_vars => DispatchInv'
  <1> SUFFICES ASSUME DispatchInv, [Next]_vars PROVE DispatchInv'
    OBVIOUS
  <1> USE DEF DispatchInv, rowVars
  <1>1. ASSUME NEW j \in Jobs, Admit(j) PROVE DispatchInv'
    <2>1. TypeOK'
      BY <1>1 DEF Admit, TypeOK, Waiting
    <2>2. LeasedIsDue' /\ RecordWasSent' /\ PutOffOnlyIfSent'
      BY <1>1, OwnersAssumption DEF Admit, TypeOK, Waiting, LeasedIsDue, RecordWasSent,
         PutOffOnlyIfSent
    <2> QED BY <2>1, <2>2
  <1>2. ASSUME NEW j \in Jobs, Cancel(j) PROVE DispatchInv'
    <2>1. TypeOK'
      BY <1>2 DEF Cancel, TypeOK, Waiting
    <2>2. LeasedIsDue' /\ RecordWasSent' /\ PutOffOnlyIfSent'
      BY <1>2, OwnersAssumption DEF Cancel, TypeOK, Waiting, LeasedIsDue, RecordWasSent,
         PutOffOnlyIfSent
    <2> QED BY <2>1, <2>2
  <1>3. ASSUME NEW j \in Jobs, DeadlinePasses(j) PROVE DispatchInv'
    <2>1. TypeOK'
      BY <1>3 DEF DeadlinePasses, TypeOK, Waiting
    <2>2. LeasedIsDue' /\ RecordWasSent' /\ PutOffOnlyIfSent'
      BY <1>3, OwnersAssumption DEF DeadlinePasses, TypeOK, Waiting, LeasedIsDue,
         RecordWasSent, PutOffOnlyIfSent
    <2> QED BY <2>1, <2>2
  <1>4. ASSUME NEW j \in Jobs, BecomesDue(j) PROVE DispatchInv'
    <2>1. TypeOK'
      BY <1>4 DEF BecomesDue, TypeOK, Waiting
    <2>2. LeasedIsDue' /\ RecordWasSent' /\ PutOffOnlyIfSent'
      BY <1>4, OwnersAssumption DEF BecomesDue, TypeOK, Waiting, LeasedIsDue, RecordWasSent,
         PutOffOnlyIfSent
    <2> QED BY <2>1, <2>2
  <1>5. ASSUME NEW j \in Jobs, LeaseExpires(j) PROVE DispatchInv'
    <2>1. TypeOK'
      BY <1>5 DEF LeaseExpires, TypeOK, Waiting
    <2>2. LeasedIsDue' /\ RecordWasSent' /\ PutOffOnlyIfSent'
      BY <1>5, OwnersAssumption DEF LeaseExpires, TypeOK, Waiting, LeasedIsDue, RecordWasSent,
         PutOffOnlyIfSent
    <2> QED BY <2>1, <2>2
  <1>6. ASSUME NEW j \in Jobs, DeliveryClaims(j) PROVE DispatchInv'
    <2>1. TypeOK'
      BY <1>6, DispatchBounds DEF DeliveryClaims, TypeOK, Waiting
    <2>2. LeasedIsDue' /\ RecordWasSent' /\ PutOffOnlyIfSent'
      BY <1>6, OwnersAssumption DEF DeliveryClaims, TypeOK, Waiting, LeasedIsDue,
         RecordWasSent, PutOffOnlyIfSent
    <2> QED BY <2>1, <2>2
  <1>7. ASSUME NEW j \in Jobs, DeliveryTimesOut(j) PROVE DispatchInv'
    <2>1. TypeOK'
      BY <1>7, DispatchBounds DEF DeliveryTimesOut, TypeOK, Waiting
    <2>2. LeasedIsDue' /\ RecordWasSent' /\ PutOffOnlyIfSent'
      BY <1>7, OwnersAssumption DEF DeliveryTimesOut, TypeOK, Waiting, LeasedIsDue,
         RecordWasSent, PutOffOnlyIfSent
    <2> QED BY <2>1, <2>2
  <1>8. ASSUME NEW j \in Jobs, DeliveryDropped(j) PROVE DispatchInv'
    <2>1. TypeOK'
      BY <1>8, DispatchBounds DEF DeliveryDropped, TypeOK, Waiting
    <2>2. LeasedIsDue' /\ RecordWasSent' /\ PutOffOnlyIfSent'
      BY <1>8, OwnersAssumption DEF DeliveryDropped, TypeOK, Waiting, LeasedIsDue,
         RecordWasSent, PutOffOnlyIfSent
    <2> QED BY <2>1, <2>2
  <1>9. ASSUME NEW r \in Reconcilers, Expire(r) PROVE DispatchInv'
    <2>1. TypeOK'
      BY <1>9 DEF Expire, TypeOK, Waiting
    <2>2. LeasedIsDue' /\ RecordWasSent' /\ PutOffOnlyIfSent'
      BY <1>9, OwnersAssumption DEF Expire, TypeOK, Waiting, LeasedIsDue, RecordWasSent,
         PutOffOnlyIfSent
    <2> QED BY <2>1, <2>2
  <1>10. ASSUME NEW r \in Reconcilers, Lease(r) PROVE DispatchInv'
    <2> DEFINE S == {j \in Jobs : Leasable(j)}
    <2>1. PICK leased \in FirstOnes(S) :
             /\ lease' = [j \in Jobs |-> IF j \in ToSet(leased) THEN r ELSE lease[j]]
             /\ live' = [j \in Jobs |-> live[j] \/ j \in ToSet(leased)]
             /\ batch' = [batch EXCEPT ![r] = leased]
             /\ pc' = [pc EXCEPT ![r] = IF leased = <<>> THEN "expire" ELSE "publish"]
      BY <1>10 DEF Lease
    <2>2. UNCHANGED <<status, due, copies, sent, faults>>
      BY <1>10 DEF Lease
    <2>3. leased \in Seq(Jobs) /\ ToSet(leased) \subseteq S
      BY FirstOnesType
    <2>4. \A j \in ToSet(leased) : due[j]
      BY <2>3 DEF Leasable
    <2> HIDE DEF S
    <2>5. TypeOK'
      <3>1. live' \in [Jobs -> BOOLEAN]
        BY <2>1
      <3>2. /\ batch' \in [Reconcilers -> Seq(Jobs)]
            /\ lease' \in [Jobs -> Reconcilers \cup {Nobody, Orphan}]
        BY <2>1, <2>3 DEF TypeOK
      <3>3. pc' \in [Reconcilers -> {"expire", "lease", "publish", "record", "release"}]
        BY <2>1 DEF TypeOK
      <3>4. \A x \in Reconcilers : pc'[x] \in {"publish", "record", "release"} <=> batch'[x] # <<>>
        BY <2>1 DEF TypeOK
      <3> QED BY <2>2, <3>1, <3>2, <3>3, <3>4 DEF TypeOK
    <2>6. LeasedIsDue'
      BY <2>1, <2>2, <2>4 DEF LeasedIsDue
    <2>7. RecordWasSent'
      <3> SUFFICES ASSUME NEW x \in Reconcilers, pc'[x] = "record",
                          lease'[Head(batch'[x])] = x
                   PROVE  sent'[Head(batch'[x])]
        BY DEF RecordWasSent
      <3>1. x # r /\ pc[x] = "record" /\ batch'[x] = batch[x]
        BY <2>1 DEF TypeOK
      <3>2. Head(batch[x]) \in Jobs
        BY <3>1, JobAtHand
      <3>3. lease[Head(batch[x])] = x
        BY <2>1, <3>1, <3>2
      <3> QED BY <2>2, <3>1, <3>3 DEF RecordWasSent
    <2>8. PutOffOnlyIfSent'
      BY <2>2 DEF PutOffOnlyIfSent
    <2> QED BY <2>5, <2>6, <2>7, <2>8
  <1>11. ASSUME NEW r \in Reconcilers, Publish(r) PROVE DispatchInv'
    <2> DEFINE j == Head(batch[r])
    <2>1. j \in Jobs
      BY <1>11, JobAtHand DEF Publish
    <2>2. /\ copies' = [copies EXCEPT ![j] = IF @ < MaxCopies THEN @ + 1 ELSE @]
          /\ sent' = [sent EXCEPT ![j] = TRUE]
          /\ pc[r] = "publish" /\ pc' = [pc EXCEPT ![r] = "record"]
          /\ UNCHANGED <<status, due, lease, live, batch, faults>>
      BY <1>11 DEF Publish
    <2>3. TypeOK'
      <3>1. copies' \in [Jobs -> 0 .. MaxCopies]
        BY <2>1, <2>2, DispatchBounds DEF TypeOK
      <3>2. sent' \in [Jobs -> BOOLEAN]
        BY <2>2 DEF TypeOK
      <3>3. pc' \in [Reconcilers -> {"expire", "lease", "publish", "record", "release"}]
            /\ \A x \in Reconcilers :
                 pc'[x] \in {"publish", "record", "release"} <=> batch'[x] # <<>>
        BY <2>2 DEF TypeOK
      <3> QED BY <2>2, <3>1, <3>2, <3>3 DEF TypeOK
    <2>4. \A x \in Jobs : sent[x] \/ x = j => sent'[x]
      BY <2>2 DEF TypeOK
    <2>5. LeasedIsDue' /\ PutOffOnlyIfSent'
      BY <2>2, <2>4 DEF LeasedIsDue, PutOffOnlyIfSent
    <2>6. RecordWasSent'
      <3> SUFFICES ASSUME NEW x \in Reconcilers, pc'[x] = "record", lease[Head(batch[x])] = x
                   PROVE  sent'[Head(batch[x])]
        BY <2>2 DEF RecordWasSent
      <3>1. CASE x = r
        BY <2>1, <2>4, <3>1
      <3>2. CASE x # r
        <4>1. pc[x] = "record"
          BY <2>2, <3>2 DEF TypeOK
        <4>2. Head(batch[x]) \in Jobs
          BY <4>1, JobAtHand
        <4> QED BY <2>4, <4>1, <4>2 DEF RecordWasSent
      <3> QED BY <3>1, <3>2
    <2> QED BY <2>3, <2>5, <2>6
  <1>12. ASSUME NEW r \in Reconcilers, PublishFails(r) PROVE DispatchInv'
    <2>1. TypeOK'
      <3>1. faults' \in 0 .. MaxFaults
        BY <1>12, FaultType DEF PublishFails
      <3>2. copies' \in [Jobs -> 0 .. MaxCopies]
        <4>1. Head(batch[r]) \in Jobs
          BY <1>12, JobAtHand DEF PublishFails
        <4> QED BY <1>12, <4>1, DispatchBounds DEF PublishFails, TypeOK
      <3> QED BY <1>12, <3>1, <3>2 DEF PublishFails, TypeOK
    <2>2. LeasedIsDue' /\ RecordWasSent' /\ PutOffOnlyIfSent'
      BY <1>12, JobAtHand, OwnersAssumption DEF PublishFails, TypeOK, Waiting, LeasedIsDue,
         RecordWasSent, PutOffOnlyIfSent
    <2> QED BY <2>1, <2>2
  <1>13. ASSUME NEW r \in Reconcilers, Record(r) PROVE DispatchInv'
    <2>1. TypeOK'
      BY <1>13, JobAtHand DEF Record, TypeOK, Waiting
    <2>2. LeasedIsDue' /\ RecordWasSent' /\ PutOffOnlyIfSent'
      BY <1>13, JobAtHand, OwnersAssumption DEF Record, TypeOK, Waiting, LeasedIsDue,
         RecordWasSent, PutOffOnlyIfSent
    <2> QED BY <2>1, <2>2
  <1>14. ASSUME NEW r \in Reconcilers, Release(r) PROVE DispatchInv'
    <2>1. TypeOK'
      BY <1>14 DEF Release, TypeOK, Waiting
    <2>2. LeasedIsDue' /\ RecordWasSent' /\ PutOffOnlyIfSent'
      BY <1>14, OwnersAssumption DEF Release, TypeOK, Waiting, LeasedIsDue, RecordWasSent,
         PutOffOnlyIfSent
    <2> QED BY <2>1, <2>2
  <1>15. ASSUME NEW r \in Reconcilers, StoreFails(r) PROVE DispatchInv'
    <2>1. TypeOK'
      BY <1>15, FaultType DEF StoreFails, TypeOK, Waiting
    <2>2. LeasedIsDue' /\ RecordWasSent' /\ PutOffOnlyIfSent'
      BY <1>15, OwnersAssumption DEF StoreFails, TypeOK, Waiting, LeasedIsDue, RecordWasSent,
         PutOffOnlyIfSent
    <2> QED BY <2>1, <2>2
  <1>16. ASSUME NEW r \in Reconcilers, Crash(r) PROVE DispatchInv'
    <2>1. TypeOK'
      BY <1>16, FaultType DEF Crash, TypeOK, Waiting
    <2>2. LeasedIsDue' /\ RecordWasSent' /\ PutOffOnlyIfSent'
      BY <1>16, OwnersAssumption DEF Crash, TypeOK, Waiting, LeasedIsDue, RecordWasSent,
         PutOffOnlyIfSent
    <2> QED BY <2>1, <2>2
  <1>17. CASE UNCHANGED vars
    <2>1. TypeOK'
      BY <1>17 DEF vars, TypeOK, Waiting
    <2>2. LeasedIsDue' /\ RecordWasSent' /\ PutOffOnlyIfSent'
      BY <1>17, OwnersAssumption DEF vars, TypeOK, Waiting, LeasedIsDue, RecordWasSent,
         PutOffOnlyIfSent
    <2> QED BY <2>1, <2>2
  <1> QED BY <1>1, <1>2, <1>3, <1>4, <1>5, <1>6, <1>7, <1>8, <1>9, <1>10, <1>11, <1>12, <1>13,
             <1>14, <1>15, <1>16, <1>17 DEF Next, Reconcile

-----------------------------------------------------------------------------
(* The theorems. *)

\* The invariant holds in every reachable state.
THEOREM DispatchInvariant == Spec => []DispatchInv
  BY InitInv, StepInv, PTL DEF Spec

\* Types are kept; a reconciler that publishes, records or releases has a
\* batch to do it with, whatever call failed before.
THEOREM TypeCorrect == Spec => []TypeOK
  <1>1. DispatchInv => TypeOK
    BY DEF DispatchInv
  <1> QED BY <1>1, DispatchInvariant, PTL

\* No reconciler, however late, puts off a dispatch that nobody sent.
THEOREM NothingPutOffUnsent == Spec => []PutOffOnlyIfSent
  <1>1. DispatchInv => PutOffOnlyIfSent
    BY DEF DispatchInv
  <1> QED BY <1>1, DispatchInvariant, PTL

=============================================================================
