------------------------- MODULE ClaimManagerProofs -------------------------
(***************************************************************************)
(* Proofs about a worker's claim registry, for every number of dispatches  *)
(* and every concurrency limit.  The registry's counters are tied to the   *)
(* positions of the coroutines; a heartbeat batch is tied to coroutines    *)
(* that can never claim again, so that what the store refused to renew     *)
(* stays refused while the answer travels.                                 *)
(***************************************************************************)
EXTENDS ClaimManager, FiniteSetTheorems, TLAPS

Claimers == {d \in Dispatches : pc[d] \in Claiming}
Executing == {d \in Dispatches : pc[d] \in Registered}

\* A claim that a heartbeat batch names was registered when the batch was
\* made; it may have been released since, but its coroutine does not start
\* again.
BatchClaimedBefore == \A d \in batch : pc[d] \in Registered \cup {"done"}

\* What the store did not renew it will never renew for this worker.
UnrenewedForGood ==
    monitor = "answered" =>
        \A d \in batch \ answer.renewed : ~(row[d] \in Owned /\ live[d])

ManagerInv ==
    /\ TypeOK /\ RegistryIsExact /\ ActiveWithinLimit /\ LostForGood
    /\ BatchClaimedBefore /\ UnrenewedForGood

-----------------------------------------------------------------------------
(* Sets of coroutines. *)

\* One coroutine moves: the sets of claiming and of registered coroutines
\* gain or lose at most that one.
LEMMA CoroutineMoves ==
    ASSUME TypeOK, NEW d \in Dispatches, NEW at, pc' = [pc EXCEPT ![d] = at]
    PROVE  /\ Claimers' = IF at \in Claiming THEN Claimers \cup {d} ELSE Claimers \ {d}
           /\ Executing' = IF at \in Registered THEN Executing \cup {d} ELSE Executing \ {d}
  BY DEF TypeOK, Claimers, Executing

\* A finite set with or without one element.
LEMMA CountByOne ==
    ASSUME NEW S, IsFiniteSet(S), NEW x
    PROVE  /\ Cardinality(S) \in Nat
           /\ x \in S => /\ Cardinality(S) > 0
                         /\ Cardinality(S \cup {x}) = Cardinality(S)
                         /\ Cardinality(S \ {x}) = Cardinality(S) - 1
           /\ x \notin S => /\ Cardinality(S \cup {x}) = Cardinality(S) + 1
                            /\ Cardinality(S \ {x}) = Cardinality(S)
  <1>1. Cardinality(S) \in Nat
    BY FS_CardinalityType
  <1>2. Cardinality(S \cup {x}) = IF x \in S THEN Cardinality(S) ELSE Cardinality(S) + 1
    BY FS_AddElement
  <1>3. Cardinality(S \ {x}) = IF x \in S THEN Cardinality(S) - 1 ELSE Cardinality(S)
    BY FS_RemoveElement
  <1>4. x \in S => Cardinality(S) # 0
    BY FS_EmptySet
  <1> QED BY <1>1, <1>2, <1>3, <1>4

\* The sets that are counted are finite.
LEMMA Finite == TypeOK => IsFiniteSet(Claimers) /\ IsFiniteSet(claims)
  BY DispatchesAssumption, FS_Subset DEF TypeOK, Claimers

-----------------------------------------------------------------------------
(* The invariant is inductive. *)

\* The registry starts empty.
LEMMA InitInv == Init => ManagerInv
  <1> SUFFICES ASSUME Init PROVE ManagerInv
    OBVIOUS
  <1>1. TypeOK
    BY DEF Init, TypeOK, NoAnswer
  <1>2. /\ {d \in Dispatches : pc[d] \in Claiming} = {}
        /\ {d \in Dispatches : pc[d] \in Registered} = {}
    BY DEF Init, Claiming, Registered
  <1>3. RegistryIsExact
    BY <1>2, FS_EmptySet DEF Init, RegistryIsExact
  <1>4. ActiveWithinLimit
    BY FS_EmptySet, MaxActiveAssumption DEF Init, ActiveWithinLimit
  <1> QED BY <1>1, <1>3, <1>4 DEF Init, ManagerInv, LostForGood, BatchClaimedBefore,
             UnrenewedForGood

\* The registry when one coroutine moves without entering or leaving it.
LEMMA QuietMove ==
    ASSUME ManagerInv, NEW d \in Dispatches, NEW at,
           pc' = [pc EXCEPT ![d] = at], pc[d] \in Claiming <=> at \in Claiming,
           pc[d] \in Registered <=> at \in Registered,
           UNCHANGED <<claims, lost, pending>>
    PROVE  RegistryIsExact' /\ ActiveWithinLimit'
  <1>1. Claimers' = Claimers /\ Executing' = Executing
    BY CoroutineMoves DEF ManagerInv, TypeOK, Claimers, Executing
  <1> QED BY <1>1 DEF ManagerInv, RegistryIsExact, ActiveWithinLimit, Claimers, Executing

\* The registry when no coroutine moves.
LEMMA QuietRegistry ==
    ASSUME ManagerInv, UNCHANGED <<pc, claims, pending>>, lost' \subseteq claims
    PROVE  RegistryIsExact' /\ ActiveWithinLimit'
  BY DEF ManagerInv, RegistryIsExact, ActiveWithinLimit

\* What heartbeats concluded survives a step that grants no claim, adds
\* nothing to the lost claims and lets no coroutine start again.
LEMMA QuietHeartbeat ==
    ASSUME ManagerInv,
           \A d \in Dispatches :
              /\ row'[d] \in Owned /\ live'[d] => row[d] \in Owned /\ live[d]
              /\ pc[d] \in Registered \cup {"done"} => pc'[d] \in Registered \cup {"done"},
           lost' \subseteq lost, UNCHANGED monitorVars
    PROVE  LostForGood' /\ BatchClaimedBefore' /\ UnrenewedForGood'
  BY DEF ManagerInv, TypeOK, LostForGood, BatchClaimedBefore, UnrenewedForGood, monitorVars

\* _update_drained_state keeps the types of what it writes.
LEMMA DrainedType ==
    ASSUME TypeOK, NEW p, NEW c, UpdateDrained(p, c)
    PROVE  /\ drained' \in BOOLEAN
           /\ phase' \in {"up", "draining", "woken", "stopped", "closed", "crashed"}
  BY DEF TypeOK, UpdateDrained

\* Every step preserves the invariant.
LEMMA StepInv == ManagerInv /\ [Next]_vars => ManagerInv'
  <1> SUFFICES ASSUME ManagerInv, [Next]_vars PROVE ManagerInv'
    OBVIOUS
  <1> USE DEF ManagerInv
  <1>1. ASSUME NEW d \in Dispatches, Deliver(d) PROVE ManagerInv'
    <2>1. TypeOK'
      BY <1>1 DEF Deliver, TypeOK, Claiming, Registered, vars, storeVars, registryVars,
         monitorVars, Full
    <2>2. RegistryIsExact' /\ ActiveWithinLimit'
      BY <1>1, QuietMove DEF Deliver, TypeOK, Claiming, Registered, registryVars
    <2>3. LostForGood' /\ BatchClaimedBefore' /\ UnrenewedForGood'
      BY <1>1, QuietHeartbeat DEF Deliver, TypeOK, Registered, Owned, storeVars, registryVars,
         monitorVars
    <2> QED BY <2>1, <2>2, <2>3
  <1>2. ASSUME NEW d \in Dispatches, NEW ready \in BOOLEAN, Probe(d, ready) PROVE ManagerInv'
    <2>1. TypeOK'
      BY <1>2, DrainedType DEF Probe, TypeOK, Claiming, storeVars, monitorVars
    <2>2. RegistryIsExact' /\ ActiveWithinLimit'
      <3>1. CASE ready /\ accepting /\ ~Full
        <4>1. Claimers' = Claimers \cup {d} /\ Executing' = Executing /\ d \notin Claimers
          BY <1>2, <3>1, CoroutineMoves DEF Probe, TypeOK, Claimers, Executing, Claiming,
             Registered
        <4>2. /\ Cardinality(Claimers') = Cardinality(Claimers) + 1
              /\ Cardinality(Claimers) \in Nat
          BY <4>1, Finite, CountByOne
        <4>3. Cardinality(claims) \in Nat
          BY Finite, CountByOne
        <4>4. Cardinality(claims) + pending' <= MaxActiveClaims
          BY <1>2, <3>1, <4>3, MaxActiveAssumption DEF Probe, Full, TypeOK
        <4> QED BY <1>2, <3>1, <4>1, <4>2, <4>4
                DEF Probe, RegistryIsExact, ActiveWithinLimit, Claimers, Executing
      <3>2. CASE ~(ready /\ accepting /\ ~Full)
        BY <1>2, <3>2, QuietMove DEF Probe, Claiming, Registered
      <3> QED BY <3>1, <3>2
    <2>3. LostForGood' /\ BatchClaimedBefore' /\ UnrenewedForGood'
      BY <1>2, QuietHeartbeat DEF Probe, TypeOK, Registered, storeVars, monitorVars
    <2> QED BY <2>1, <2>2, <2>3
  <1>3. ASSUME NEW d \in Dispatches, StoreClaims(d) PROVE ManagerInv'
    <2>1. TypeOK'
      BY <1>3 DEF StoreClaims, TypeOK, Claiming, Registered, vars, storeVars, registryVars,
         monitorVars
    <2>2. RegistryIsExact' /\ ActiveWithinLimit'
      BY <1>3, QuietMove DEF StoreClaims, TypeOK, Claiming, Registered, registryVars
    <2>3. LostForGood' /\ BatchClaimedBefore' /\ UnrenewedForGood'
      <3>1. \A e \in Dispatches \ {d} : row'[e] = row[e] /\ live'[e] = live[e] /\ pc'[e] = pc[e]
        BY <1>3 DEF StoreClaims, TypeOK, storeVars
      <3>2. d \notin lost /\ d \notin batch
        BY <1>3 DEF StoreClaims, RegistryIsExact, BatchClaimedBefore, Registered
      <3> QED BY <1>3, <3>1, <3>2
              DEF StoreClaims, TypeOK, LostForGood, BatchClaimedBefore, UnrenewedForGood,
                  registryVars, monitorVars
    <2> QED BY <2>1, <2>2, <2>3
  <1>4. ASSUME NEW d \in Dispatches, ClaimRefused(d) PROVE ManagerInv'
    <2>1. TypeOK'
      <3>1. d \in Claimers
        BY <1>4 DEF ClaimRefused, Claimers, Claiming
      <3>2. Cardinality(Claimers) \in Nat /\ Cardinality(Claimers) > 0
        BY <3>1, Finite, CountByOne
      <3>3. pending - 1 \in Nat
        BY <3>2 DEF RegistryIsExact, Claimers
      <3> QED BY <1>4, <3>3, DrainedType DEF ClaimRefused, TypeOK, Registered, storeVars,
                 monitorVars
    <2>2. RegistryIsExact' /\ ActiveWithinLimit'
      <3>1. Claimers' = Claimers \ {d} /\ Executing' = Executing /\ d \in Claimers
        BY <1>4, CoroutineMoves DEF ClaimRefused, TypeOK, Claimers, Executing, Claiming,
           Registered
      <3>2. /\ Cardinality(Claimers') = Cardinality(Claimers) - 1
            /\ Cardinality(Claimers) \in Nat /\ Cardinality(claims) \in Nat
        BY <3>1, Finite, CountByOne
      <3> QED BY <1>4, <3>1, <3>2, MaxActiveAssumption
              DEF ClaimRefused, RegistryIsExact, ActiveWithinLimit, Claimers, Executing
    <2>3. LostForGood' /\ BatchClaimedBefore' /\ UnrenewedForGood'
      BY <1>4, QuietHeartbeat DEF ClaimRefused, TypeOK, Registered, storeVars, monitorVars
    <2> QED BY <2>1, <2>2, <2>3
  <1>5. ASSUME NEW d \in Dispatches, ClaimReturns(d) PROVE ManagerInv'
    <2>1. TypeOK'
      <3>1. d \in Claimers
        BY <1>5 DEF ClaimReturns, Claimers, Claiming
      <3>2. Cardinality(Claimers) \in Nat /\ Cardinality(Claimers) > 0
        BY <3>1, Finite, CountByOne
      <3>3. pending - 1 \in Nat
        BY <3>2 DEF RegistryIsExact, Claimers
      <3> QED BY <1>5, <3>3, DrainedType DEF ClaimReturns, TypeOK, Registered, storeVars,
                 monitorVars
    <2>2. RegistryIsExact' /\ ActiveWithinLimit'
      <3>1. /\ Claimers' = Claimers \ {d} /\ Executing' = Executing \cup {d}
            /\ d \in Claimers /\ d \notin claims
        BY <1>5, CoroutineMoves
           DEF ClaimReturns, TypeOK, Claimers, Executing, Claiming, Registered, RegistryIsExact
      <3>2. /\ Cardinality(Claimers') = Cardinality(Claimers) - 1
            /\ Cardinality(Claimers) \in Nat
            /\ Cardinality(claims \cup {d}) = Cardinality(claims) + 1 /\ Cardinality(claims) \in Nat
        BY <3>1, Finite, CountByOne
      <3>3. ActiveWithinLimit'
        BY <1>5, <3>2, MaxActiveAssumption DEF ClaimReturns, ActiveWithinLimit, TypeOK
      <3> QED BY <1>5, <3>1, <3>2, <3>3 DEF ClaimReturns, RegistryIsExact, Claimers, Executing
    <2>3. LostForGood' /\ BatchClaimedBefore' /\ UnrenewedForGood'
      BY <1>5, QuietHeartbeat DEF ClaimReturns, TypeOK, Registered, storeVars, monitorVars
    <2> QED BY <2>1, <2>2, <2>3
  <1>6. ASSUME NEW d \in Dispatches, NEW outcome \in {"succeeded", "failed"},
               ExecutionEnds(d, outcome)
        PROVE  ManagerInv'
    <2>1. TypeOK'
      BY <1>6 DEF ExecutionEnds, TypeOK, Claiming, Registered, vars, storeVars, registryVars,
         monitorVars
    <2>2. RegistryIsExact' /\ ActiveWithinLimit'
      BY <1>6, QuietMove DEF ExecutionEnds, TypeOK, Claiming, Registered, registryVars
    <2>3. LostForGood' /\ BatchClaimedBefore' /\ UnrenewedForGood'
      BY <1>6, QuietHeartbeat DEF ExecutionEnds, TypeOK, Registered, Owned, storeVars,
         registryVars, monitorVars
    <2> QED BY <2>1, <2>2, <2>3
  <1>7. ASSUME NEW d \in Dispatches, StorePublishes(d) PROVE ManagerInv'
    <2>1. TypeOK'
      BY <1>7 DEF StorePublishes, TypeOK, Claiming, Registered, vars, storeVars, registryVars,
         monitorVars
    <2>2. RegistryIsExact' /\ ActiveWithinLimit'
      BY <1>7, QuietMove DEF StorePublishes, TypeOK, Claiming, Registered, registryVars
    <2>3. LostForGood' /\ BatchClaimedBefore' /\ UnrenewedForGood'
      BY <1>7, QuietHeartbeat DEF StorePublishes, TypeOK, Registered, Owned, storeVars,
         registryVars, monitorVars
    <2> QED BY <2>1, <2>2, <2>3
  <1>8. ASSUME NEW d \in Dispatches, PublishRefused(d) PROVE ManagerInv'
    <2>1. TypeOK'
      BY <1>8 DEF PublishRefused, TypeOK, Claiming, Registered, vars, storeVars, registryVars,
         monitorVars
    <2>2. RegistryIsExact' /\ ActiveWithinLimit'
      BY <1>8, QuietMove DEF PublishRefused, TypeOK, Claiming, Registered, registryVars
    <2>3. LostForGood' /\ BatchClaimedBefore' /\ UnrenewedForGood'
      BY <1>8, QuietHeartbeat DEF PublishRefused, TypeOK, Registered, Owned, storeVars,
         registryVars, monitorVars
    <2> QED BY <2>1, <2>2, <2>3
  <1>9. ASSUME NEW d \in Dispatches, CleanupCompletes(d) PROVE ManagerInv'
    <2>1. TypeOK'
      BY <1>9 DEF CleanupCompletes, TypeOK, Claiming, Registered, vars, storeVars,
         registryVars, monitorVars
    <2>2. RegistryIsExact' /\ ActiveWithinLimit'
      BY <1>9, QuietMove DEF CleanupCompletes, TypeOK, Claiming, Registered, registryVars
    <2>3. LostForGood' /\ BatchClaimedBefore' /\ UnrenewedForGood'
      BY <1>9, QuietHeartbeat DEF CleanupCompletes, TypeOK, Registered, Owned, storeVars,
         registryVars, monitorVars
    <2> QED BY <2>1, <2>2, <2>3
  <1>10. ASSUME NEW d \in Dispatches, StorePublishesCancelled(d) PROVE ManagerInv'
    <2>1. TypeOK'
      BY <1>10 DEF StorePublishesCancelled, TypeOK, Claiming, Registered, vars, storeVars,
         registryVars, monitorVars
    <2>2. RegistryIsExact' /\ ActiveWithinLimit'
      BY <1>10, QuietMove DEF StorePublishesCancelled, TypeOK, Claiming, Registered,
         registryVars
    <2>3. LostForGood' /\ BatchClaimedBefore' /\ UnrenewedForGood'
      BY <1>10, QuietHeartbeat DEF StorePublishesCancelled, TypeOK, Registered, Owned,
         storeVars, registryVars, monitorVars
    <2> QED BY <2>1, <2>2, <2>3
  <1>11. ASSUME NEW d \in Dispatches, ProcessEnds(d) PROVE ManagerInv'
    <2>1. TypeOK'
      BY <1>11 DEF ProcessEnds, TypeOK, Claiming, Registered, vars, storeVars, registryVars,
         monitorVars, Release, UpdateDrained
    <2>2. RegistryIsExact' /\ ActiveWithinLimit'
      <3>1. Claimers' = Claimers /\ Executing' = Executing \ {d} /\ d \in claims
        BY <1>11, CoroutineMoves
           DEF ProcessEnds, TypeOK, Claimers, Executing, Claiming, Registered, RegistryIsExact
      <3>2. Cardinality(claims \ {d}) = Cardinality(claims) - 1 /\ Cardinality(claims) \in Nat
        BY <3>1, Finite, CountByOne
      <3>3. ActiveWithinLimit'
        BY <1>11, <3>2, MaxActiveAssumption DEF ProcessEnds, Release, ActiveWithinLimit, TypeOK
      <3> QED BY <1>11, <3>1, <3>3 DEF ProcessEnds, Release, RegistryIsExact, Claimers,
                 Executing
    <2>3. LostForGood' /\ BatchClaimedBefore' /\ UnrenewedForGood'
      BY <1>11, QuietHeartbeat DEF ProcessEnds, Release, TypeOK, Registered, storeVars,
         monitorVars
    <2> QED BY <2>1, <2>2, <2>3
  <1>12. ASSUME NEW d \in Dispatches, ClientCancels(d) PROVE ManagerInv'
    <2>1. TypeOK'
      BY <1>12 DEF ClientCancels, TypeOK, Claiming, Registered, vars, storeVars, registryVars,
         monitorVars, coroutineVars, Owned
    <2>2. RegistryIsExact' /\ ActiveWithinLimit'
      BY <1>12, QuietRegistry DEF ClientCancels, RegistryIsExact, coroutineVars, registryVars
    <2>3. LostForGood' /\ BatchClaimedBefore' /\ UnrenewedForGood'
      BY <1>12, QuietHeartbeat DEF ClientCancels, TypeOK, Owned, coroutineVars, registryVars
    <2> QED BY <2>1, <2>2, <2>3
  <1>13. ASSUME NEW d \in Dispatches, LeavesQueue(d) PROVE ManagerInv'
    <2>1. TypeOK'
      BY <1>13 DEF LeavesQueue, TypeOK, Claiming, Registered, vars, storeVars, registryVars,
         monitorVars, coroutineVars, Owned
    <2>2. RegistryIsExact' /\ ActiveWithinLimit'
      BY <1>13, QuietRegistry DEF LeavesQueue, RegistryIsExact, coroutineVars, registryVars
    <2>3. LostForGood' /\ BatchClaimedBefore' /\ UnrenewedForGood'
      BY <1>13, QuietHeartbeat DEF LeavesQueue, TypeOK, Owned, coroutineVars, registryVars
    <2> QED BY <2>1, <2>2, <2>3
  <1>14. ASSUME NEW d \in Dispatches, LeaseLapses(d) PROVE ManagerInv'
    <2>1. TypeOK'
      BY <1>14 DEF LeaseLapses, TypeOK, Claiming, Registered, vars, storeVars, registryVars,
         monitorVars, coroutineVars, Owned
    <2>2. RegistryIsExact' /\ ActiveWithinLimit'
      BY <1>14, QuietRegistry DEF LeaseLapses, RegistryIsExact, coroutineVars, registryVars
    <2>3. LostForGood' /\ BatchClaimedBefore' /\ UnrenewedForGood'
      BY <1>14, QuietHeartbeat DEF LeaseLapses, TypeOK, Owned, coroutineVars, registryVars
    <2> QED BY <2>1, <2>2, <2>3
  <1>15. ASSUME NEW d \in Dispatches, RecoverClaim(d) PROVE ManagerInv'
    <2>1. TypeOK'
      BY <1>15 DEF RecoverClaim, TypeOK, Claiming, Registered, vars, storeVars, registryVars,
         monitorVars, coroutineVars, Owned
    <2>2. RegistryIsExact' /\ ActiveWithinLimit'
      BY <1>15, QuietRegistry DEF RecoverClaim, RegistryIsExact, coroutineVars, registryVars
    <2>3. LostForGood' /\ BatchClaimedBefore' /\ UnrenewedForGood'
      BY <1>15, QuietHeartbeat DEF RecoverClaim, TypeOK, Owned, coroutineVars, registryVars
    <2> QED BY <2>1, <2>2, <2>3
  <1>16. ASSUME MonitorWakes PROVE ManagerInv'
    <2>1. TypeOK'
      BY <1>16 DEF MonitorWakes, TypeOK, Claiming, Registered, vars, storeVars, registryVars,
         monitorVars, coroutineVars, NoAnswer
    <2>2. RegistryIsExact' /\ ActiveWithinLimit'
      BY <1>16, QuietRegistry DEF MonitorWakes, RegistryIsExact, coroutineVars, registryVars
    <2>3. LostForGood' /\ BatchClaimedBefore' /\ UnrenewedForGood'
      BY <1>16 DEF MonitorWakes, TypeOK, Owned, NoAnswer, RegistryIsExact, LostForGood,
         BatchClaimedBefore, UnrenewedForGood, storeVars, coroutineVars, registryVars
    <2> QED BY <2>1, <2>2, <2>3
  <1>17. ASSUME StoreRenews PROVE ManagerInv'
    <2>1. TypeOK'
      BY <1>17 DEF StoreRenews, TypeOK, Claiming, Registered, vars, storeVars, registryVars,
         monitorVars, coroutineVars, NoAnswer
    <2>2. RegistryIsExact' /\ ActiveWithinLimit'
      BY <1>17, QuietRegistry DEF StoreRenews, RegistryIsExact, coroutineVars, registryVars
    <2>3. LostForGood' /\ BatchClaimedBefore' /\ UnrenewedForGood'
      BY <1>17 DEF StoreRenews, TypeOK, Owned, NoAnswer, RegistryIsExact, LostForGood,
         BatchClaimedBefore, UnrenewedForGood, storeVars, coroutineVars, registryVars
    <2> QED BY <2>1, <2>2, <2>3
  <1>18. ASSUME MonitorApplies PROVE ManagerInv'
    <2>1. TypeOK'
      BY <1>18 DEF MonitorApplies, TypeOK, Claiming, Registered, vars, storeVars,
         registryVars, monitorVars, coroutineVars, NoAnswer
    <2>2. RegistryIsExact' /\ ActiveWithinLimit'
      BY <1>18, QuietRegistry DEF MonitorApplies, RegistryIsExact, coroutineVars, registryVars
    <2>3. LostForGood' /\ BatchClaimedBefore' /\ UnrenewedForGood'
      BY <1>18 DEF MonitorApplies, TypeOK, Owned, NoAnswer, RegistryIsExact, LostForGood,
         BatchClaimedBefore, UnrenewedForGood, storeVars, coroutineVars, registryVars
    <2> QED BY <2>1, <2>2, <2>3
  <1>19. ASSUME MonitorFails PROVE ManagerInv'
    <2>1. TypeOK'
      BY <1>19 DEF MonitorFails, TypeOK, Claiming, Registered, vars, storeVars, registryVars,
         monitorVars, coroutineVars, NoAnswer
    <2>2. RegistryIsExact' /\ ActiveWithinLimit'
      BY <1>19, QuietRegistry DEF MonitorFails, RegistryIsExact, coroutineVars, registryVars
    <2>3. LostForGood' /\ BatchClaimedBefore' /\ UnrenewedForGood'
      BY <1>19 DEF MonitorFails, TypeOK, Owned, NoAnswer, RegistryIsExact, LostForGood,
         BatchClaimedBefore, UnrenewedForGood, storeVars, coroutineVars, registryVars
    <2> QED BY <2>1, <2>2, <2>3
  <1>20. ASSUME stop_accepting PROVE ManagerInv'
    <2>1. TypeOK'
      BY <1>20 DEF stop_accepting, TypeOK, Claiming, Registered, vars, storeVars,
         registryVars, monitorVars, coroutineVars
    <2>2. RegistryIsExact' /\ ActiveWithinLimit'
      BY <1>20, QuietRegistry DEF stop_accepting, RegistryIsExact, coroutineVars, registryVars
    <2>3. LostForGood' /\ BatchClaimedBefore' /\ UnrenewedForGood'
      BY <1>20, QuietHeartbeat DEF stop_accepting, TypeOK, storeVars, coroutineVars
    <2> QED BY <2>1, <2>2, <2>3
  <1>21. ASSUME shutdown PROVE ManagerInv'
    <2>1. TypeOK'
      BY <1>21 DEF shutdown, TypeOK, Claiming, Registered, vars, storeVars, registryVars,
         monitorVars, coroutineVars
    <2>2. RegistryIsExact' /\ ActiveWithinLimit'
      BY <1>21, QuietRegistry DEF shutdown, RegistryIsExact, coroutineVars, registryVars
    <2>3. LostForGood' /\ BatchClaimedBefore' /\ UnrenewedForGood'
      BY <1>21, QuietHeartbeat DEF shutdown, TypeOK, storeVars, coroutineVars
    <2> QED BY <2>1, <2>2, <2>3
  <1>22. ASSUME StopMonitor PROVE ManagerInv'
    <2>1. TypeOK'
      BY <1>22 DEF StopMonitor, TypeOK, Claiming, Registered, vars, storeVars, registryVars,
         monitorVars, coroutineVars, NoAnswer
    <2>2. RegistryIsExact' /\ ActiveWithinLimit'
      BY <1>22, QuietRegistry DEF StopMonitor, RegistryIsExact, coroutineVars, registryVars
    <2>3. LostForGood' /\ BatchClaimedBefore' /\ UnrenewedForGood'
      BY <1>22 DEF StopMonitor, LostForGood, BatchClaimedBefore, UnrenewedForGood, storeVars,
         coroutineVars, registryVars
    <2> QED BY <2>1, <2>2, <2>3
  <1>23. ASSUME NEW end \in {"closed", "crashed"}, Vanish(end) PROVE ManagerInv'
    <2>1. TypeOK'
      BY <1>23 DEF Vanish, TypeOK, NoAnswer, storeVars
    <2>2. Claimers' = {} /\ Executing' = {}
      BY <1>23 DEF Vanish, TypeOK, Claimers, Executing, Claiming, Registered
    <2>3. RegistryIsExact' /\ ActiveWithinLimit'
      BY <1>23, <2>2, FS_EmptySet, MaxActiveAssumption
         DEF Vanish, RegistryIsExact, ActiveWithinLimit, Claimers, Executing
    <2>4. LostForGood' /\ BatchClaimedBefore' /\ UnrenewedForGood'
      BY <1>23 DEF Vanish, LostForGood, BatchClaimedBefore, UnrenewedForGood
    <2> QED BY <2>1, <2>3, <2>4
  <1>24. CASE UNCHANGED vars
    <2>1. TypeOK'
      BY <1>24 DEF TypeOK, vars, storeVars, coroutineVars, registryVars, monitorVars
    <2>2. RegistryIsExact' /\ ActiveWithinLimit'
      BY <1>24, QuietRegistry DEF RegistryIsExact, vars, coroutineVars, registryVars
    <2>3. LostForGood' /\ BatchClaimedBefore' /\ UnrenewedForGood'
      BY <1>24, QuietHeartbeat DEF vars, storeVars, coroutineVars, registryVars
    <2> QED BY <2>1, <2>2, <2>3
  <1> QED
    BY <1>1, <1>2, <1>3, <1>4, <1>5, <1>6, <1>7, <1>8, <1>9, <1>10, <1>11, <1>12, <1>13,
       <1>14, <1>15, <1>16, <1>17, <1>18, <1>19, <1>20, <1>21, <1>22, <1>23, <1>24
       DEF Next, Coroutine, Environment, Monitor, CloseLoop, Crash

-----------------------------------------------------------------------------
(* Theorems. *)

\* The invariant holds in every reachable state.
THEOREM ManagerInvariant == Spec => []ManagerInv
  BY InitInv, StepInv, PTL DEF Spec

\* Every variable of the claim manager keeps its type.
THEOREM TypeCorrect == Spec => []TypeOK
  <1>1. ManagerInv => TypeOK
    BY DEF ManagerInv
  <1> QED BY <1>1, ManagerInvariant, PTL

\* claim() never admits more executions than the worker's concurrency,
\* registered or in flight.
THEOREM LimitHolds == Spec => []ActiveWithinLimit
  <1>1. ManagerInv => ActiveWithinLimit
    BY DEF ManagerInv
  <1> QED BY <1>1, ManagerInvariant, PTL

\* _claims and _pending_claims agree with the coroutines at every await.
THEOREM RegistryExact == Spec => []RegistryIsExact
  <1>1. ManagerInv => RegistryIsExact
    BY DEF ManagerInv
  <1> QED BY <1>1, ManagerInvariant, PTL

\* _ownership_lost names only claims the store will never honour again.
THEOREM LossIsFinal == Spec => []LostForGood
  <1>1. ManagerInv => LostForGood
    BY DEF ManagerInv
  <1> QED BY <1>1, ManagerInvariant, PTL

\* Once stop_accepting() has run, claim() begins no store call.
THEOREM StopIsFinal == Spec => NothingClaimedAfterStop
  <1>1. ManagerInv /\ [Next]_vars => [~accepting => pending' <= pending]_vars
    <2> SUFFICES ASSUME ManagerInv, Next, ~accepting PROVE pending' <= pending
      BY DEF vars, storeVars, coroutineVars, registryVars
    <2>1. pending \in Nat
      BY DEF ManagerInv, TypeOK
    <2>2. ASSUME NEW d \in Dispatches, Deliver(d) \/ Environment(d) PROVE pending' = pending
      BY <2>2 DEF Deliver, Environment, ClientCancels, LeavesQueue, LeaseLapses, RecoverClaim,
                  registryVars
    <2>3. ASSUME NEW d \in Dispatches, Coroutine(d) PROVE pending' \in {pending, pending - 1}
      BY <2>3 DEF Coroutine, Probe, StoreClaims, ClaimRefused, ClaimReturns, ExecutionEnds,
                  StorePublishes, PublishRefused, CleanupCompletes, StorePublishesCancelled,
                  ProcessEnds, Release, registryVars
    <2>4. CASE Monitor \/ stop_accepting \/ shutdown \/ StopMonitor
      BY <2>1, <2>4 DEF Monitor, MonitorWakes, StoreRenews, MonitorApplies, MonitorFails,
                        stop_accepting, shutdown, StopMonitor, registryVars
    <2>5. CASE CloseLoop \/ Crash
      BY <2>1, <2>5 DEF CloseLoop, Crash, Vanish
    <2> QED BY <2>1, <2>2, <2>3, <2>4, <2>5 DEF Next
  <1> QED BY <1>1, ManagerInvariant, PTL DEF Spec, NothingClaimedAfterStop
=============================================================================
