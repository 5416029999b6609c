---------------------------- MODULE MCGpuWorkers ----------------------------
(* Two workers that share a lock directory or have one each.  The names of *)
(* the directories do not matter, so one worker's is fixed; a claim changes *)
(* nothing but the worker that has it, so one worker has claims.           *)
EXTENDS GpuWorkers

CONSTANTS First, Home

MCInit == Init /\ directory[First] = Home

MCNext == Next /\ \A w \in Workers \ {First} : proc'[w].claim = "none"

MCSpec == MCInit /\ [][MCNext]_vars /\ Fairness
=============================================================================
