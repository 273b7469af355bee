----------------------------- MODULE MCJobQueue -----------------------------
(***************************************************************************)
(* Small instances of the job queue, with and without repairs.             *)
(***************************************************************************)
EXTENDS JobRepair, TLC

CONSTANTS w1, w2, BaseDelay, BackoffFactor, MaxDelay

(* computeBackoffMs *)
ComputeBackoff(attempt) ==
  LET exp == BaseDelay * BackoffFactor ^ (IF attempt > 1 THEN attempt - 1 ELSE 0)
  IN  IF exp < MaxDelay THEN exp ELSE MaxDelay

MCBackoff == [a \in 1..MaxAttempts |-> ComputeBackoff(a)]
MCSkew == [w \in Workers |-> IF w = w1 THEN 0 ELSE 1]
JobSymmetry == Permutations(Jobs)

(* The queue alone: no repair ever runs. *)
AloneSpec == RepairInit /\ [][Next /\ UNCHANGED batch]_repairVars
=============================================================================
