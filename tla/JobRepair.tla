------------------------------ MODULE JobRepair ------------------------------
(***************************************************************************)
(* The job queue together with the "inconsistent_jobs" phase of            *)
(* backend/src/ops/resumable-repair.service.ts, which puts jobs with a     *)
(* stale lease back in the queue.  A batch is one SELECT, followed by one  *)
(* UPDATE per row it returned, while the workers go on.  The database's    *)
(* clock is the slowest one.  The other repairs of the phase concern rows  *)
(* whose completed_at contradicts their status, which the queue never      *)
(* writes.  Rows of one batch are independent: their order is left open.   *)
(***************************************************************************)
EXTENDS JobQueue

VARIABLE batch   \* rows of the SELECT that are still to be processed

repairVars == <<vars, batch>>

RepairInit == Init /\ batch = {}

(* WHERE status = 'running' AND locked_until < NOW() *)
SelectStale ==
  /\ batch = {}
  /\ batch' = {j \in Jobs : row[j].status = "running" /\ row[j].lockedUntil < now}
  /\ UNCHANGED vars

(* UPDATE jobs SET status = 'queued', ... WHERE id = $1 AND status = 'running'; *)
(* an error is counted and the next row follows.                                *)
RequeueStale(j) ==
  /\ j \in batch
  /\ batch' = batch \ {j}
  /\ row' = IF row[j].status = "running"
            THEN [row EXCEPT ![j] = [Unlocked(@) EXCEPT !.status = "queued"]] ELSE row
  /\ UNCHANGED <<now, work, requeues>>

(* The UPDATE failed, or the repair is a dry run. *)
RepairFails(j) == j \in batch /\ batch' = batch \ {j} /\ UNCHANGED vars

RepairNext ==
  \/ Next /\ UNCHANGED batch
  \/ SelectStale
  \/ \E j \in Jobs : RequeueStale(j) \/ RepairFails(j)

RepairSpec == RepairInit /\ [][RepairNext]_repairVars

(* The workers are fair; nothing makes a repair run. *)
RepairFairSpec == RepairSpec /\ \A w \in Workers : WF_repairVars(WorkerStep(w) /\ UNCHANGED batch)

---------------------------------------------------------------------------
(* Properties *)

(* Fencing survives the repair: a job succeeds or dies only by the report of *)
(* its last claim, also when it was put back in the queue under a worker     *)
(* that still runs it.                                                       *)
OutcomeIsOfTheLastClaim ==
  [][\A j \in Jobs :
       row[j].status # row'[j].status /\ row'[j].status \in {"succeeded", "dead"} =>
         \E w \in Workers :
           /\ work[w].pc \in {"succeed", "fail"} /\ work[w].job = j
           /\ row[j].lockedBy = w /\ ~work[w].lost]_repairVars

(* "How long a claimed job is held before another worker may reclaim it."    *)
(* (leaseMs, worker.ts:57).  Not so beside a repair: the UPDATE does not     *)
(* look at locked_until again, and takes a job from the worker that claimed  *)
(* it after the SELECT.                                                      *)
HeldDespiteRepair == HeldForTheLease

(* What is left of JobInv beside a repair, which may take the row from a     *)
(* worker that has not lost its job: a worker that has lost it never holds   *)
(* its row again.                                                            *)
Fenced(w) ==
  Working(w) => /\ work[w].job \in Jobs /\ work[w].attempts > 0
                /\ work[w].lost => ~Holds(w)

RepairInv == TypeOK /\ batch \subseteq Jobs /\ \A w \in Workers : Fenced(w)
=============================================================================
