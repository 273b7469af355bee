------------------------------ MODULE JobQueue ------------------------------
(***************************************************************************)
(* The background jobs of backend/src/jobs: the jobs table, as the         *)
(* statements of postgres-job-store.ts change it, the workers of worker.ts *)
(* that claim a job under a lease and report its outcome, the scheduler of *)
(* runtime.ts and the maintainer's requeue of a dead job.                  *)
(*                                                                         *)
(* A worker passes its own clock to every statement; Skew[w] is how far it *)
(* is ahead of the slowest clock, which is now.  All workers register the  *)
(* same handlers, so the filter on job types is left out.  A worker that   *)
(* restarts has a fresh workerId: it is another member of Workers.         *)
(*                                                                         *)
(* work[w].until and work[w].lost are history: the end of the lease the    *)
(* worker was given, and whether its job has been claimed again since.     *)
(***************************************************************************)
EXTENDS Integers

CONSTANTS
  Jobs,          \* ids of jobs
  Workers,       \* ids of workers
  MaxAttempts,   \* retryPolicy.maxAttempts
  Backoff,       \* Backoff[a]: computeBackoffMs(retryPolicy, a)
  Lease,         \* leaseMs
  Interval,      \* EXPIRY_SWEEP_INTERVAL_MS
  Delays,        \* how far in the future options.runAt may lie
  Skew,          \* Skew[w]: clock of w minus the slowest clock
  MaxTime, MaxRequeues   \* bounds of the model

ASSUME JobConstants ==
  /\ "none" \notin Workers \union Jobs
  /\ MaxAttempts \in Nat \ {0}
  /\ Backoff \in [1..MaxAttempts -> Nat]
  /\ Lease \in Nat \ {0} /\ Interval \in Nat \ {0}
  /\ Delays \subseteq Nat
  /\ Skew \in [Workers -> Nat]
  /\ MaxTime \in Nat /\ MaxRequeues \in Nat

VARIABLES now, row, work, requeues

vars == <<now, row, work, requeues>>

NoKey == -1        \* no idempotency key; a key is the bucket of a sweep
NoWorker == "none" \* locked_by IS NULL
NoJob == "none"    \* a worker between two jobs
NoRetry == -1      \* retryAt = null: to the dead letters

Clock(w) == now + Skew[w]

AbsentRow == [status |-> "absent", attempts |-> 0, runAt |-> 0, createdAt |-> 0,
              lockedUntil |-> 0, lockedBy |-> NoWorker, key |-> NoKey]

Idle == [pc |-> "idle", job |-> NoJob, attempts |-> 0, until |-> 0,
         retryAt |-> NoRetry, lost |-> FALSE]

Init ==
  /\ now = 0 /\ requeues = 0
  /\ row = [j \in Jobs |-> AbsentRow]
  /\ work = [w \in Workers |-> Idle]

---------------------------------------------------------------------------
(* Enqueueing *)

(* Mutant: an index on the key that is not unique *)
BadKeyUnused(k) == TRUE

(* ON CONFLICT (idempotency_key) DO NOTHING: otherwise the job exists already *)
KeyUnused(k) == k = NoKey \/ \A j \in Jobs : row[j].key # k

(* queue.enqueue without a key, or scheduleExpirySweep, whose key is the   *)
(* number of the current interval, in the process of worker w.             *)
Enqueue(w, j) ==
  /\ row[j].status = "absent"
  /\ \E k \in {NoKey, Clock(w) \div Interval}, d \in Delays :
       /\ KeyUnused(k)
       /\ row' = [row EXCEPT ![j] = [AbsentRow EXCEPT !.status = "queued",
                    !.runAt = Clock(w) + d, !.createdAt = Clock(w), !.key = k]]
  /\ UNCHANGED <<now, work, requeues>>

(* requeueDead, from POST /jobs/:id/retry *)
RequeueDead(w, j) ==
  /\ row[j].status = "dead" /\ requeues < MaxRequeues
  /\ row' = [row EXCEPT ![j] = [@ EXCEPT !.status = "queued", !.attempts = 0,
                 !.runAt = Clock(w)]]
  /\ requeues' = requeues + 1
  /\ UNCHANGED <<now, work>>

---------------------------------------------------------------------------
(* A worker: claimNext, the handler, markSucceeded or markFailed.  A        *)
(* statement may fail without effect, or take effect and lose its reply.    *)

(* Mutants: a lease is not waited for; a lease that ran out is not noticed *)
BadDueLease(w, j) ==
  row[j].status \in {"queued", "running"} /\ row[j].runAt <= Clock(w)
BadDueQueued(w, j) == row[j].status = "queued" /\ row[j].runAt <= Clock(w)

Due(w, j) ==
  \/ row[j].status = "queued" /\ row[j].runAt <= Clock(w)
  \/ row[j].status = "running" /\ row[j].lockedUntil <= Clock(w)

(* ORDER BY run_at, created_at LIMIT 1 *)
NoLater(i, j) ==
  \/ row[i].runAt < row[j].runAt
  \/ row[i].runAt = row[j].runAt /\ row[i].createdAt <= row[j].createdAt

Next1(w, j) == Due(w, j) /\ \A i \in Jobs : Due(w, i) => NoLater(j, i)

Working(w) == work[w].pc \in {"handler", "succeed", "fail"}

(* The other workers that still run job j have lost it. *)
Supersede(j) ==
  [v \in Workers |->
     IF Working(v) /\ work[v].job = j THEN [work[v] EXCEPT !.lost = TRUE] ELSE work[v]]

Claim(w) ==
  /\ work[w].pc = "idle"
  /\ \E j \in Jobs :
       /\ Next1(w, j)
       /\ row' = [row EXCEPT ![j] = [@ EXCEPT !.status = "running",
                    !.attempts = row[j].attempts + 1,
                    !.lockedBy = w, !.lockedUntil = Clock(w) + Lease]]
       /\ \/ work' = [Supersede(j) EXCEPT ![w] =
                        [pc |-> "handler", job |-> j, attempts |-> row[j].attempts + 1,
                         until |-> Clock(w) + Lease, retryAt |-> NoRetry, lost |-> FALSE]]
          \/ work' = Supersede(j)   \* the reply is lost
  /\ UNCHANGED <<now, requeues>>

(* handleFailure up to its statement *)
RetryAt(w) ==
  IF work[w].attempts >= MaxAttempts THEN NoRetry ELSE Clock(w) + Backoff[work[w].attempts]

ToFail(w, retryAt) ==
  work' = [work EXCEPT ![w] = [@ EXCEPT !.pc = "fail", !.retryAt = retryAt]]

(* Mutant: "ticking" is only reset when drain succeeds *)
BadToIdle(w) == work' = [work EXCEPT ![w] = [Idle EXCEPT !.pc = "ticking"]]

ToIdle(w) == work' = [work EXCEPT ![w] = Idle]

(* The handler returns, throws, or throws a NonRetryableJobError. *)
HandlerEnds(w) ==
  /\ work[w].pc = "handler"
  /\ \/ work' = [work EXCEPT ![w] = [@ EXCEPT !.pc = "succeed"]]
     \/ \E retryAt \in {RetryAt(w), NoRetry} : ToFail(w, retryAt)
  /\ UNCHANGED <<now, row, requeues>>

(* Mutant: WHERE id = $1 AND status = 'running' *)
BadHolds(w) == row[work[w].job].status = "running"

(* WHERE id = $1 AND status = 'running' AND locked_by = $2 *)
Holds(w) == row[work[w].job].status = "running" /\ row[work[w].job].lockedBy = w

(* Mutant: locked_by is kept *)
BadUnlocked(r) == [r EXCEPT !.lockedUntil = 0]

Unlocked(r) == [r EXCEPT !.lockedBy = NoWorker, !.lockedUntil = 0]

(* An exception of markSucceeded is handled like one of the handler. *)
MarkSucceeded(w) ==
  /\ work[w].pc = "succeed"
  /\ \/ /\ Holds(w)
        /\ row' = [row EXCEPT ![work[w].job] = [Unlocked(@) EXCEPT !.status = "succeeded"]]
        /\ ToIdle(w) \/ ToFail(w, RetryAt(w))
     \/ ~Holds(w) /\ ToIdle(w) /\ UNCHANGED row
     \/ ToFail(w, RetryAt(w)) /\ UNCHANGED row
  /\ UNCHANGED <<now, requeues>>

(* Whatever becomes of the statement, drain goes on or is started again. *)
MarkFailed(w) ==
  /\ work[w].pc = "fail"
  /\ \/ /\ Holds(w)
        /\ row' = [row EXCEPT ![work[w].job] =
             IF work[w].retryAt = NoRetry THEN [Unlocked(@) EXCEPT !.status = "dead"]
             ELSE [Unlocked(@) EXCEPT !.status = "queued", !.runAt = work[w].retryAt]]
     \/ UNCHANGED row
  /\ ToIdle(w)
  /\ UNCHANGED <<now, requeues>>

WorkerStep(w) == Claim(w) \/ HandlerEnds(w) \/ MarkSucceeded(w) \/ MarkFailed(w)

(* The process dies, or is stopped without waiting for its job. *)
Crash(w) ==
  /\ work[w].pc # "gone"
  /\ work' = [work EXCEPT ![w] = [Idle EXCEPT !.pc = "gone"]]
  /\ UNCHANGED <<now, row, requeues>>

Tick == now < MaxTime /\ now' = now + 1 /\ UNCHANGED <<row, work, requeues>>

Next ==
  \/ \E w \in Workers :
       \/ WorkerStep(w) \/ Crash(w)
       \/ \E j \in Jobs : Enqueue(w, j) \/ RequeueDead(w, j)
  \/ Tick

Spec == Init /\ [][Next]_vars

---------------------------------------------------------------------------
(* Properties *)

RowType ==
  [status : {"absent", "queued", "running", "succeeded", "dead"}, attempts : Nat,
   runAt : Nat, createdAt : Nat, lockedUntil : Nat, lockedBy : Workers \union {NoWorker},
   key : Nat \union {NoKey}]
WorkType ==
  [pc : {"idle", "handler", "succeed", "fail", "gone"}, job : Jobs \union {NoJob}, attempts : Nat,
   until : Nat, retryAt : Nat \union {NoRetry}, lost : BOOLEAN]

(* The columns of the jobs table and the state of a worker have their types, *)
(* and a row is locked exactly while it is running.                          *)
TypeOK ==
  /\ now \in Nat /\ requeues \in Nat
  /\ row \in [Jobs -> RowType]
  /\ work \in [Workers -> WorkType]
  /\ \A j \in Jobs : row[j].status = "running" <=> row[j].lockedBy # NoWorker

(* "A worker that lost its lease cannot mark the job succeeded or failed"    *)
(* (docs/JOBS.md:19): a running job is only ended by the worker of its last  *)
(* claim, however late the reports of earlier ones arrive.                   *)
OnlyTheLastClaimReports ==
  [][\A j \in Jobs :
       row[j].status = "running" /\ row'[j].status # "running" =>
         \E w \in Workers :
           /\ work[w].pc \in {"succeed", "fail"} /\ work[w].job = j
           /\ row[j].lockedBy = w /\ ~work[w].lost]_vars

(* A job is not claimed away from its worker before the lease has run out on *)
(* some worker's clock (leaseMs in worker.ts).                               *)
HeldForTheLease ==
  \A w \in Workers : Working(w) /\ work[w].lost =>
    \E v \in Workers : work[w].until <= Clock(v)

(* Any number of schedulers enqueue one sweep per interval                   *)
(* (the comment of scheduleExpirySweep in runtime.ts).                       *)
OneSweepPerInterval ==
  \A i, j \in Jobs : row[i].key # NoKey /\ row[i].key = row[j].key => i = j

(* "Total attempts allowed, including the first one." (job-types.ts:15).     *)
(* Not so: claimNext takes a job whose lease ran out without looking at its  *)
(* attempts, so a job that outlives its workers runs more often.             *)
AttemptsWithinPolicy == \A j \in Jobs : row[j].attempts <= MaxAttempts

AllGone == \A w \in Workers : work[w].pc = "gone"

(* A job whose time has come is claimed, while some worker is left.          *)
DueJobsAreClaimed ==
  \A j \in Jobs :
    row[j].status = "queued" /\ row[j].runAt <= now ~> row[j].status # "queued" \/ AllGone

(* A job whose worker died does not stay with it: once the lease has run out *)
(* the job is claimed again, or its late worker reports.                     *)
LostLeasesAreRecovered ==
  \A j \in Jobs :
    row[j].status = "running" /\ row[j].lockedUntil <= now ~>
      row[j].status # "running" \/ row[j].lockedUntil > now \/ AllGone

(* The inductive invariant behind the properties above: a worker that has    *)
(* not lost its job holds the row, unless the row has succeeded and only the *)
(* reply of markSucceeded was lost; one that has lost it does not.           *)
HoldsUnlessLost(w) ==
  Working(w) =>
    /\ work[w].job \in Jobs /\ work[w].attempts > 0
    /\ work[w].lost => ~Holds(w) /\ \E v \in Workers : work[w].until <= Clock(v)
    /\ ~work[w].lost =>
         \/ row[work[w].job].status = "succeeded"
         \/ Holds(w) /\ row[work[w].job].lockedUntil = work[w].until

JobInv == TypeOK /\ \A w \in Workers : HoldsUnlessLost(w)
=============================================================================
