---------------------------- MODULE Backpressure ----------------------------
(***************************************************************************)
(* Admission to the job queue: BackpressureController and                  *)
(* BoundedBackpressureQueue of backend/src/jobs/backpressure.ts, in one    *)
(* process with several callers.  enqueue awaits the counts of the store,  *)
(* decides and books the cost in one go, and awaits the INSERT: callers    *)
(* decide on counts that others have made stale.                           *)
(*                                                                         *)
(* Of the store only the number of queued or running jobs matters.  No     *)
(* code of the repository calls releaseJob, so nothing here does.  The     *)
(* delay of a refusal is left out.                                         *)
(***************************************************************************)
EXTENDS Integers, FiniteSets

CONSTANTS
  Callers,                       \* concurrent calls of enqueue
  Costs,                         \* values of getJobCost
  MaxQueueDepth, HighWatermark, LowWatermark, EmergencyLimit,
  MaxWorkloadCost,
  MaxBooked                      \* bound of the model: cost booked before the last call

(* validateConfig, and the rounding of the watermarks *)
ASSUME BackpressureConstants ==
  /\ IsFiniteSet(Callers) /\ Costs \subseteq Nat
  /\ {MaxQueueDepth, HighWatermark, LowWatermark, EmergencyLimit} \subseteq Nat
  /\ 0 < MaxQueueDepth /\ Callers # {}
  /\ LowWatermark <= HighWatermark /\ HighWatermark <= MaxQueueDepth
  /\ MaxQueueDepth <= EmergencyLimit
  /\ MaxWorkloadCost \in Nat /\ MaxBooked \in Nat

VARIABLES
  depth,       \* queued and running jobs in the store
  state,       \* of the controller
  currentCost,
  call         \* call[c]: a running enqueue or getMetrics

vars == <<depth, state, currentCost, call>>

Priorities == {"PRIVILEGED", "HIGH", "NORMAL"}   \* LOW is treated as NORMAL
Kinds == Priorities \union {"METRICS"}           \* getMetrics, or enqueue with a priority
NoCall == [pc |-> "idle", kind |-> "NORMAL", cost |-> 0, depth |-> 0]

Init ==
  /\ depth = 0 /\ state = "NORMAL" /\ currentCost = 0
  /\ call = [c \in Callers |-> NoCall]

(* enqueue or getMetrics is called and awaits store.counts() *)
Call(c) ==
  /\ call[c].pc = "idle" /\ currentCost < MaxBooked
  /\ \E p \in Kinds, k \in Costs :
       call' = [call EXCEPT ![c] = [NoCall EXCEPT !.pc = "count", !.kind = p, !.cost = k]]
  /\ UNCHANGED <<depth, state, currentCost>>

Count(c) ==
  /\ call[c].pc = "count"
  /\ call' = [call EXCEPT ![c] = [@ EXCEPT !.pc = "check", !.depth = depth]]
  /\ UNCHANGED <<depth, state, currentCost>>

UpdateState(d) ==
  IF d >= MaxQueueDepth THEN "REJECTING"
  ELSE IF d >= HighWatermark THEN "DEGRADED"
  ELSE IF d <= LowWatermark THEN "NORMAL" ELSE state

(* Mutant: the ceiling of privileged callers is passed by one *)
BadCheckAdmission(p, k, d) ==
  IF p = "PRIVILEGED" THEN
    IF d > EmergencyLimit THEN "EMERGENCY_BUFFER_EXHAUSTED" ELSE "admitted"
  ELSE IF d >= MaxQueueDepth THEN "QUEUE_CAPACITY_EXCEEDED"
  ELSE IF currentCost + k > MaxWorkloadCost THEN "WORKLOAD_BUDGET_EXCEEDED"
  ELSE IF UpdateState(d) = "DEGRADED" /\ p # "HIGH" THEN "HIGH_WATERMARK_LOAD_SHEDDING"
  ELSE "admitted"

CheckAdmission(p, k, d) ==
  IF p = "PRIVILEGED" THEN
    IF d >= EmergencyLimit THEN "EMERGENCY_BUFFER_EXHAUSTED" ELSE "admitted"
  ELSE IF d >= MaxQueueDepth THEN "QUEUE_CAPACITY_EXCEEDED"
  ELSE IF currentCost + k > MaxWorkloadCost THEN "WORKLOAD_BUDGET_EXCEEDED"
  ELSE IF UpdateState(d) = "DEGRADED" /\ p # "HIGH" THEN "HIGH_WATERMARK_LOAD_SHEDDING"
  ELSE "admitted"

Check(c) ==
  LET answer == CheckAdmission(call[c].kind, call[c].cost, call[c].depth) IN
  /\ call[c].pc = "check" /\ call[c].kind # "METRICS"
  /\ state' = UpdateState(call[c].depth)
  /\ IF answer = "admitted"
     THEN /\ currentCost' = currentCost + call[c].cost
          /\ call' = [call EXCEPT ![c] = [@ EXCEPT !.pc = "insert"]]
     ELSE /\ UNCHANGED currentCost
          /\ call' = [call EXCEPT ![c] = NoCall]
  /\ UNCHANGED depth

Metrics(c) ==
  /\ call[c].pc = "check" /\ call[c].kind = "METRICS"
  /\ state' = UpdateState(call[c].depth)
  /\ call' = [call EXCEPT ![c] = NoCall]
  /\ UNCHANGED <<depth, currentCost>>

(* queue.enqueue inserts a job, finds the idempotency key taken, or throws. *)
Insert(c) ==
  /\ call[c].pc = "insert"
  /\ depth' \in {depth, depth + 1}
  /\ call' = [call EXCEPT ![c] = NoCall]
  /\ UNCHANGED <<state, currentCost>>

(* Mutant: a job is reported twice *)
BadComplete ==
  depth' = depth - 1 /\ UNCHANGED <<state, currentCost, call>>

(* A worker finishes a job. *)
Complete ==
  /\ depth > 0 /\ depth' = depth - 1
  /\ UNCHANGED <<state, currentCost, call>>

Next ==
  \/ \E c \in Callers : Call(c) \/ Count(c) \/ Check(c) \/ Metrics(c) \/ Insert(c)
  \/ Complete

Spec == Init /\ [][Next]_vars

---------------------------------------------------------------------------
(* Properties *)

(* The state of the controller and its callers has its type. *)
TypeOK ==
  /\ depth \in Nat /\ currentCost \in Nat
  /\ state \in {"NORMAL", "DEGRADED", "REJECTING"}
  /\ call \in [Callers -> [pc : {"idle", "count", "check", "insert"}, kind : Kinds,
                           cost : Nat, depth : Nat]]

(* Callers that counted before the others inserted may pass the ceiling of   *)
(* 120 percent that checkAdmission sets, but by one job for each caller but  *)
(* one: the queue stays bounded although count, check and INSERT are three   *)
(* steps.                                                                    *)
Committed ==
  {c \in Callers :
     \/ call[c].pc = "insert"
     \/ call[c].pc = "check" /\ call[c].kind # "METRICS" /\ call[c].depth < EmergencyLimit}
OvershootIsBounded ==
  depth + Cardinality(Committed) <= EmergencyLimit - 1 + Cardinality(Callers)

=============================================================================
