--------------------------- MODULE JobQueueProofs ---------------------------
(***************************************************************************)
(* Theorems about JobQueue and JobRepair, for any number of jobs and       *)
(* workers, any retry policy, lease and clock skew.                        *)
(***************************************************************************)
EXTENDS JobRepair, TLAPS

Locked(r) == r.status = "running" <=> r.lockedBy # NoWorker

(* Writing one well-formed row keeps the table well-formed. *)
LEMMA WriteRow ==
  ASSUME TypeOK, NEW j \in Jobs, NEW n \in RowType, Locked(n),
         row' = [row EXCEPT ![j] = n]
  PROVE  row' \in [Jobs -> RowType] /\ \A i \in Jobs : Locked(row'[i])
BY Zenon DEF TypeOK, Locked

(* A step that writes no row keeps their types. *)
LEMMA KeepRow ==
  ASSUME TypeOK, row' = row
  PROVE  row' \in [Jobs -> RowType] /\ \A i \in Jobs : Locked(row'[i])
BY Zenon DEF TypeOK, Locked

(* A worker's clock shows a natural number. *)
LEMMA ClockType == ASSUME TypeOK, NEW w \in Workers PROVE Clock(w) \in Nat
BY JobConstants DEF TypeOK, Clock

(* Unlocking a row keeps its type and its status. *)
LEMMA RowFields ==
  ASSUME TypeOK, NEW j \in Jobs
  PROVE  row[j] \in RowType /\ Unlocked(row[j]) \in RowType
         /\ Unlocked(row[j]).lockedBy = NoWorker
         /\ Unlocked(row[j]).status = row[j].status
BY Zenon DEF TypeOK, RowType, Unlocked

(* What a worker is at has the type of its kind. *)
LEMMA WorkFields == ASSUME TypeOK, NEW w \in Workers PROVE work[w] \in WorkType
BY Zenon DEF TypeOK

(* The backoff gives a time, or no further attempt. *)
LEMMA RetryType ==
  ASSUME TypeOK, NEW w \in Workers, work[w].attempts > 0
  PROVE  RetryAt(w) \in Nat \union {NoRetry}
<1>1. Clock(w) \in Nat /\ work[w].attempts \in Nat
  BY ClockType, WorkFields, Zenon DEF WorkType
<1>2. CASE work[w].attempts >= MaxAttempts
  BY <1>2, Zenon DEF RetryAt
<1>3. CASE ~(work[w].attempts >= MaxAttempts)
  <2>1. work[w].attempts \in 1..MaxAttempts
    BY <1>1, <1>3, JobConstants
  <2>2. Backoff[work[w].attempts] \in Nat
    BY <2>1, JobConstants, Zenon
  <2> QED BY <1>1, <1>3, <2>2 DEF RetryAt
<1> QED BY <1>2, <1>3, Zenon

(* The three ways a worker that runs a job goes on. *)
LEMMA StepOfWork ==
  ASSUME TypeOK, NEW w \in Workers
  PROVE  /\ ToIdle(w) => work' \in [Workers -> WorkType] /\ ~Working(w)'
         /\ \A t \in Nat \union {NoRetry} : ToFail(w, t) =>
              /\ work' \in [Workers -> WorkType]
              /\ work'[w].job = work[w].job /\ work'[w].attempts = work[w].attempts
              /\ work'[w].until = work[w].until /\ work'[w].lost = work[w].lost
              /\ work'[w].pc = "fail"
         /\ (ToIdle(w) \/ \E t : ToFail(w, t)) => \A v \in Workers \ {w} : work'[v] = work[v]
<1>1. work \in [Workers -> WorkType] /\ work[w] \in WorkType
  BY Zenon DEF TypeOK
<1>2. Idle \in WorkType
  BY Zenon DEF Idle, WorkType, NoJob, NoRetry
<1>3. ASSUME ToIdle(w) PROVE work' \in [Workers -> WorkType] /\ ~Working(w)'
  BY <1>1, <1>2, <1>3, Zenon DEF ToIdle, Working, Idle
<1>4. ASSUME NEW t \in Nat \union {NoRetry}, ToFail(w, t)
      PROVE  /\ work' \in [Workers -> WorkType]
             /\ work'[w].job = work[w].job /\ work'[w].attempts = work[w].attempts
             /\ work'[w].until = work[w].until /\ work'[w].lost = work[w].lost
             /\ work'[w].pc = "fail"
  <2> DEFINE n == [work[w] EXCEPT !.pc = "fail", !.retryAt = t]
  <2>1. n \in WorkType /\ n.job = work[w].job /\ n.attempts = work[w].attempts
        /\ n.until = work[w].until /\ n.lost = work[w].lost /\ n.pc = "fail"
    BY <1>1, Zenon DEF WorkType
  <2>2. work' = [work EXCEPT ![w] = n]
    BY <1>4, Zenon DEF ToFail
  <2> HIDE DEF n
  <2> QED BY <1>1, <2>1, <2>2, Zenon
<1>5. ASSUME ToIdle(w) \/ \E t : ToFail(w, t) PROVE \A v \in Workers \ {w} : work'[v] = work[v]
  BY <1>1, <1>5, Zenon DEF ToIdle, ToFail
<1> QED BY <1>3, <1>4, <1>5, Zenon

(* A step that touches neither a worker nor the row of its job. *)
LEMMA Untouched ==
  ASSUME JobInv, NEW w \in Workers, work'[w] = work[w], now \in Nat, now' \in Nat, now' >= now,
         Working(w) => row'[work[w].job] = row[work[w].job]
  PROVE  HoldsUnlessLost(w)'
<1> SUFFICES ASSUME Working(w) PROVE HoldsUnlessLost(w)'
  BY Zenon DEF HoldsUnlessLost, Working
<1>1. HoldsUnlessLost(w) /\ work[w].until \in Nat
  BY WorkFields, Zenon DEF JobInv, WorkType
<1>2. row'[work'[w].job] = row[work[w].job]
  BY Zenon
<1>3. Holds(w)' <=> Holds(w)
  BY <1>2, Zenon DEF Holds
<1>4. \A v \in Workers : work[w].until <= Clock(v) => work[w].until <= Clock(v)'
  BY <1>1, JobConstants DEF Clock
<1> QED BY <1>1, <1>2, <1>3, <1>4, Zenon DEF HoldsUnlessLost, Working

(* A row that no worker can hold is rewritten to another such row. *)
LEMMA FreeRow ==
  ASSUME JobInv, NEW j \in Jobs, row[j].status \in {"absent", "dead"}, NEW n \in RowType,
         n.status = "queued", row' = [row EXCEPT ![j] = n], work' = work, now' = now
  PROVE  \A w \in Workers : HoldsUnlessLost(w)'
<1> SUFFICES ASSUME NEW w \in Workers PROVE HoldsUnlessLost(w)'
  BY Zenon
<1>1. TypeOK /\ HoldsUnlessLost(w)
  BY Zenon DEF JobInv
<1>2. CASE Working(w) /\ work[w].job = j
  <2>1. work[w].lost /\ row'[j] = n
    BY <1>1, <1>2, Zenon DEF HoldsUnlessLost, Holds, TypeOK
  <2>2. ~Holds(w)'
    BY <1>2, <2>1, Zenon DEF Holds
  <2>3. \A v \in Workers : Clock(v)' = Clock(v)
    BY Zenon DEF Clock
  <2> QED BY <1>1, <1>2, <2>1, <2>2, <2>3, Zenon DEF HoldsUnlessLost, Working
<1>3. CASE ~(Working(w) /\ work[w].job = j)
  <2>1. Working(w) => row'[work[w].job] = row[work[w].job]
    BY <1>1, <1>3, Zenon DEF HoldsUnlessLost, TypeOK
  <2> QED BY <1>1, <2>1, Untouched DEF TypeOK
<1> QED BY <1>2, <1>3, Zenon

(* What the statements write, whatever else holds: a queued row without a lock, *)
LEMMA QueuedWrites ==
  ASSUME TypeOK, NEW w \in Workers, NEW j \in Jobs, Enqueue(w, j) \/ RequeueDead(w, j)
  PROVE  /\ row[j].status \in {"absent", "dead"} /\ work' = work /\ now' = now
         /\ requeues' \in Nat
         /\ \E n \in RowType : /\ n.status = "queued" /\ n.lockedBy = NoWorker
                               /\ row' = [row EXCEPT ![j] = n]
<1>0. Clock(w) \in Nat /\ requeues \in Nat
  BY ClockType, Zenon DEF TypeOK
<1>1. CASE Enqueue(w, j)
  <2>1. PICK k \in {NoKey, Clock(w) \div Interval}, d \in Delays :
          row' = [row EXCEPT ![j] = [AbsentRow EXCEPT !.status = "queued",
                    !.runAt = Clock(w) + d, !.createdAt = Clock(w), !.key = k]]
    BY <1>1, Zenon DEF Enqueue
  <2>2. k \in Nat \union {NoKey} /\ d \in Nat
    <3>1. \A a \in Nat, b \in Nat \ {0} : a \div b \in Nat
      OBVIOUS
    <3>2. Clock(w) \div Interval \in Nat
      BY <1>0, <3>1, JobConstants, Zenon
    <3> QED BY <3>2, JobConstants, Zenon
  <2> DEFINE n == [AbsentRow EXCEPT !.status = "queued",
                     !.runAt = Clock(w) + d, !.createdAt = Clock(w), !.key = k]
  <2>3. n \in RowType /\ n.status = "queued" /\ n.lockedBy = NoWorker
    <3>1. AbsentRow \in RowType /\ AbsentRow.lockedBy = NoWorker
      BY Zenon DEF AbsentRow, RowType
    <3>2. Clock(w) + d \in Nat
      BY <1>0, <2>2
    <3> QED BY <1>0, <2>2, <3>1, <3>2, Zenon DEF RowType
  <2>4. row' = [row EXCEPT ![j] = n]
    BY <2>1, Zenon
  <2>5. row[j].status = "absent" /\ work' = work /\ now' = now /\ requeues' = requeues
    BY <1>1, Zenon DEF Enqueue
  <2> HIDE DEF n
  <2> QED BY <1>0, <2>3, <2>4, <2>5, Zenon
<1>2. CASE RequeueDead(w, j)
  <2> DEFINE n == [row[j] EXCEPT !.status = "queued", !.attempts = 0, !.runAt = Clock(w)]
  <2>1. row' = [row EXCEPT ![j] = n] /\ row[j].status = "dead" /\ work' = work /\ now' = now
        /\ requeues' = requeues + 1
    BY <1>2, Zenon DEF RequeueDead
  <2>2. row[j] \in RowType /\ row[j].lockedBy = NoWorker
    BY <2>1, Zenon DEF TypeOK
  <2>3. n \in RowType /\ n.status = "queued" /\ n.lockedBy = NoWorker
    BY <1>0, <2>2, Zenon DEF RowType
  <2>4. requeues' \in Nat
    BY <1>0, <2>1
  <2> HIDE DEF n
  <2> QED BY <2>1, <2>3, <2>4, Zenon
<1> QED BY <1>1, <1>2, Zenon

(* a row locked by the worker that claims it, while the others lose the job, *)
LEMMA ClaimWrites ==
  ASSUME TypeOK, NEW w \in Workers, Claim(w)
  PROVE  \E j \in Jobs, n \in RowType, m \in WorkType :
           /\ Next1(w, j) /\ ~Working(w) /\ now' = now /\ requeues' = requeues
           /\ n.status = "running" /\ n.lockedBy = w /\ n.lockedUntil = Clock(w) + Lease
           /\ m.pc = "handler" /\ m.job = j /\ m.attempts > 0 /\ ~m.lost
           /\ m.until = Clock(w) + Lease
           /\ row' = [row EXCEPT ![j] = n]
           /\ work' \in [Workers -> WorkType]
           /\ work'[w] = m \/ work'[w] = work[w]
           /\ \A v \in Workers \ {w} :
                IF Working(v) /\ work[v].job = j
                THEN /\ work'[v].lost /\ work'[v].job = j /\ work'[v].pc = work[v].pc
                     /\ work'[v].attempts = work[v].attempts /\ work'[v].until = work[v].until
                ELSE work'[v] = work[v]
<1>0. Clock(w) \in Nat /\ ~Working(w) /\ now' = now /\ requeues' = requeues
  BY ClockType, Zenon DEF Claim, Working
<1>1. PICK j \in Jobs :
        /\ Next1(w, j)
        /\ row' = [row EXCEPT ![j] = [@ EXCEPT !.status = "running",
                     !.attempts = row[j].attempts + 1,
                     !.lockedBy = w, !.lockedUntil = Clock(w) + Lease]]
        /\ \/ work' = [Supersede(j) EXCEPT ![w] =
                          [pc |-> "handler", job |-> j, attempts |-> row[j].attempts + 1,
                           until |-> Clock(w) + Lease, retryAt |-> NoRetry, lost |-> FALSE]]
           \/ work' = Supersede(j)
  BY Zenon DEF Claim
<1> DEFINE n == [row[j] EXCEPT !.status = "running", !.attempts = row[j].attempts + 1,
                   !.lockedBy = w, !.lockedUntil = Clock(w) + Lease]
           m == [pc |-> "handler", job |-> j, attempts |-> row[j].attempts + 1,
                 until |-> Clock(w) + Lease, retryAt |-> NoRetry, lost |-> FALSE]
<1>2. row[j] \in RowType /\ row[j].attempts + 1 \in Nat \ {0} /\ Clock(w) + Lease \in Nat
  <2>1. row[j] \in RowType /\ row[j].attempts \in Nat /\ Lease \in Nat
    BY JobConstants, Zenon DEF TypeOK, RowType
  <2> HIDE DEF RowType, Clock
  <2> QED BY <1>0, <2>1
<1>3. /\ n \in RowType /\ n.status = "running" /\ n.lockedBy = w
      /\ n.lockedUntil = Clock(w) + Lease
  BY <1>2, Zenon DEF RowType
<1>4. /\ m \in WorkType /\ m.pc = "handler" /\ m.job = j /\ m.attempts > 0 /\ ~m.lost
      /\ m.until = Clock(w) + Lease
  BY <1>2 DEF WorkType
<1>5. row' = [row EXCEPT ![j] = n]
  BY <1>1, Zenon
<1>6. work' = [Supersede(j) EXCEPT ![w] = m] \/ work' = Supersede(j)
  BY <1>1, Zenon
<1> HIDE DEF n, m
<1>8. ASSUME NEW v \in Workers
      PROVE  /\ Supersede(j)[v] \in WorkType
             /\ Working(v) /\ work[v].job = j =>
                  /\ Supersede(j)[v].lost /\ Supersede(j)[v].job = j
                  /\ Supersede(j)[v].pc = work[v].pc
                  /\ Supersede(j)[v].attempts = work[v].attempts
                  /\ Supersede(j)[v].until = work[v].until
             /\ ~(Working(v) /\ work[v].job = j) => Supersede(j)[v] = work[v]
  BY <1>0, WorkFields, Zenon DEF Supersede, WorkType
<1>9. Supersede(j) \in [Workers -> WorkType]
  BY <1>8, Zenon DEF Supersede
<1>10. work' \in [Workers -> WorkType]
  BY <1>4, <1>6, <1>9, Zenon
<1>11. Supersede(j)[w] = work[w]
  BY <1>0, <1>8, Zenon
<1>12. \A v \in Workers \ {w} : work'[v] = Supersede(j)[v]
  BY <1>6, <1>9, Zenon
<1>13. work'[w] = m \/ work'[w] = work[w]
  BY <1>6, <1>9, <1>11, Zenon
<1>14. \A v \in Workers \ {w} :
         IF Working(v) /\ work[v].job = j
         THEN /\ work'[v].lost /\ work'[v].job = j /\ work'[v].pc = work[v].pc
              /\ work'[v].attempts = work[v].attempts /\ work'[v].until = work[v].until
         ELSE work'[v] = work[v]
  BY <1>8, <1>12
<1> QED BY <1>0, <1>1, <1>3, <1>4, <1>5, <1>10, <1>13, <1>14, Zenon

(* the end of a handler, *)
LEMMA HandlerWrites ==
  ASSUME TypeOK, NEW w \in Workers, HandlerEnds(w), work[w].attempts > 0
  PROVE  /\ Working(w) /\ row' = row /\ now' = now /\ requeues' = requeues
         /\ \E n \in WorkType :
              /\ work' = [work EXCEPT ![w] = n]
              /\ n.job = work[w].job /\ n.attempts = work[w].attempts
              /\ n.until = work[w].until /\ n.lost = work[w].lost
<1>0. Working(w) /\ row' = row /\ now' = now /\ requeues' = requeues
  BY Zenon DEF HandlerEnds, Working
<1>1. work[w] \in WorkType /\ RetryAt(w) \in Nat \union {NoRetry}
  BY RetryType, WorkFields, Zenon
<1>2. CASE work' = [work EXCEPT ![w] = [@ EXCEPT !.pc = "succeed"]]
  <2> DEFINE n == [work[w] EXCEPT !.pc = "succeed"]
  <2>1. n \in WorkType /\ n.job = work[w].job /\ n.attempts = work[w].attempts
        /\ n.until = work[w].until /\ n.lost = work[w].lost
    BY <1>1, Zenon DEF WorkType
  <2>2. work' = [work EXCEPT ![w] = n]
    BY <1>2, Zenon
  <2> HIDE DEF n
  <2> QED BY <1>0, <2>1, <2>2, Zenon
<1>3. ASSUME NEW t \in Nat \union {NoRetry}, ToFail(w, t)
      PROVE  \E n \in WorkType :
               /\ work' = [work EXCEPT ![w] = n]
               /\ n.job = work[w].job /\ n.attempts = work[w].attempts
               /\ n.until = work[w].until /\ n.lost = work[w].lost
  <2> DEFINE n == [work[w] EXCEPT !.pc = "fail", !.retryAt = t]
  <2>1. n \in WorkType /\ n.job = work[w].job /\ n.attempts = work[w].attempts
        /\ n.until = work[w].until /\ n.lost = work[w].lost
    BY <1>1, Zenon DEF WorkType
  <2>2. work' = [work EXCEPT ![w] = n]
    BY <1>3, Zenon DEF ToFail
  <2> HIDE DEF n
  <2> QED BY <2>1, <2>2, Zenon
<1> QED BY <1>0, <1>1, <1>2, <1>3, Zenon DEF HandlerEnds

(* and the report of a worker, which writes only the row it holds.           *)
LEMMA ReportWrites ==
  ASSUME TypeOK, NEW w \in Workers, MarkSucceeded(w) \/ MarkFailed(w),
         work[w].attempts > 0, work[w].job \in Jobs
  PROVE  /\ Working(w) /\ now' = now /\ requeues' = requeues
         /\ work' \in [Workers -> WorkType]
         /\ \A v \in Workers \ {w} : work'[v] = work[v]
         /\ \/ ~Working(w)'
            \/ /\ work'[w].job = work[w].job /\ work'[w].attempts = work[w].attempts
               /\ work'[w].until = work[w].until /\ work'[w].lost = work[w].lost
         /\ \/ row' = row
            \/ /\ Holds(w)
               /\ \E n \in RowType :
                    /\ row' = [row EXCEPT ![work[w].job] = n]
                    /\ n.status # "running" /\ n.lockedBy = NoWorker
                    /\ n.status = "succeeded" \/ ~Working(w)'
<1>0. /\ Working(w) /\ now' = now /\ requeues' = requeues
      /\ work[w].retryAt \in Nat \union {NoRetry} /\ RetryAt(w) \in Nat \union {NoRetry}
  BY RetryType, WorkFields, Zenon DEF MarkSucceeded, MarkFailed, Working, WorkType
<1>1. ToIdle(w) \/ ToFail(w, RetryAt(w))
  BY Zenon DEF MarkSucceeded, MarkFailed
<1>2. /\ work' \in [Workers -> WorkType] /\ \A v \in Workers \ {w} : work'[v] = work[v]
      /\ \/ ~Working(w)'
         \/ /\ work'[w].job = work[w].job /\ work'[w].attempts = work[w].attempts
            /\ work'[w].until = work[w].until /\ work'[w].lost = work[w].lost
  BY <1>0, <1>1, StepOfWork, Zenon
<1> DEFINE u == Unlocked(row[work[w].job])
<1>3. u \in RowType /\ u.lockedBy = NoWorker
  BY RowFields, Zenon
<1>4. CASE MarkSucceeded(w) /\ row' # row
  <2> DEFINE n == [u EXCEPT !.status = "succeeded"]
  <2>1. row' = [row EXCEPT ![work[w].job] = n] /\ Holds(w)
    BY <1>4, Zenon DEF MarkSucceeded
  <2> HIDE DEF u
  <2>2. n \in RowType /\ n.status = "succeeded" /\ n.lockedBy = NoWorker
    BY <1>3, Zenon DEF RowType
  <2> HIDE DEF n
  <2> QED BY <1>0, <1>2, <2>1, <2>2, Zenon
<1>5. CASE MarkFailed(w) /\ row' # row
  <2> DEFINE n == IF work[w].retryAt = NoRetry THEN [u EXCEPT !.status = "dead"]
                  ELSE [u EXCEPT !.status = "queued", !.runAt = work[w].retryAt]
  <2>1. row' = [row EXCEPT ![work[w].job] = n] /\ Holds(w) /\ ToIdle(w)
    BY <1>5, Zenon DEF MarkFailed
  <2> HIDE DEF u
  <2>2. n \in RowType /\ n.status # "running" /\ n.lockedBy = NoWorker
    BY <1>0, <1>3, Zenon DEF RowType
  <2>3. ~Working(w)'
    BY <2>1, StepOfWork, Zenon
  <2> HIDE DEF n
  <2> QED BY <1>0, <1>2, <2>1, <2>2, <2>3, Zenon
<1> QED BY <1>0, <1>2, <1>4, <1>5, Zenon

(* enqueue and requeueDead touch no row a worker holds. *)
LEMMA QueuedStep ==
  ASSUME JobInv, NEW w \in Workers, NEW j \in Jobs, Enqueue(w, j) \/ RequeueDead(w, j)
  PROVE  JobInv'
<1>0. TypeOK
  BY Zenon DEF JobInv
<1>1. /\ row[j].status \in {"absent", "dead"} /\ work' = work /\ now' = now
      /\ requeues' \in Nat
  BY <1>0, QueuedWrites, Zenon
<1>2. PICK n \in RowType : /\ n.status = "queued" /\ n.lockedBy = NoWorker
                           /\ row' = [row EXCEPT ![j] = n]
  BY <1>0, QueuedWrites, Zenon
<1>3. row' \in [Jobs -> RowType] /\ \A i \in Jobs : Locked(row'[i])
  BY <1>0, <1>2, WriteRow, Zenon DEF Locked
<1>4. \A v \in Workers : HoldsUnlessLost(v)'
  BY <1>1, <1>2, FreeRow, Zenon
<1> QED BY <1>0, <1>1, <1>3, <1>4, Zenon DEF JobInv, TypeOK, Locked

(* A claim takes the job from every worker that still runs it. *)
LEMMA ClaimStep ==
  ASSUME JobInv, NEW w \in Workers, Claim(w) PROVE JobInv'
<1>0. TypeOK
  BY Zenon DEF JobInv
<1>1. PICK j \in Jobs, n \in RowType, m \in WorkType :
        /\ Next1(w, j) /\ ~Working(w) /\ now' = now /\ requeues' = requeues
        /\ n.status = "running" /\ n.lockedBy = w /\ n.lockedUntil = Clock(w) + Lease
        /\ m.pc = "handler" /\ m.job = j /\ m.attempts > 0 /\ ~m.lost
        /\ m.until = Clock(w) + Lease
        /\ row' = [row EXCEPT ![j] = n]
        /\ work' \in [Workers -> WorkType]
        /\ work'[w] = m \/ work'[w] = work[w]
        /\ \A v \in Workers \ {w} :
             IF Working(v) /\ work[v].job = j
             THEN /\ work'[v].lost /\ work'[v].job = j /\ work'[v].pc = work[v].pc
                  /\ work'[v].attempts = work[v].attempts /\ work'[v].until = work[v].until
             ELSE work'[v] = work[v]
  BY <1>0, ClaimWrites, Zenon
<1>2. row' \in [Jobs -> RowType] /\ \A i \in Jobs : Locked(row'[i])
  BY <1>0, <1>1, WriteRow, JobConstants, Zenon DEF Locked, NoWorker
<1>3. row'[j] = n /\ \A i \in Jobs \ {j} : row'[i] = row[i]
  BY <1>0, <1>1, Zenon DEF TypeOK
<1>4. \A v \in Workers : Clock(v)' = Clock(v)
  BY <1>1, Zenon DEF Clock
<1>5. HoldsUnlessLost(w)'
  <2>1. CASE work'[w] = m
    BY <1>1, <1>3, <2>1, Zenon DEF HoldsUnlessLost, Holds, Working
  <2>2. CASE work'[w] = work[w]
    BY <1>1, <2>2, Zenon DEF HoldsUnlessLost, Working
  <2> QED BY <1>1, <2>1, <2>2, Zenon
<1>6. ASSUME NEW v \in Workers \ {w} PROVE HoldsUnlessLost(v)'
  <2>0. HoldsUnlessLost(v)
    BY Zenon DEF JobInv
  <2>1. CASE Working(v) /\ work[v].job = j
    <3>1. ~Holds(v)' /\ work'[v].lost /\ work'[v].job \in Jobs /\ work'[v].attempts > 0
          /\ work'[v].until = work[v].until
      BY <1>1, <1>3, <2>0, <2>1, Zenon DEF Holds, HoldsUnlessLost
    <3>2. \E u \in Workers : work[v].until <= Clock(u)
      <4>1. row[j].status # "succeeded" /\ (row[j].status = "running" => row[j].lockedUntil <= Clock(w))
        BY <1>1, Zenon DEF Next1, Due
      <4> QED BY <2>0, <2>1, <4>1, Zenon DEF HoldsUnlessLost, Holds
    <3> QED BY <1>4, <3>1, <3>2, Zenon DEF HoldsUnlessLost
  <2>2. CASE ~(Working(v) /\ work[v].job = j)
    <3>1. work'[v] = work[v] /\ (Working(v) => row'[work[v].job] = row[work[v].job])
      BY <1>1, <1>3, <2>0, <2>2, Zenon DEF HoldsUnlessLost
    <3>2. now \in Nat
      BY <1>0, Zenon DEF TypeOK
    <3> QED BY <1>1, <3>1, <3>2, Untouched
  <2> QED BY <2>1, <2>2, Zenon
<1> QED BY <1>0, <1>1, <1>2, <1>5, <1>6, Zenon DEF JobInv, TypeOK, Locked

(* The handler ends without writing the row. *)
LEMMA HandlerStep ==
  ASSUME JobInv, NEW w \in Workers, HandlerEnds(w) PROVE JobInv'
<1>0. TypeOK /\ HoldsUnlessLost(w) /\ now \in Nat /\ work[w].attempts > 0
  BY Zenon DEF JobInv, HandlerEnds, Working, TypeOK, HoldsUnlessLost
<1>1. Working(w) /\ row' = row /\ now' = now /\ requeues' = requeues
  BY <1>0, HandlerWrites, Zenon
<1>2. PICK n \in WorkType :
        /\ work' = [work EXCEPT ![w] = n]
        /\ n.job = work[w].job /\ n.attempts = work[w].attempts
        /\ n.until = work[w].until /\ n.lost = work[w].lost
  BY <1>0, HandlerWrites, Zenon
<1>3. work' \in [Workers -> WorkType] /\ work'[w] = n
      /\ \A v \in Workers \ {w} : work'[v] = work[v]
  BY <1>0, <1>2, Zenon DEF TypeOK
<1>4. HoldsUnlessLost(w)'
  <2>1. (Holds(w)' <=> Holds(w)) /\ \A v \in Workers : Clock(v)' = Clock(v)
    BY <1>1, <1>2, <1>3, Zenon DEF Holds, Clock
  <2> QED BY <1>0, <1>1, <1>2, <1>3, <2>1, Zenon DEF HoldsUnlessLost
<1>5. \A v \in Workers \ {w} : HoldsUnlessLost(v)'
  BY <1>0, <1>1, <1>3, Untouched
<1> QED BY <1>0, <1>1, <1>3, <1>4, <1>5, Zenon DEF JobInv, TypeOK

(* What the report of the holder leaves to the other workers. *)
LEMMA ReportOthers ==
  ASSUME JobInv, NEW w \in Workers, Working(w), Holds(w), NEW n, n.status # "running",
         row' = [row EXCEPT ![work[w].job] = n], now' = now,
         \A v \in Workers \ {w} : work'[v] = work[v]
  PROVE  \A v \in Workers \ {w} : HoldsUnlessLost(v)'
<1> SUFFICES ASSUME NEW v \in Workers \ {w} PROVE HoldsUnlessLost(v)'
  BY Zenon
<1>0. /\ TypeOK /\ HoldsUnlessLost(v) /\ work[w].job \in Jobs /\ work'[v] = work[v]
      /\ now \in Nat
  BY Zenon DEF JobInv, HoldsUnlessLost, TypeOK
<1>1. row'[work[w].job] = n /\ \A i \in Jobs \ {work[w].job} : row'[i] = row[i]
  BY <1>0, Zenon DEF TypeOK
<1>2. CASE Working(v) /\ work[v].job = work[w].job
  <2>1. work[v].lost
    BY <1>0, <1>2, Zenon DEF HoldsUnlessLost, Holds
  <2>2. ~Holds(v)'
    BY <1>0, <1>1, <1>2, Zenon DEF Holds
  <2>3. \A u \in Workers : Clock(u)' = Clock(u)
    BY Zenon DEF Clock
  <2> QED BY <1>0, <1>2, <2>1, <2>2, <2>3, Zenon DEF HoldsUnlessLost
<1>3. CASE ~(Working(v) /\ work[v].job = work[w].job)
  <2>1. Working(v) => row'[work[v].job] = row[work[v].job]
    BY <1>0, <1>1, <1>3, Zenon DEF HoldsUnlessLost
  <2> QED BY <1>0, <2>1, Untouched
<1> QED BY <1>2, <1>3, Zenon

(* markSucceeded and markFailed write the row only under the lock of their worker. *)
LEMMA ReportStep ==
  ASSUME JobInv, NEW w \in Workers, MarkSucceeded(w) \/ MarkFailed(w) PROVE JobInv'
<1>0. /\ TypeOK /\ HoldsUnlessLost(w) /\ now \in Nat /\ Working(w)
      /\ work[w].job \in Jobs /\ work[w].attempts > 0
  BY Zenon DEF JobInv, MarkSucceeded, MarkFailed, Working, TypeOK, HoldsUnlessLost
<1>1. /\ now' = now /\ requeues' = requeues
      /\ work' \in [Workers -> WorkType] /\ \A v \in Workers \ {w} : work'[v] = work[v]
      /\ \/ ~Working(w)'
         \/ /\ work'[w].job = work[w].job /\ work'[w].attempts = work[w].attempts
            /\ work'[w].until = work[w].until /\ work'[w].lost = work[w].lost
  BY <1>0, ReportWrites, Zenon
<1>2. \A v \in Workers : Clock(v)' = Clock(v)
  BY <1>1, Zenon DEF Clock
<1>3. CASE row' = row
  <2>1. work'[w].job = work[w].job => (Holds(w)' <=> Holds(w))
    BY <1>3, Zenon DEF Holds
  <2>2. HoldsUnlessLost(w)'
    BY <1>0, <1>1, <1>2, <1>3, <2>1, Zenon DEF HoldsUnlessLost
  <2>3. \A v \in Workers \ {w} : HoldsUnlessLost(v)'
    BY <1>0, <1>1, <1>3, Untouched
  <2> QED BY <1>0, <1>1, <1>3, <2>2, <2>3, Zenon DEF JobInv, TypeOK
<1>4. CASE row' # row
  <2>1. PICK n \in RowType :
          /\ row' = [row EXCEPT ![work[w].job] = n] /\ Holds(w)
          /\ n.status # "running" /\ n.lockedBy = NoWorker
          /\ n.status = "succeeded" \/ ~Working(w)'
    BY <1>0, <1>4, ReportWrites, Zenon
  <2>2. row' \in [Jobs -> RowType] /\ \A i \in Jobs : Locked(row'[i])
    BY <1>0, <2>1, WriteRow, Zenon DEF Locked
  <2>3. row'[work[w].job] = n
    BY <1>0, <2>1, Zenon DEF TypeOK
  <2>4. HoldsUnlessLost(w)'
    BY <1>0, <1>1, <2>1, <2>3, Zenon DEF HoldsUnlessLost
  <2>5. \A v \in Workers \ {w} : HoldsUnlessLost(v)'
    BY <1>0, <1>1, <2>1, ReportOthers, Zenon
  <2> QED BY <1>0, <1>1, <2>2, <2>4, <2>5, Zenon DEF JobInv, TypeOK, Locked
<1> QED BY <1>3, <1>4, Zenon

(* A crash leaves the row as it is, locked by a worker that is gone. *)
LEMMA CrashStep ==
  ASSUME JobInv, NEW w \in Workers, Crash(w) PROVE JobInv'
<1>0. TypeOK /\ row' = row /\ now' = now /\ requeues' = requeues /\ now \in Nat
  BY Zenon DEF JobInv, Crash, TypeOK
<1> DEFINE n == [Idle EXCEPT !.pc = "gone"]
<1>1. n \in WorkType /\ n.pc = "gone" /\ work' = [work EXCEPT ![w] = n]
  BY Zenon DEF Crash, Idle, WorkType, NoJob, NoRetry
<1> HIDE DEF n
<1>2. /\ work' \in [Workers -> WorkType] /\ ~Working(w)'
      /\ \A v \in Workers \ {w} : work'[v] = work[v]
  BY <1>0, <1>1, Zenon DEF TypeOK, Working
<1>3. \A v \in Workers : HoldsUnlessLost(v)'
  <2>1. HoldsUnlessLost(w)'
    BY <1>2, Zenon DEF HoldsUnlessLost
  <2>2. \A v \in Workers \ {w} : HoldsUnlessLost(v)'
    BY <1>0, <1>2, Untouched
  <2> QED BY <2>1, <2>2, Zenon
<1> QED BY <1>0, <1>2, <1>3, Zenon DEF JobInv, TypeOK

(* Time passing takes no lease from a worker whose clock has not run past it. *)
LEMMA QuietStep ==
  ASSUME JobInv, Tick \/ UNCHANGED vars PROVE JobInv'
<1>0. /\ TypeOK /\ row' = row /\ work' = work /\ requeues' = requeues
      /\ now \in Nat /\ now' \in Nat /\ now' >= now
  BY DEF JobInv, Tick, TypeOK, vars
<1>1. \A v \in Workers : HoldsUnlessLost(v)'
  BY <1>0, Untouched, Zenon
<1> QED BY <1>0, <1>1, Zenon DEF JobInv, TypeOK

(* The empty queue satisfies the inductive invariant. *)
LEMMA InitJobInv == Init => JobInv
<1> SUFFICES ASSUME Init PROVE JobInv
  BY Zenon
<1>1. AbsentRow \in RowType /\ AbsentRow.status = "absent" /\ AbsentRow.lockedBy = NoWorker
  BY Zenon DEF AbsentRow, RowType
<1>2. Idle \in WorkType /\ Idle.pc = "idle"
  BY Zenon DEF Idle, WorkType, NoJob, NoRetry
<1>3. TypeOK
  BY <1>1, <1>2, Zenon DEF Init, TypeOK
<1> QED BY <1>2, <1>3, Zenon DEF JobInv, HoldsUnlessLost, Working, Init

(* The inductive invariant: whatever the clocks, crashes and lost replies,  *)
(* a worker holds its job in the table or has lost it to a later claim.      *)
THEOREM JobInvariance == Spec => []JobInv
<1>1. JobInv /\ [Next]_vars => JobInv'
  BY QueuedStep, ClaimStep, HandlerStep, ReportStep, CrashStep, QuietStep, Zenon DEF Next, WorkerStep
<1> QED BY <1>1, InitJobInv, PTL DEF Spec

(* Every column of the jobs table and every worker keeps its type, and a row *)
(* is locked exactly while it is running.                                    *)
THEOREM JobTypes == Spec => []TypeOK
BY JobInvariance, PTL DEF JobInv

(* No worker loses a job before its lease has run out on some clock.         *)
THEOREM LeaseIsHonoured == Spec => []HeldForTheLease
<1>1. JobInv => HeldForTheLease
  BY Zenon DEF JobInv, HoldsUnlessLost, HeldForTheLease
<1> QED BY <1>1, JobInvariance, PTL

(* How a step ends a running job: its holder reports.                        *)
LEMMA EndOfRun ==
  ASSUME JobInv, [Next]_vars, NEW j \in Jobs,
         row[j].status = "running", row'[j].status # "running"
  PROVE  \E w \in Workers : (MarkSucceeded(w) \/ MarkFailed(w)) /\ Holds(w) /\ work[w].job = j
<1>0. TypeOK
  BY Zenon DEF JobInv
<1>1. ASSUME NEW w \in Workers, NEW i \in Jobs, Enqueue(w, i) \/ RequeueDead(w, i) PROVE FALSE
  <2>1. i # j /\ \E n : row' = [row EXCEPT ![i] = n]
    BY <1>1, Zenon DEF Enqueue, RequeueDead
  <2> QED BY <1>0, <2>1, Zenon DEF TypeOK
<1>2. ASSUME NEW w \in Workers, Claim(w) PROVE FALSE
  <2>1. PICK i \in Jobs : row' = [row EXCEPT ![i] = [@ EXCEPT !.status = "running",
                     !.attempts = row[i].attempts + 1,
                     !.lockedBy = w, !.lockedUntil = Clock(w) + Lease]]
    BY <1>2, Zenon DEF Claim
  <2>2. row'[i].status = "running" /\ \A k \in Jobs \ {i} : row'[k] = row[k]
    BY <1>0, <2>1, Zenon DEF TypeOK, RowType
  <2> QED BY <2>2, Zenon
<1>3. ASSUME NEW w \in Workers, MarkSucceeded(w) \/ MarkFailed(w)
      PROVE  Holds(w) /\ work[w].job = j
  <2>1. Holds(w) /\ \E n : row' = [row EXCEPT ![work[w].job] = n]
    BY <1>3, Zenon DEF MarkSucceeded, MarkFailed
  <2>2. CASE work[w].job # j
    BY <1>0, <2>1, <2>2, Zenon DEF TypeOK
  <2> QED BY <2>1, <2>2, Zenon
<1>4. ASSUME UNCHANGED row PROVE FALSE
  BY <1>4, Zenon
<1> QED BY <1>1, <1>2, <1>3, <1>4, Zenon DEF Next, WorkerStep, HandlerEnds, Crash, Tick, vars

(* A running job is only ended by the worker of its last claim: the fencing  *)
(* of docs/JOBS.md.                                                          *)
THEOREM FencingHolds == Spec => OnlyTheLastClaimReports
<1>1. JobInv /\ [Next]_vars =>
        [\A j \in Jobs :
           row[j].status = "running" /\ row'[j].status # "running" =>
             \E w \in Workers :
               /\ work[w].pc \in {"succeed", "fail"} /\ work[w].job = j
               /\ row[j].lockedBy = w /\ ~work[w].lost]_vars
  <2> SUFFICES ASSUME JobInv, [Next]_vars, NEW j \in Jobs,
                      row[j].status = "running", row'[j].status # "running"
               PROVE  \E w \in Workers :
                        /\ work[w].pc \in {"succeed", "fail"} /\ work[w].job = j
                        /\ row[j].lockedBy = w /\ ~work[w].lost
    BY Zenon
  <2>1. PICK w \in Workers :
          (MarkSucceeded(w) \/ MarkFailed(w)) /\ Holds(w) /\ work[w].job = j
    BY EndOfRun, Zenon
  <2>2. work[w].pc \in {"succeed", "fail"}
    BY <2>1, Zenon DEF MarkSucceeded, MarkFailed
  <2>3. ~work[w].lost
    BY <2>1, <2>2, Zenon DEF JobInv, HoldsUnlessLost, Working
  <2> QED BY <2>1, <2>2, <2>3, Zenon DEF Holds
<1> QED BY <1>1, JobInvariance, PTL DEF Spec, OnlyTheLastClaimReports

(* Only an INSERT gives a row its key. *)
LEMMA KeysStay ==
  ASSUME JobInv, [Next]_vars, NEW j \in Jobs, row'[j].key # row[j].key
  PROVE  \E w \in Workers : Enqueue(w, j)
<1>0. TypeOK
  BY Zenon DEF JobInv
<1>1. ASSUME NEW w \in Workers, NEW i \in Jobs, Enqueue(w, i) PROVE i = j
  <2>1. \E n : row' = [row EXCEPT ![i] = n]
    BY <1>1, Zenon DEF Enqueue
  <2> QED BY <1>0, <2>1, Zenon DEF TypeOK
<1>2. ASSUME NEW w \in Workers, NEW i \in Jobs, RequeueDead(w, i) PROVE FALSE
  BY <1>0, <1>2, Zenon DEF RequeueDead, TypeOK, RowType
<1>3. ASSUME NEW w \in Workers, Claim(w) PROVE FALSE
  <2>1. PICK i \in Jobs : row' = [row EXCEPT ![i] = [@ EXCEPT !.status = "running",
                     !.attempts = row[i].attempts + 1,
                     !.lockedBy = w, !.lockedUntil = Clock(w) + Lease]]
    BY <1>3, Zenon DEF Claim
  <2> QED BY <1>0, <2>1, Zenon DEF TypeOK, RowType
<1>4. ASSUME NEW w \in Workers, MarkSucceeded(w) \/ MarkFailed(w) PROVE FALSE
  <2>1. work[w].job \in Jobs
    BY <1>4, Zenon DEF JobInv, HoldsUnlessLost, Working, MarkSucceeded, MarkFailed
  <2> DEFINE u == Unlocked(row[work[w].job])
  <2>2. u \in RowType /\ u.key = row[work[w].job].key
    BY <1>0, <2>1, Zenon DEF Unlocked, TypeOK, RowType
  <2>3. \/ UNCHANGED row
        \/ row' = [row EXCEPT ![work[w].job] = [u EXCEPT !.status = "succeeded"]]
        \/ row' = [row EXCEPT ![work[w].job] = [u EXCEPT !.status = "dead"]]
        \/ row' = [row EXCEPT ![work[w].job] =
                     [u EXCEPT !.status = "queued", !.runAt = work[w].retryAt]]
    BY <1>4, Zenon DEF MarkSucceeded, MarkFailed
  <2> HIDE DEF u
  <2>4. \A s, x : /\ [u EXCEPT !.status = s].key = u.key
                  /\ [u EXCEPT !.status = s, !.runAt = x].key = u.key
    BY <2>2, Zenon DEF RowType
  <2>5. UNCHANGED row \/ \E n : n.key = u.key /\ row' = [row EXCEPT ![work[w].job] = n]
    <3> DEFINE a == [u EXCEPT !.status = "succeeded"]
               b == [u EXCEPT !.status = "dead"]
               c == [u EXCEPT !.status = "queued", !.runAt = work[w].retryAt]
    <3>1. a.key = u.key /\ b.key = u.key /\ c.key = u.key
      BY <2>4, Zenon
    <3>2. UNCHANGED row \/ \E n \in {a, b, c} : row' = [row EXCEPT ![work[w].job] = n]
      BY <2>3, Zenon
    <3> HIDE DEF a, b, c
    <3> QED BY <3>1, <3>2, Zenon
  <2> QED BY <1>0, <2>1, <2>2, <2>5, Zenon DEF TypeOK
<1>5. ASSUME UNCHANGED row PROVE FALSE
  BY <1>5, Zenon
<1> QED BY <1>1, <1>2, <1>3, <1>4, <1>5, Zenon DEF Next, WorkerStep, HandlerEnds, Crash, Tick, vars

(* Any number of processes queue one sweep per interval.                     *)
THEOREM SweepsAreUnique == Spec => []OneSweepPerInterval
<1>1. Init => OneSweepPerInterval
  BY DEF Init, OneSweepPerInterval, AbsentRow
<1>2. JobInv /\ OneSweepPerInterval /\ [Next]_vars => OneSweepPerInterval'
  <2> SUFFICES ASSUME JobInv, OneSweepPerInterval, [Next]_vars, NEW i \in Jobs, NEW j \in Jobs,
                      row'[i].key # NoKey, row'[i].key = row'[j].key, i # j
               PROVE  FALSE
    BY Zenon DEF OneSweepPerInterval
  <2>1. ASSUME NEW a \in Jobs, NEW b \in Jobs, a # b, row'[a].key # NoKey,
               row'[a].key = row'[b].key, NEW w \in Workers, Enqueue(w, a)
        PROVE  FALSE
    <3>1. row'[b] = row[b] /\ KeyUnused(row'[a].key)
      <4>1. PICK k \in {NoKey, Clock(w) \div Interval}, d \in Delays :
              /\ KeyUnused(k)
              /\ row' = [row EXCEPT ![a] = [AbsentRow EXCEPT !.status = "queued",
                           !.runAt = Clock(w) + d, !.createdAt = Clock(w), !.key = k]]
        BY <2>1, Zenon DEF Enqueue
      <4>2. row'[a].key = k /\ row'[b] = row[b]
        BY <2>1, <4>1, Zenon DEF JobInv, TypeOK, RowType, AbsentRow
      <4> QED BY <4>1, <4>2, Zenon
    <3> QED BY <2>1, <3>1, Zenon DEF KeyUnused
  <2>2. row'[i].key = row[i].key /\ row'[j].key = row[j].key
    BY <2>1, KeysStay, Zenon
  <2> QED BY <2>2, Zenon DEF OneSweepPerInterval
<1> QED BY <1>1, <1>2, JobInvariance, PTL DEF Spec

---------------------------------------------------------------------------
(* Beside a repair *)

(* A row may change under a worker without its losing the fence, provided    *)
(* that the new row is not locked by it.                                     *)
LEMMA FenceStays ==
  ASSUME NEW v \in Workers, Fenced(v), Working(v)' => Working(v),
         Working(v)' => /\ work'[v].job = work[v].job /\ work'[v].attempts = work[v].attempts
                        /\ work[v].lost => work'[v].lost
                        /\ \/ row'[work[v].job] = row[work[v].job] /\ work'[v].lost = work[v].lost
                           \/ row'[work[v].job].lockedBy # v
  PROVE  Fenced(v)'
<1>1. CASE Working(v)'
  <2>1. Working(v)
    BY <1>1, Zenon
  <2>2. CASE row'[work[v].job] = row[work[v].job] /\ work'[v].lost = work[v].lost
    <3>1. Holds(v)' <=> Holds(v)
      BY <1>1, <2>2, Zenon DEF Holds
    <3> QED BY <1>1, <2>1, <2>2, <3>1, Zenon DEF Fenced
  <2>3. CASE row'[work[v].job].lockedBy # v
    <3>1. ~Holds(v)'
      BY <1>1, <2>3, Zenon DEF Holds
    <3> QED BY <1>1, <2>1, <3>1, Zenon DEF Fenced
  <2> QED BY <1>1, <2>2, <2>3, Zenon
<1> QED BY <1>1, Zenon DEF Fenced

(* A row without a lock, written by whom it may, endangers no fence.         *)
LEMMA FreeRowFences ==
  ASSUME RepairInv, NEW j \in Jobs, NEW n \in RowType, n.status # "running",
         n.lockedBy = NoWorker, row' = [row EXCEPT ![j] = n], work' = work
  PROVE  /\ row' \in [Jobs -> RowType] /\ \A i \in Jobs : Locked(row'[i])
         /\ \A v \in Workers : Fenced(v)'
<1>1. row' \in [Jobs -> RowType] /\ \A i \in Jobs : Locked(row'[i])
  BY WriteRow, Zenon DEF Locked, RepairInv
<1>2. row'[j] = n /\ \A i \in Jobs \ {j} : row'[i] = row[i]
  BY Zenon DEF RepairInv, TypeOK
<1>3. ASSUME NEW v \in Workers PROVE Fenced(v)'
  <2>1. Fenced(v) /\ v # NoWorker
    BY JobConstants, Zenon DEF RepairInv, NoWorker
  <2>2. Working(v)' <=> Working(v)
    BY Zenon DEF Working
  <2>3. Working(v) => row'[work[v].job] = row[work[v].job] \/ row'[work[v].job].lockedBy # v
    BY <1>2, <2>1, Zenon DEF Fenced
  <2> QED BY <2>1, <2>2, <2>3, FenceStays, Zenon
<1> QED BY <1>1, <1>3, Zenon

(* Beside the repair, enqueue and requeueDead hold up no report of an older claim. *)
LEMMA RepairQueuedStep ==
  ASSUME RepairInv, NEW w \in Workers, NEW j \in Jobs, Enqueue(w, j) \/ RequeueDead(w, j),
         UNCHANGED batch
  PROVE  RepairInv'
<1>0. TypeOK
  BY Zenon DEF RepairInv
<1>1. work' = work /\ now' = now /\ requeues' \in Nat
  BY <1>0, QueuedWrites, Zenon
<1>2. PICK n \in RowType : /\ n.status = "queued" /\ n.lockedBy = NoWorker
                           /\ row' = [row EXCEPT ![j] = n]
  BY <1>0, QueuedWrites, Zenon
<1>3. /\ row' \in [Jobs -> RowType] /\ \A i \in Jobs : Locked(row'[i])
      /\ \A v \in Workers : Fenced(v)'
  BY <1>1, <1>2, FreeRowFences, Zenon
<1> QED BY <1>0, <1>1, <1>3, Zenon DEF RepairInv, TypeOK, Locked

(* A claim beside the repair starts a new attempt. *)
LEMMA RepairClaimStep ==
  ASSUME RepairInv, NEW w \in Workers, Claim(w), UNCHANGED batch
  PROVE  RepairInv'
<1>0. TypeOK
  BY Zenon DEF RepairInv
<1>1. PICK j \in Jobs, n \in RowType, m \in WorkType :
        /\ Next1(w, j) /\ ~Working(w) /\ now' = now /\ requeues' = requeues
        /\ n.status = "running" /\ n.lockedBy = w /\ n.lockedUntil = Clock(w) + Lease
        /\ m.pc = "handler" /\ m.job = j /\ m.attempts > 0 /\ ~m.lost
        /\ m.until = Clock(w) + Lease
        /\ row' = [row EXCEPT ![j] = n]
        /\ work' \in [Workers -> WorkType]
        /\ work'[w] = m \/ work'[w] = work[w]
        /\ \A v \in Workers \ {w} :
             IF Working(v) /\ work[v].job = j
             THEN /\ work'[v].lost /\ work'[v].job = j /\ work'[v].pc = work[v].pc
                  /\ work'[v].attempts = work[v].attempts /\ work'[v].until = work[v].until
             ELSE work'[v] = work[v]
  BY <1>0, ClaimWrites, Zenon
<1>2. row' \in [Jobs -> RowType] /\ \A i \in Jobs : Locked(row'[i])
  BY <1>0, <1>1, WriteRow, JobConstants, Zenon DEF Locked, NoWorker
<1>3. row'[j] = n /\ \A i \in Jobs \ {j} : row'[i] = row[i]
  BY <1>0, <1>1, Zenon DEF TypeOK
<1>4. Fenced(w)'
  <2>1. CASE work'[w] = m
    BY <1>1, <2>1, Zenon DEF Fenced
  <2>2. CASE work'[w] = work[w]
    BY <1>1, <2>2, Zenon DEF Fenced, Working
  <2> QED BY <1>1, <2>1, <2>2, Zenon
<1>5. ASSUME NEW v \in Workers \ {w} PROVE Fenced(v)'
  <2>0. Fenced(v)
    BY Zenon DEF RepairInv
  <2>1. Working(v)' => Working(v)
    BY <1>1, Zenon DEF Working
  <2>2. CASE Working(v) /\ work[v].job = j
    <3>1. /\ work'[v].job = work[v].job /\ work'[v].attempts = work[v].attempts
          /\ work'[v].lost /\ row'[work[v].job].lockedBy # v
      BY <1>1, <1>3, <2>2, Zenon
    <3> QED BY <2>0, <2>1, <3>1, FenceStays, Zenon
  <2>3. CASE Working(v) /\ work[v].job # j
    <3>1. work'[v] = work[v] /\ row'[work[v].job] = row[work[v].job]
      BY <1>1, <1>3, <2>0, <2>3, Zenon DEF Fenced
    <3> QED BY <2>0, <2>1, <3>1, FenceStays, Zenon
  <2>4. CASE ~Working(v)
    BY <2>1, <2>4, Zenon DEF Fenced
  <2> QED BY <2>2, <2>3, <2>4, Zenon
<1> QED BY <1>0, <1>1, <1>2, <1>4, <1>5, Zenon DEF RepairInv, TypeOK, Locked

(* The handler ends without writing the row, also beside the repair. *)
LEMMA RepairHandlerStep ==
  ASSUME RepairInv, NEW w \in Workers, HandlerEnds(w), UNCHANGED batch
  PROVE  RepairInv'
<1>0. TypeOK /\ work[w].attempts > 0
  BY Zenon DEF RepairInv, Fenced, HandlerEnds, Working
<1>1. Working(w) /\ row' = row /\ now' = now /\ requeues' = requeues
  BY <1>0, HandlerWrites, Zenon
<1>2. PICK n \in WorkType :
        /\ work' = [work EXCEPT ![w] = n]
        /\ n.job = work[w].job /\ n.attempts = work[w].attempts
        /\ n.until = work[w].until /\ n.lost = work[w].lost
  BY <1>0, HandlerWrites, Zenon
<1>3. work' \in [Workers -> WorkType] /\ work'[w] = n
      /\ \A v \in Workers \ {w} : work'[v] = work[v]
  BY <1>0, <1>2, Zenon DEF TypeOK
<1>4. Fenced(w)'
  BY <1>1, <1>2, <1>3, FenceStays, Zenon DEF RepairInv
<1>5. ASSUME NEW v \in Workers \ {w} PROVE Fenced(v)'
  <2>1. Working(v)' <=> Working(v)
    BY <1>3, Zenon DEF Working
  <2> QED BY <1>1, <1>3, <2>1, FenceStays, Zenon DEF RepairInv
<1> QED BY <1>0, <1>1, <1>3, <1>4, <1>5, Zenon DEF RepairInv, TypeOK

(* A report beside the repair is that of the last claim, or changes nothing. *)
LEMMA RepairReportStep ==
  ASSUME RepairInv, NEW w \in Workers, MarkSucceeded(w) \/ MarkFailed(w), UNCHANGED batch
  PROVE  RepairInv'
<1>0. TypeOK /\ Working(w) /\ work[w].job \in Jobs /\ work[w].attempts > 0
  BY Zenon DEF RepairInv, Fenced, MarkSucceeded, MarkFailed, Working
<1>1. /\ now' = now /\ requeues' = requeues
      /\ work' \in [Workers -> WorkType] /\ \A v \in Workers \ {w} : work'[v] = work[v]
      /\ \/ ~Working(w)'
         \/ /\ work'[w].job = work[w].job /\ work'[w].attempts = work[w].attempts
            /\ work'[w].until = work[w].until /\ work'[w].lost = work[w].lost
  BY <1>0, ReportWrites, Zenon
<1>2. \A v \in Workers \ {w} : Working(v)' <=> Working(v)
  BY <1>1, Zenon DEF Working
<1>3. CASE row' = row
  <2>1. \A v \in Workers : Fenced(v)'
    BY <1>0, <1>1, <1>2, <1>3, FenceStays, Zenon DEF RepairInv
  <2> QED BY <1>0, <1>1, <1>3, <2>1, Zenon DEF RepairInv, TypeOK
<1>4. CASE row' # row
  <2>1. PICK n \in RowType :
          /\ row' = [row EXCEPT ![work[w].job] = n]
          /\ n.status # "running" /\ n.lockedBy = NoWorker
    BY <1>0, <1>4, ReportWrites, Zenon
  <2>2. row' \in [Jobs -> RowType] /\ \A i \in Jobs : Locked(row'[i])
    BY <1>0, <2>1, WriteRow, Zenon DEF Locked
  <2>3. row'[work[w].job] = n /\ \A i \in Jobs \ {work[w].job} : row'[i] = row[i]
    BY <1>0, <2>1, Zenon DEF TypeOK
  <2>4. ASSUME NEW v \in Workers PROVE Fenced(v)'
    <3>1. Fenced(v) /\ v # NoWorker
      BY JobConstants, Zenon DEF RepairInv, NoWorker
    <3>2. Working(v) => row'[work[v].job] = row[work[v].job] \/ row'[work[v].job].lockedBy # v
      BY <2>1, <2>3, <3>1, Zenon DEF Fenced
    <3> QED BY <1>0, <1>1, <1>2, <3>1, <3>2, FenceStays, Zenon
  <2> QED BY <1>0, <1>1, <2>2, <2>4, Zenon DEF RepairInv, TypeOK, Locked
<1> QED BY <1>3, <1>4, Zenon

(* A crash beside the repair writes no row. *)
LEMMA RepairCrashStep ==
  ASSUME RepairInv, NEW w \in Workers, Crash(w), UNCHANGED batch
  PROVE  RepairInv'
<1> DEFINE g == [Idle EXCEPT !.pc = "gone"]
<1>1. g \in WorkType /\ g.pc = "gone"
  BY Zenon DEF Idle, WorkType
<1>2. work' = [work EXCEPT ![w] = g] /\ row' = row /\ now' = now /\ requeues' = requeues
  BY Zenon DEF Crash
<1> HIDE DEF g
<1>3. work' \in [Workers -> WorkType] /\ work'[w].pc = "gone"
      /\ \A v \in Workers \ {w} : work'[v] = work[v]
  BY <1>1, <1>2, Zenon DEF RepairInv, TypeOK
<1>4. ~Working(w)' /\ \A v \in Workers \ {w} : Working(v)' <=> Working(v)
  BY <1>3, Zenon DEF Working
<1>5. \A v \in Workers : Fenced(v)'
  BY <1>2, <1>3, <1>4, FenceStays, Zenon DEF RepairInv, Fenced
<1> QED BY <1>2, <1>3, <1>5, Zenon DEF RepairInv, TypeOK

(* The repair itself unlocks the row it puts back.                           *)
LEMMA RepairRowStep ==
  ASSUME RepairInv, NEW j \in Jobs, RequeueStale(j)
  PROVE  RepairInv'
<1>0. TypeOK /\ work' = work /\ now' = now /\ requeues' = requeues /\ batch' \subseteq Jobs
  BY Zenon DEF RepairInv, RequeueStale
<1>1. CASE row' = row
  <2>1. \A v \in Workers : Working(v)' <=> Working(v)
    BY <1>0, Zenon DEF Working
  <2>2. \A v \in Workers : Fenced(v)'
    BY <1>0, <1>1, <2>1, FenceStays, Zenon DEF RepairInv
  <2> QED BY <1>0, <1>1, <2>2, Zenon DEF RepairInv, TypeOK
<1>2. CASE row' # row
  <2> DEFINE u == Unlocked(row[j])
             n == [u EXCEPT !.status = "queued"]
  <2>1. u \in RowType /\ u.lockedBy = NoWorker
    BY <1>0, RowFields, Zenon
  <2>2. row' = [row EXCEPT ![j] = n]
    BY <1>2, Zenon DEF RequeueStale
  <2> HIDE DEF u
  <2>3. n \in RowType /\ n.status = "queued" /\ n.lockedBy = NoWorker
    BY <2>1, Zenon DEF RowType
  <2> HIDE DEF n
  <2>4. /\ row' \in [Jobs -> RowType] /\ \A i \in Jobs : Locked(row'[i])
        /\ \A v \in Workers : Fenced(v)'
    BY <1>0, <2>2, <2>3, FreeRowFences, Zenon
  <2> QED BY <1>0, <2>4, Zenon DEF RepairInv, TypeOK, Locked
<1> QED BY <1>1, <1>2, Zenon

(* A step that leaves rows and workers alone keeps the invariant of the repair. *)
LEMMA RepairQuietStep ==
  ASSUME RepairInv, row' = row, work' = work, now' \in Nat, requeues' = requeues,
         batch' \subseteq Jobs
  PROVE  RepairInv'
<1>1. \A v \in Workers : Working(v)' <=> Working(v)
  BY Zenon DEF Working
<1>2. \A v \in Workers : Fenced(v)'
  BY <1>1, FenceStays, Zenon DEF RepairInv
<1> QED BY <1>2, Zenon DEF RepairInv, TypeOK

(* Every step of the queue beside the repair keeps its invariant. *)
LEMMA RepairStep == RepairInv /\ [RepairNext]_repairVars => RepairInv'
<1> SUFFICES ASSUME RepairInv, [RepairNext]_repairVars PROVE RepairInv'
  BY Zenon
<1>0. now \in Nat /\ batch \subseteq Jobs
  BY Zenon DEF RepairInv, TypeOK
<1>1. CASE Next /\ UNCHANGED batch
  <2>1. CASE Tick
    BY <1>0, <1>1, <2>1, RepairQuietStep DEF Tick
  <2> QED BY <1>1, <2>1, RepairQueuedStep, RepairClaimStep, RepairHandlerStep,
             RepairReportStep, RepairCrashStep, Zenon DEF Next, WorkerStep
<1>2. CASE SelectStale
  <2>1. row' = row /\ work' = work /\ now' = now /\ requeues' = requeues /\ batch' \subseteq Jobs
    BY <1>2, Zenon DEF SelectStale, vars
  <2> QED BY <1>0, <2>1, RepairQuietStep, Zenon
<1>3. ASSUME NEW j \in Jobs, RequeueStale(j) \/ RepairFails(j) PROVE RepairInv'
  <2>1. CASE RepairFails(j)
    <3>1. row' = row /\ work' = work /\ now' = now /\ requeues' = requeues /\ batch' \subseteq Jobs
      BY <1>0, <2>1, Zenon DEF RepairFails, vars
    <3> QED BY <1>0, <3>1, RepairQuietStep, Zenon
  <2> QED BY <1>3, <2>1, RepairRowStep, Zenon
<1>4. CASE UNCHANGED repairVars
  <2>1. row' = row /\ work' = work /\ now' = now /\ requeues' = requeues /\ batch' = batch
    BY <1>4, Zenon DEF repairVars, vars
  <2> QED BY <1>0, <2>1, RepairQuietStep, Zenon
<1> QED BY <1>1, <1>2, <1>3, <1>4, Zenon DEF RepairNext

(* The queue and the repair start in their invariant. *)
LEMMA RepairStart == RepairInit => RepairInv
<1> SUFFICES ASSUME RepairInit PROVE RepairInv
  BY Zenon
<1>1. Init /\ batch = {}
  BY Zenon DEF RepairInit
<1>2. JobInv
  BY <1>1, InitJobInv, Zenon
<1>3. \A w \in Workers : ~Working(w)
  BY <1>1, Zenon DEF Init, Idle, Working
<1> QED BY <1>1, <1>2, <1>3, Zenon DEF JobInv, RepairInv, Fenced

(* A job ends by the report of its holder: no other statement, the repair's  *)
(* included, makes a row "succeeded" or "dead".                              *)
LEMMA RepairOutcome ==
  ASSUME RepairInv, [RepairNext]_repairVars, NEW j \in Jobs,
         row[j].status # row'[j].status, row'[j].status \in {"succeeded", "dead"}
  PROVE  \E w \in Workers :
           /\ work[w].pc \in {"succeed", "fail"} /\ work[w].job = j
           /\ row[j].lockedBy = w /\ ~work[w].lost
<1>0. TypeOK
  BY Zenon DEF RepairInv
<1>1. ASSUME NEW w \in Workers, NEW i \in Jobs, Enqueue(w, i) \/ RequeueDead(w, i) PROVE FALSE
  <2>1. PICK n \in RowType : n.status = "queued" /\ row' = [row EXCEPT ![i] = n]
    BY <1>0, <1>1, QueuedWrites, Zenon
  <2> QED BY <1>0, <2>1, Zenon DEF TypeOK
<1>2. ASSUME NEW w \in Workers, Claim(w) PROVE FALSE
  <2>1. PICK i \in Jobs, n \in RowType : n.status = "running" /\ row' = [row EXCEPT ![i] = n]
    BY <1>0, <1>2, ClaimWrites
  <2> QED BY <1>0, <2>1, Zenon DEF TypeOK
<1>3. ASSUME NEW i \in Jobs, RequeueStale(i) PROVE FALSE
  <2> DEFINE u == Unlocked(row[i])
             n == [u EXCEPT !.status = "queued"]
  <2>1. u \in RowType
    BY <1>0, RowFields, Zenon
  <2>2. row' = row \/ row' = [row EXCEPT ![i] = n]
    BY <1>3, Zenon DEF RequeueStale
  <2> HIDE DEF u
  <2>3. n.status = "queued"
    BY <2>1, Zenon DEF RowType
  <2> HIDE DEF n
  <2> QED BY <1>0, <2>2, <2>3, Zenon DEF TypeOK
<1>4. ASSUME NEW w \in Workers, MarkSucceeded(w) \/ MarkFailed(w)
      PROVE  /\ work[w].pc \in {"succeed", "fail"} /\ work[w].job = j
             /\ row[j].lockedBy = w /\ ~work[w].lost
  <2>0. Fenced(w) /\ Working(w) /\ work[w].pc \in {"succeed", "fail"}
    BY <1>4, Zenon DEF RepairInv, MarkSucceeded, MarkFailed, Working
  <2>1. work[w].job \in Jobs /\ work[w].attempts > 0 /\ row' # row
    BY <2>0, Zenon DEF Fenced
  <2>2. PICK n \in RowType : row' = [row EXCEPT ![work[w].job] = n] /\ Holds(w)
    BY <1>0, <1>4, <2>1, ReportWrites, Zenon
  <2>3. work[w].job = j
    BY <1>0, <2>1, <2>2, Zenon DEF TypeOK
  <2> QED BY <2>0, <2>2, <2>3, Zenon DEF Holds, Fenced
<1>5. row' # row
  BY Zenon
<1> QED BY <1>1, <1>2, <1>3, <1>4, <1>5, Zenon DEF RepairNext, Next, WorkerStep, HandlerEnds,
         Crash, Tick, SelectStale, RepairFails, repairVars, vars

(* A job succeeds or dies only by the report of its last claim, in any       *)
(* number of workers and beside any number of repair batches: fencing by     *)
(* locked_by (postgres-job-store.ts) does not depend on the lease, which the *)
(* repair of resumable-repair.service.ts ignores.                            *)
THEOREM RepairKeepsTheFence == RepairSpec => OutcomeIsOfTheLastClaim
<1>1. RepairInv /\ [RepairNext]_repairVars =>
        [\A j \in Jobs :
           row[j].status # row'[j].status /\ row'[j].status \in {"succeeded", "dead"} =>
             \E w \in Workers :
               /\ work[w].pc \in {"succeed", "fail"} /\ work[w].job = j
               /\ row[j].lockedBy = w /\ ~work[w].lost]_repairVars
  BY RepairOutcome, Zenon
<1> QED BY <1>1, RepairStart, RepairStep, PTL DEF RepairSpec, OutcomeIsOfTheLastClaim
=============================================================================
