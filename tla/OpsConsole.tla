----------------------------- MODULE OpsConsole -----------------------------
(***************************************************************************)
(* What operators see and do: degraded mode, the health summary, and the   *)
(* dashboard of failed jobs with its retries.  Three machines that share   *)
(* no state.                                                               *)
(***************************************************************************)
EXTENDS Integers, Sequences, FiniteSets, SequencesExt

(***************************************************************************)
(* ops/degraded-mode.service.ts over ops/dependency-degradation.ts: probes  *)
(* of the dependencies, operators' overrides, a cached report and the       *)
(* capability decisions made from it.  Concurrent calls of getStatus probe, *)
(* wait and then overwrite one cache.                                       *)
(*                                                                         *)
(* A report gives each dependency its state and whether that state is an    *)
(* override.  cache.from and served.age are history: when the probes of the *)
(* cached report began, and how old they were when it was served.           *)
(***************************************************************************)

CONSTANTS
    StatusCalls,    \* concurrent calls of getStatus
    CacheTtl,       \* cacheTtlMs
    MaxSecond,
    Watched,        \* the dependencies that have a probe in this instance
    ProbeStates     \* what a probe may find

VARIABLES second, override, cache, call, served

modeVars == <<second, override, cache, call, served>>

Dependencies == <<"stellar_horizon", "postgres", "redis_queue", "email_provider">>

Capabilities == {"invoice.create", "invoice.read", "payment.verify", "export.create",
                 "notification.send", "job.enqueue"}

\* DEPENDENCY_MATRIX: the fallback of a capability while a dependency is down.
Fallback(d, cap) ==
    IF d = "stellar_horizon" /\ cap = "payment.verify" THEN "defer"
    ELSE IF d = "postgres"
            /\ cap \in {"invoice.create", "invoice.read", "payment.verify", "export.create"} THEN "refuse"
    ELSE IF d = "redis_queue" /\ cap \in {"job.enqueue", "notification.send"} THEN "defer"
    ELSE IF d = "email_provider" /\ cap = "notification.send" THEN "defer"
    ELSE "none"

Rank == [none |-> -1, serve_stale |-> 0, defer |-> 1, refuse |-> 2]

\* A dependency without a probe is evaluated as unknown.
NoReport == [d \in Watched |-> [state |-> "unknown", manual |-> FALSE]]

Invalidated == [valid |-> FALSE, at |-> 0, from |-> 0, report |-> NoReport]

IdleCall == [pc |-> "idle", began |-> 0, seen |-> {}, report |-> NoReport]

ModeInit ==
    /\ second = 0
    /\ override = [d \in Watched |-> "none"]
    /\ cache = Invalidated
    /\ call = [c \in StatusCalls |-> IdleCall]
    /\ served = [report |-> NoReport, overrides |-> {}, cached |-> FALSE, age |-> 0]

SecondPasses ==
    /\ second < MaxSecond /\ second' = second + 1
    /\ UNCHANGED <<override, cache, call, served>>

SetOverride(d, s) ==
    /\ override' = [override EXCEPT ![d] = s]
    /\ cache' = Invalidated
    /\ UNCHANGED <<second, call, served>>

ClearOverride(d) ==
    /\ override[d] # "none"
    /\ override' = [override EXCEPT ![d] = "none"]
    /\ cache' = Invalidated
    /\ UNCHANGED <<second, call, served>>

\* recordFailure and registerProbe only drop the cached report.
RecordFailure ==
    /\ cache' = Invalidated
    /\ UNCHANGED <<second, override, call, served>>

Overridden == {d \in Watched : override[d] # "none"}

FromCache(forceRefresh) ==
    /\ ~forceRefresh /\ cache.valid
    /\ second - cache.at < CacheTtl
    /\ Overridden = {}

\* getStatus answers from the cache, or begins to probe.
GetStatus(c, forceRefresh) ==
    /\ call[c].pc = "idle"
    /\ IF FromCache(forceRefresh)
       THEN /\ served' = [report |-> cache.report, overrides |-> Overridden, cached |-> TRUE,
                          age |-> second - cache.from]
            /\ UNCHANGED call
       ELSE /\ call' = [call EXCEPT ![c] = [IdleCall EXCEPT !.pc = "probing", !.began = second]]
            /\ UNCHANGED served
    /\ UNCHANGED <<second, override, cache>>

\* A probe answers, late or in time, or its timeout finds the dependency down.
ProbeAnswers(c, d, s) ==
    /\ call[c].pc = "probing" /\ d \notin call[c].seen
    /\ call' = [call EXCEPT ![c].seen = @ \cup {d}, ![c].report[d].state = s]
    /\ UNCHANGED <<second, override, cache, served>>

\* applyOverridesToReport
Merged(report) ==
    [d \in Watched |-> IF d \in Overridden THEN [state |-> override[d], manual |-> TRUE] ELSE report[d]]

Answer(c) ==
    LET report == Merged(call[c].report) IN
    /\ call[c].pc = "probing" /\ call[c].seen = Watched
    /\ cache' = [valid |-> TRUE, at |-> call[c].began, from |-> call[c].began, report |-> report]
    /\ served' = [report |-> report, overrides |-> Overridden, cached |-> FALSE, age |-> 0]
    /\ call' = [call EXCEPT ![c] = IdleCall]
    /\ UNCHANGED <<second, override>>

ModeNext ==
    \/ SecondPasses \/ RecordFailure
    \/ \E d \in Watched : ClearOverride(d) \/ \E s \in ProbeStates : SetOverride(d, s)
    \/ \E c \in StatusCalls :
          \/ Answer(c)
          \/ \E force \in BOOLEAN : GetStatus(c, force)
          \/ \E d \in Watched, s \in ProbeStates : ProbeAnswers(c, d, s)

\* capabilityStatus: the strictest fallback among the dependencies that are
\* down, in the order of the matrix; a tie keeps the earlier one.
Stricter(cap, report, d, chosen) ==
    /\ d \in Watched /\ report[d].state = "down"
    /\ Rank[Fallback(d, cap)] > Rank[chosen.mode]

CapabilityStatus(report, cap) ==
    LET better(d, chosen) ==
          IF Stricter(cap, report, d, chosen) THEN [mode |-> Fallback(d, cap), dependency |-> d] ELSE chosen
        chosen == FoldLeftDomain(LAMBDA acc, i : better(Dependencies[i], acc),
                                 [mode |-> "none", dependency |-> "none"], Dependencies)
    IN [allowed |-> chosen.mode = "none", fallback |-> chosen]

-----------------------------------------------------------------------------
ModeTypeOK ==
    /\ override \in [Watched -> ProbeStates \cup {"none"}]
    /\ \A c \in StatusCalls : call[c].pc \in {"idle", "probing"} /\ call[c].seen \subseteq Watched

\* What a cached status tells was asked of the dependencies less than CacheTtl
\* ago, although a slow check may overwrite the report of one that began later.
CachedIsRecent ==
    served.cached => served.age < CacheTtl

\* An operator's override is in force from the moment it is set until the
\* moment it is cleared, whichever checks are under way: a status shows exactly
\* the overrides that stand when it is given out, none missing and none stale.
OverridesInForce ==
    {d \in Watched : served.report[d].manual} = served.overrides

\* A dependency that is down never lets a capability through that needs it, and
\* the answer names the strictest fallback: with the ledger and the storage
\* both down a verification is refused, not deferred.
NoFalsePositive ==
    \A cap \in Capabilities :
       LET hit == {d \in Watched : served.report[d].state = "down" /\ Fallback(d, cap) # "none"}
           status == CapabilityStatus(served.report, cap)
       IN /\ status.allowed <=> hit = {}
          /\ hit # {} => /\ status.fallback.dependency \in hit
                         /\ \A d \in hit : Rank[Fallback(d, cap)] <= Rank[status.fallback.mode]

-----------------------------------------------------------------------------
(***************************************************************************)
(* ops/ops-health.ts: the maintainers' summary, built from the log buffer,  *)
(* three bounded job lists and the overdue invoices, read one after another *)
(* while jobs move on.                                                      *)
(*                                                                         *)
(* A job is "dead", "stale" (running with an expired lease, or queued too   *)
(* long), "fresh" or "done".  check.stuck is history: the jobs that have    *)
(* been dead or stale ever since the check began.                           *)
(***************************************************************************)

CONSTANTS
    QueueJobs,
    ScanCap     \* OPS_THRESHOLDS.scanCap

VARIABLES jobState, overdue, errors, check

healthVars == <<jobState, overdue, errors, check>>

NoCheck == [pc |-> "idle", categories |-> {}, truncated |-> FALSE, telemetry |-> TRUE, stuck |-> {}, status |-> "none"]

HealthInit ==
    /\ jobState \in [QueueJobs -> {"dead", "stale", "fresh", "done"}]
    /\ overdue \in BOOLEAN /\ errors \in BOOLEAN
    /\ check = NoCheck

\* Worker, sweep and requests go on.
JobMoves(q) ==
    /\ \E s \in {"dead", "stale", "fresh", "done"} \ {jobState[q]} :
          /\ <<jobState[q], s>> \in {<<"fresh", "stale">>, <<"fresh", "done">>, <<"fresh", "dead">>,
                                     <<"stale", "fresh">>, <<"dead", "fresh">>}
          /\ jobState' = [jobState EXCEPT ![q] = s]
    /\ check' = [check EXCEPT !.stuck = @ \ {q}]
    /\ UNCHANGED <<overdue, errors>>

\* The first read of the log buffer, whose failure is caught.
ReadLogs(works) ==
    /\ check.pc = "idle"
    /\ check' = [NoCheck EXCEPT !.pc = "jobs", !.telemetry = works,
                                !.stuck = {q \in QueueJobs : jobState[q] \in {"dead", "stale"}}]
    /\ UNCHANGED <<jobState, overdue, errors>>

\* Three lists; the stale ones are sought among the first ScanCap of a status.
ListJobs(listed) ==
    LET open == {q \in QueueJobs : jobState[q] \in {"stale", "fresh"}}
        dead == {q \in QueueJobs : jobState[q] = "dead"}
    IN /\ check.pc = "jobs"
       /\ listed \subseteq open
       /\ Cardinality(listed) = IF Cardinality(open) > ScanCap THEN ScanCap ELSE Cardinality(open)
       /\ check' = [check EXCEPT
             !.pc = "invoices",
             !.categories = (IF dead # {} THEN {"deadJobs"} ELSE {})
                            \cup (IF \E q \in listed : jobState[q] = "stale" THEN {"staleJobs"} ELSE {}),
             !.truncated = Cardinality(open) > ScanCap]
       /\ UNCHANGED <<jobState, overdue, errors>>

ReadInvoices ==
    /\ check.pc = "invoices"
    /\ check' = [check EXCEPT !.pc = "report",
                              !.categories = @ \cup (IF overdue THEN {"invoiceExpiryDrift"} ELSE {})]
    /\ UNCHANGED <<jobState, overdue, errors>>

\* The buffer is read a second time, without a catch: a report, or none at all.
Report(works) ==
    LET attention == check.categories \cup (IF errors THEN {"serverErrors"} ELSE {})
                                      \cup (IF check.telemetry THEN {} ELSE {"telemetry"})
    IN /\ check.pc = "report"
       /\ check' = IF works THEN [check EXCEPT !.pc = "done", !.categories = attention,
                                     !.status = IF attention = {} THEN "ok" ELSE "attention"]
                   ELSE [NoCheck EXCEPT !.pc = "threw"]
       /\ UNCHANGED <<jobState, overdue, errors>>

HealthNext ==
    \/ \E q \in QueueJobs : JobMoves(q)
    \/ ReadInvoices
    \/ \E works \in BOOLEAN : ReadLogs(works) \/ Report(works)
    \/ \E listed \in SUBSET QueueJobs : ListJobs(listed)

-----------------------------------------------------------------------------
HealthTypeOK == check.pc \in {"idle", "jobs", "invoices", "report", "done", "threw"}

\* "ok" is said only when there is nothing to attend to: no server error, no
\* overdue invoice, telemetry readable, and no dead or, unless the lists were
\* cut, stale job that was there before the report began and stayed.
OkMeansQuiet ==
    check.status = "ok" =>
       /\ ~errors /\ ~overdue /\ check.telemetry
       /\ \A q \in check.stuck : check.truncated /\ jobState[q] = "stale"

-----------------------------------------------------------------------------
(***************************************************************************)
(* ops/partial-failure-dashboard.ts and domain/partial-failures.ts: what    *)
(* the dashboard says of a failed job, and PartialFailureRetryCoordinator,  *)
(* which requeues a dead one, guarded against double submission by an       *)
(* idempotency key and a lock per job, while the job runs, fails, dies or   *)
(* succeeds.                                                                *)
(*                                                                         *)
(* A failure's cause is "user" when one of USER_ACTION_CAUSES matches.      *)
(* requeues is history: per key and job, the times the job was requeued     *)
(* since the key was last forgotten or given to another job.                *)
(***************************************************************************)

CONSTANTS
    FailedJobs, RetryKeys, RetryCalls,
    RetryWindow,    \* windowMs
    MaxTick

VARIABLES work, seenKeys, inFlight, retry, requeues, tick

retryVars == <<work, seenKeys, inFlight, retry, requeues, tick>>

NoKeySent == "no key"

IdleRetry == [pc |-> "idle", job |-> "none", key |-> NoKeySent, at |-> 0]

Unseen == [job |-> "none", at |-> 0]

RetryInit ==
    /\ work = [j \in FailedJobs |-> [status |-> "queued", errors |-> 0, cause |-> "none"]]
    /\ seenKeys = [k \in RetryKeys |-> Unseen]
    /\ inFlight = {}
    /\ retry = [c \in RetryCalls |-> IdleRetry]
    /\ requeues = [k \in RetryKeys |-> [j \in FailedJobs |-> 0]]
    /\ tick = 0

Tick == tick < MaxTick /\ tick' = tick + 1 /\ UNCHANGED <<work, seenKeys, inFlight, retry, requeues>>

\* The worker: an attempt succeeds, fails and is queued again, or is the last.
Attempt(j) ==
    /\ work[j].status = "queued"
    /\ \/ work' = [work EXCEPT ![j].status = "succeeded"]
       \/ \E s \in {"queued", "dead"}, cause \in {"user", "system"} :
             work' = [work EXCEPT ![j] = [status |-> s, errors |-> 1, cause |-> cause]]
    /\ UNCHANGED <<seenKeys, inFlight, retry, requeues, tick>>

\* POST /jobs/:id/retry does not go through the coordinator.
AdminRequeue(j) ==
    /\ work[j].status = "dead"
    /\ work' = [work EXCEPT ![j].status = "queued"]
    /\ UNCHANGED <<seenKeys, inFlight, retry, requeues, tick>>

\* prune: keys older than the window are forgotten on every call.
Pruned == [k \in RetryKeys |-> IF tick - seenKeys[k].at > RetryWindow THEN Unseen ELSE seenKeys[k]]

Forgotten(k) == seenKeys[k].job # "none" /\ Pruned[k].job = "none"

\* retry up to its first await: a known key, a busy job, or the lock is taken.
Retry(c, j, k) ==
    /\ retry[c].pc = "idle"
    /\ seenKeys' = Pruned
    /\ requeues' = [q \in RetryKeys |-> IF Forgotten(q) THEN [i \in FailedJobs |-> 0] ELSE requeues[q]]
    /\ IF k # NoKeySent /\ Pruned[k].job = j
       THEN UNCHANGED <<retry, inFlight>>               \* duplicate
       ELSE IF j \in inFlight
       THEN UNCHANGED <<retry, inFlight>>               \* RETRY_IN_PROGRESS
       ELSE /\ retry' = [retry EXCEPT ![c] = [pc |-> "read", job |-> j, key |-> k, at |-> tick]]
            /\ inFlight' = inFlight \cup {j}
    /\ UNCHANGED <<work, tick>>

Leave(c) ==
    /\ retry' = [retry EXCEPT ![c] = IdleRetry]
    /\ inFlight' = inFlight \ {retry[c].job}

\* store.get answers: why the job may not be retried, or it goes on.
ReadJob(c) ==
    LET job == work[retry[c].job] IN
    /\ retry[c].pc = "read"
    /\ IF \/ job.status = "succeeded" \/ job.errors = 0   \* NOT_FAILED
          \/ job.cause = "user"                           \* USER_ACTION_REQUIRED
          \/ job.status # "dead"                          \* NOT_RETRYABLE_STATE
       THEN Leave(c)
       ELSE retry' = [retry EXCEPT ![c].pc = "requeue"] /\ UNCHANGED inFlight
    /\ UNCHANGED <<work, seenKeys, requeues, tick>>

\* store.requeueDead: conditional on the job still being dead.
RequeueDead(c) ==
    LET j == retry[c].job
        k == retry[c].key
    IN /\ retry[c].pc = "requeue"
       /\ IF work[j].status = "dead"
          THEN /\ work' = [work EXCEPT ![j].status = "queued"]
               /\ retry' = [retry EXCEPT ![c].pc = "remember"]
               /\ requeues' = IF k = NoKeySent THEN requeues ELSE [requeues EXCEPT ![k][j] = @ + 1]
               /\ UNCHANGED inFlight
          ELSE Leave(c) /\ UNCHANGED <<work, requeues>>
       /\ UNCHANGED <<seenKeys, tick>>

\* The key is remembered for this job, whatever it was used for before.
Remember(c) ==
    LET j == retry[c].job
        k == retry[c].key
    IN /\ retry[c].pc = "remember"
       /\ seenKeys' = IF k = NoKeySent THEN seenKeys ELSE [seenKeys EXCEPT ![k] = [job |-> j, at |-> retry[c].at]]
       /\ requeues' = IF k = NoKeySent THEN requeues
                      ELSE [requeues EXCEPT ![k] = [i \in FailedJobs |-> IF i = j THEN @[i] ELSE 0]]
       /\ Leave(c)
       /\ UNCHANGED <<work, tick>>

RetryNext ==
    \/ Tick
    \/ \E j \in FailedJobs : Attempt(j) \/ AdminRequeue(j)
    \/ \E c \in RetryCalls :
          \/ \E j \in FailedJobs, k \in RetryKeys \cup {NoKeySent} : Retry(c, j, k)
          \/ ReadJob(c) \/ RequeueDead(c) \/ Remember(c)

\* The dashboard's entry for a job: jobsToOperations, toPartialFailure, decorate.
Listed(j) == work[j].errors > 0 /\ work[j].status # "succeeded"

RecoveryAction(j) ==
    IF ~Listed(j) THEN "none"
    ELSE IF work[j].cause = "user" THEN "inspect"
    ELSE IF work[j].status # "dead" THEN "retry"
    ELSE "inspect"

-----------------------------------------------------------------------------
RetryTypeOK ==
    /\ inFlight \subseteq FailedJobs
    /\ \A c \in RetryCalls : retry[c].pc \in {"idle", "read", "requeue", "remember"}
    /\ \A j \in FailedJobs : work[j].status \in {"queued", "dead", "succeeded"}

\* A key requeues its job once: a second submission with it, at the same time,
\* after the job died again or after other keys were used, gets the first
\* result, until the window has passed or the key was used for another job.
OneRequeuePerKey ==
    \A k \in RetryKeys, j \in FailedJobs : requeues[k][j] <= 1

\* At most one retry of a job is past its checks at any moment, and a job is
\* never left locked by a call that has answered.
LockMatchesCalls ==
    /\ inFlight = {retry[c].job : c \in {d \in RetryCalls : retry[d].pc # "idle"}}
    /\ \A c, d \in RetryCalls : c # d /\ retry[c].pc # "idle" => retry[c].job # retry[d].job

\* No failure is out of sight: every dead job, and every job a retry is about
\* to requeue, is an open entry of the dashboard, unless it has succeeded since.
DeadIsListed ==
    \A j \in FailedJobs : /\ work[j].status = "dead" => RecoveryAction(j) = "inspect"
                          /\ (\E c \in RetryCalls : retry[c].pc = "requeue" /\ retry[c].job = j)
                                => Listed(j) \/ work[j].status = "succeeded"
=============================================================================
