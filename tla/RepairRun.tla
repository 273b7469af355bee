----------------------------- MODULE RepairRun -----------------------------
(***************************************************************************)
(* ops/resumable-repair.service.ts: a repair walks five phases in batches   *)
(* behind a cursor and saves a checkpoint after each batch; it is paused,   *)
(* killed and resumed, possibly while another executor still runs, and      *)
(* invoices are settled meanwhile.  JobRepair has the leases of jobs.       *)
(*                                                                         *)
(* One row of each kind stands for its table, two for the transactions; the *)
(* updates of one row are one step.  broken, touched, fault and shared     *)
(* are history: rows broken at the start, (phase, row) pairs really         *)
(* updated, the one fault that happened, whether two ever ran at once.      *)
(***************************************************************************)
EXTENDS Integers, FiniteSets, Sequences

CONSTANTS
    Executors,      \* calls of startRepairJob and resumeRepairJob
    BatchRows,      \* batchSize
    Scopes          \* pairs: options.phases, and the rows that may be broken

VARIABLES table, saved, exec, broken, touched, fault, shared

vars == <<table, saved, exec, broken, touched, fault, shared>>

Phases == <<"detached_transactions", "orphaned_transactions", "orphaned_payment_events",
            "inconsistent_invoices", "inconsistent_jobs">>

\* The rows of each phase's table by id.
RowsOf(phase) ==
    IF phase \in {"detached_transactions", "orphaned_transactions"} THEN {1, 2}
    ELSE IF phase = "orphaned_payment_events" THEN {3}
    ELSE IF phase = "inconsistent_invoices" THEN {4}
    ELSE {5}

\* link: the invoice a row points to exists, is gone, or there is none.  match:
\* the memo is that of an invoice.  status, paidAt, txHash, version: those of
\* the invoice; its transaction is known if linked.  done: the job's completed_at.
Healthy == [r \in 1..5 |->
    IF r \in {1, 2, 3} THEN [link |-> "ok", match |-> FALSE, was |-> FALSE]
    ELSE IF r = 4 THEN [status |-> "PENDING", paidAt |-> FALSE, txHash |-> FALSE, version |-> TRUE]
    ELSE [status |-> "succeeded", leased |-> FALSE, done |-> TRUE]]

RowStates(r) ==
    IF r \in {1, 2} THEN {row \in [link : {"ok", "gone", "none"}, match : BOOLEAN, was : {FALSE}] :
                              row.link = "ok" => ~row.match}
    ELSE IF r = 3 THEN [link : {"ok", "gone", "none"}, match : {FALSE}, was : {FALSE}]
    ELSE IF r = 4 THEN [status : {"PENDING", "PAID"}, paidAt : BOOLEAN, txHash : BOOLEAN, version : BOOLEAN]
    ELSE {row \in [status : {"queued", "running", "succeeded"}, leased : BOOLEAN, done : BOOLEAN] :
             row.leased => row.status = "running"}

\* The WHERE clauses of the queries, each on a row.
Detached(row) == row.link = "none" /\ row.match

Orphaned(row) == row.link = "gone"

InconsistentInvoice(row) ==
    \/ row.status = "PAID" /\ (~row.paidAt \/ ~row.txHash)
    \/ row.status # "PAID" /\ row.paidAt
    \/ ~row.version

InconsistentJob(row) ==
    \/ row.status = "running" /\ ~row.leased
    \/ row.status = "succeeded" /\ ~row.done
    \/ row.status \in {"queued", "running"} /\ row.done

Selected(phase, r) ==
    LET row == table[r] IN
    IF phase = "detached_transactions" THEN Detached(row)
    ELSE IF phase \in {"orphaned_transactions", "orphaned_payment_events"} THEN Orphaned(row)
    ELSE IF phase = "inconsistent_invoices" THEN InconsistentInvoice(row)
    ELSE InconsistentJob(row)

\* The guarded updates, from the row as it was selected (seen) to what it is
\* now.  An orphan keeps in its metadata what it pointed to.
Relinked(row) == IF row.link = "none" THEN [row EXCEPT !.link = "ok"] ELSE row

Isolated(row) == IF row.link = "gone" THEN [row EXCEPT !.link = "none", !.was = TRUE] ELSE row

EventIsolated(row) == Isolated(row)

InvoiceRepaired(seen, row) ==
    [row EXCEPT
       !.paidAt = IF seen.status = "PAID" /\ ~seen.paidAt THEN TRUE
                  ELSE IF seen.status # "PAID" /\ seen.paidAt /\ row.status # "PAID" THEN FALSE ELSE @,
       !.txHash = IF seen.status = "PAID" /\ ~seen.txHash THEN TRUE ELSE @,
       !.version = TRUE]

JobRepaired(seen, row) ==
    LET queued == seen.status = "running" /\ ~seen.leased /\ row.status = "running"
        status == IF queued THEN "queued" ELSE row.status
    IN [status |-> status,
        leased |-> row.leased /\ ~queued,
        done |-> IF seen.status = "succeeded" /\ ~seen.done THEN TRUE
                 ELSE IF seen.status \in {"queued", "running"} /\ seen.done /\ status \in {"queued", "running"}
                      THEN FALSE ELSE row.done]

Repaired(phase, seen, row) ==
    IF phase = "detached_transactions" THEN Relinked(row)
    ELSE IF phase = "orphaned_transactions" THEN Isolated(row)
    ELSE IF phase = "orphaned_payment_events" THEN EventIsolated(row)
    ELSE IF phase = "inconsistent_invoices" THEN InvoiceRepaired(seen, row)
    ELSE JobRepaired(seen, row)

NoCheckpoint == [status |-> "none", phases |-> {}, phase |-> 1, cursor |-> 0, dryRun |-> FALSE,
                 repaired |-> 0, failed |-> {}]

Idle == [pc |-> "idle", cp |-> NoCheckpoint, batch |-> {}, rows |-> Healthy, left |-> 0]

AllPhases == {Phases[i] : i \in 1..Len(Phases)}

Defects == {<<p, r>> \in AllPhases \X (1..5) : r \in RowsOf(p) /\ Selected(p, r)}

Init ==
    \E scope \in Scopes, dryRun \in BOOLEAN :
       /\ \E r, q \in scope.rows : \E x \in RowStates(r), y \in RowStates(q) :
             table = [Healthy EXCEPT ![r] = x, ![q] = y]
       /\ saved = [NoCheckpoint EXCEPT !.phases = scope.phases, !.dryRun = dryRun]
       /\ exec = [e \in Executors |-> Idle]
       /\ broken = Defects
       /\ touched = {} /\ fault = "none" /\ shared = FALSE

Running == {e \in Executors : exec[e].pc # "idle"}

\* Mutant: the next phase is looked up by position, not among those asked for
BadPhaseAfter(phases, n) ==
    IF n = 0 THEN CHOOSE i \in 1..Len(Phases) : Phases[i] \in phases ELSE 0

\* startRepairJob or resumeRepairJob, up to the checkpoint that executeJob saves.
PhaseAfter(phases, n) ==
    LET later == {i \in n + 1..Len(Phases) : Phases[i] \in phases} IN
    IF later = {} THEN 0 ELSE CHOOSE i \in later : \A j \in later : i <= j

Begin(e, maxBatches) ==
    LET cp == [saved EXCEPT !.status = "running",
                            !.phase = IF saved.status = "none" THEN PhaseAfter(saved.phases, 0) ELSE @]
    IN /\ exec[e].pc = "idle" /\ saved.status # "completed"
       /\ saved' = cp
       /\ exec' = [exec EXCEPT ![e] = [Idle EXCEPT !.pc = "select", !.cp = cp, !.left = maxBatches]]
       /\ shared' = (shared \/ Running # {})
       /\ UNCHANGED <<table, broken, touched, fault>>

\* The query of processBatch: the first BatchRows rows past the cursor.
Select(e) ==
    LET cp == exec[e].cp
        phase == Phases[cp.phase]
        past == {r \in RowsOf(phase) : r > cp.cursor /\ Selected(phase, r)}
        batch == {r \in past : Cardinality({q \in past : q < r}) < BatchRows}
    IN /\ exec[e].pc = "select"
       /\ exec' = [exec EXCEPT ![e].pc = "fix", ![e].batch = batch, 
             ![e].rows = [r \in 1..5 |-> IF r \in batch THEN table[r] ELSE Healthy[r]],
                               ![e].cp.cursor = IF Cardinality(batch) = BatchRows
                                                THEN CHOOSE r \in batch : \A q \in batch : q <= r ELSE 0]
       /\ UNCHANGED <<table, saved, broken, touched, fault, shared>>

\* The next row of the batch: updated and counted, or its update fails.
Fix(e) ==
    LET cp == exec[e].cp
        phase == Phases[cp.phase]
        r == CHOOSE r \in exec[e].batch : \A q \in exec[e].batch : r <= q
        now == IF cp.dryRun THEN table[r] ELSE Repaired(phase, exec[e].rows[r], table[r])
    IN /\ exec[e].pc = "fix" /\ exec[e].batch # {}
       /\ \/ /\ exec' = [exec EXCEPT ![e].batch = @ \ {r}, ![e].cp.repaired = @ + 1]
             /\ table' = [table EXCEPT ![r] = now]
             /\ touched' = IF now # table[r] THEN touched \cup {<<phase, r>>} ELSE touched
             /\ UNCHANGED fault
          \/ /\ fault = "none" /\ fault' = "row"
             /\ exec' = [exec EXCEPT ![e].batch = @ \ {r}, ![e].cp.failed = @ \cup {<<phase, r>>}]
             /\ UNCHANGED <<table, touched>>
       /\ UNCHANGED <<saved, broken, shared>>

\* Cursor or phase move on and the checkpoint is saved: more batches, paused
\* after maxBatches, or completed.
Save(e) ==
    LET cp == exec[e].cp
        onward == IF cp.cursor # 0 THEN cp
                  ELSE IF PhaseAfter(cp.phases, cp.phase) # 0 THEN [cp EXCEPT !.phase = PhaseAfter(cp.phases, @)]
                  ELSE [cp EXCEPT !.status = "completed"]
        next == IF onward.status # "completed" /\ exec[e].left = 1 THEN [onward EXCEPT !.status = "paused"] ELSE onward
    IN /\ exec[e].pc = "fix" /\ exec[e].batch = {}
       /\ saved' = next
       /\ exec' = [exec EXCEPT ![e] =
             IF next.status = "running"
             THEN [Idle EXCEPT !.pc = "select", !.cp = next, !.left = exec[e].left]
             ELSE Idle]
       /\ UNCHANGED <<table, broken, touched, fault, shared>>

\* A query that throws: the checkpoint is saved as failed, and can be resumed.
Fail(e) ==
    /\ exec[e].pc = "select" /\ fault = "none" /\ fault' = "query"
    /\ saved' = [exec[e].cp EXCEPT !.status = "failed"]
    /\ exec' = [exec EXCEPT ![e] = Idle]
    /\ UNCHANGED <<table, broken, touched, shared>>

\* The process dies; the checkpoint stays as last saved.
Crash(e) ==
    /\ exec[e].pc # "idle" /\ fault = "none" /\ fault' = "crash"
    /\ exec' = [exec EXCEPT ![e] = Idle]
    /\ UNCHANGED <<table, saved, broken, touched, shared>>

\* Elsewhere the invoice is settled: status, paid_at and hash in one statement.
Settled ==
    /\ table[4].status = "PENDING"
    /\ table' = [table EXCEPT ![4] = [@ EXCEPT !.status = "PAID", !.paidAt = TRUE, !.txHash = TRUE]]
    /\ UNCHANGED <<saved, exec, broken, touched, fault, shared>>

Next ==
    \/ Settled
    \/ \E e \in Executors :
          \/ \E n \in {0, 1} : Begin(e, n)
          \/ Select(e) \/ Fix(e) \/ Save(e) \/ Fail(e) \/ Crash(e)

Spec == Init /\ [][Next]_vars

\* An executor goes on from await to await, and an operator resumes a repair, one
\* batch at a time, until it is completed.
FairSpec ==
    /\ Spec
    /\ WF_vars(\E e \in Executors : Begin(e, 1))
    /\ \A e \in Executors : WF_vars(Select(e) \/ Fix(e) \/ Save(e))

-----------------------------------------------------------------------------
TypeOK ==
    /\ saved.status \in {"none", "running", "paused", "completed", "failed"}
    /\ saved.phase \in 1..Len(Phases)
    /\ \A r \in 1..3 : table[r].link \in {"ok", "gone", "none"}
    /\ table[4].status \in {"PENDING", "PAID"} /\ table[5] \in RowStates(5)

\* A repair that ends as completed left nothing broken of what it was started
\* for, however often it was paused, failed, killed and resumed, except rows
\* whose update failed and which its report names.  A transaction isolated from
\* a missing invoice may match another one: a second repair relinks it.
CompletedMeansRepaired ==
    saved.status = "completed" /\ ~saved.dryRun /\ ~shared
       => \A d \in broken \cap Defects : d[1] \in saved.phases => d \in saved.failed

\* The report counts as repaired what was repaired: never more rows than were
\* updated and, unless a process died, never fewer; a dry run updates none.
ReportIsHonest ==
    /\ saved.dryRun => touched = {}
    /\ saved.status = "completed" /\ ~shared /\ ~saved.dryRun /\ table[4].status # "PAID"
          => /\ saved.repaired <= Cardinality(touched)
             /\ fault # "crash" => saved.repaired = Cardinality(touched)

\* No repair destroys evidence, even from a stale read or beside a second
\* executor: a paid invoice keeps its payment time and hash, a link to an
\* existing invoice is never cut, and a cut link is kept in the metadata.
KeepsEvidence ==
    /\ table[4].status = "PAID" => /\ table[4].paidAt => table'[4].paidAt
                                   /\ table[4].txHash => table'[4].txHash
    /\ \A r \in 1..3 : /\ table[r].link = "ok" => table'[r].link = "ok"
                       /\ table[r].link = "gone" /\ table'[r].link # "gone" => table'[r].was

\* A repair that is resumed batch by batch gets to the end of its phases, although a
\* query fails, a process dies or a second executor saves an older cursor over
\* a newer one.
RepairEnds == (saved.status # "none") ~> (saved.status = "completed")
=============================================================================
