----------------------------- MODULE Retention -----------------------------
(***************************************************************************)
(* The retention sweep (db/retention.ts, db/retention-sweep.ts): the ids    *)
(* protected by a settlement are read, then each table, the records are     *)
(* classified, and the eligible ones of each table deleted in one statement *)
(* by id alone, while invoices may be settled between the queries.          *)
(*                                                                         *)
(* Ages are "young" (inside every window), "mid" (past the 30 days of a     *)
(* job) and "old" (past every window).  swept is history: what the sweep    *)
(* deleted.                                                                 *)
(***************************************************************************)
EXTENDS Integers, FiniteSets, Sequences, SequencesExt

CONSTANTS
    Bills,        \* ids of invoices; each may have one event and one transaction
    OldJobs,      \* ids of jobs
    BatchSize,    \* batchSize: rows deleted per table and sweep
    TableSets     \* the tables a sweep may be asked for

VARIABLES rows, sweep, swept

vars == <<rows, sweep, swept>>

\* TABLE_CLASS in its order, which is that of the loads and the deletes.
SweepTables == <<"invoices", "transactions", "payment_events", "jobs">>

InvoiceRow == [here : {TRUE}, status : {"PENDING", "EXPIRED", "PAID"}, age : {"young", "old"}, hold : BOOLEAN]

EventRow == [here : BOOLEAN, age : {"young", "old"}]

JobRow == [here : {TRUE}, status : {"succeeded", "dead"}, age : {"mid", "old"}]

NotStarted == [pc |-> "idle", tables |-> {}, dryRun |-> TRUE, links |-> {},
               eligible |-> [t \in {"invoices", "payment_events", "jobs"} |-> {}], at |-> 1]

Init ==
    /\ rows \in [invoices : [Bills -> InvoiceRow], payment_events : [Bills -> EventRow],
                 jobs : [OldJobs -> JobRow]]
    /\ \A b \in Bills : /\ ~rows.payment_events[b].here => rows.payment_events[b].age = "young"
                        /\ rows.invoices[b].age = "young" => rows.payment_events[b].age = "young"
                        /\ rows.invoices[b].status = "PENDING" => rows.invoices[b].age = "young" /\ ~rows.invoices[b].hold
    /\ sweep = NotStarted
    /\ swept = [t \in {"invoices", "payment_events", "jobs"} |-> {}]

\* classifyRecord: settlement, then holds, then the window of the class.  The
\* status of an invoice or of a job is not looked at, only invoices are read
\* with their metadata, and the links hold ids of invoices only.
Window(table, deadLetter) ==
    IF table = "jobs" /\ ~deadLetter THEN {"mid", "old"} ELSE {"old"}

Eligible(table, id) ==
    LET row == rows[table][id] IN
    /\ row.here
    /\ table = "invoices" => id \notin sweep.links /\ ~row.hold
    /\ row.age \in Window(table, table = "jobs" /\ row.status = "dead")

\* loadSettlementLinks: the ids of invoices that are PAID.  One with a row of
\* transactions is linked too; nothing in the program writes such a row.
LoadSettlementLinks(tables, dryRun) ==
    /\ sweep.pc = "idle"
    /\ sweep' = [NotStarted EXCEPT !.pc = "load", !.tables = tables, !.dryRun = dryRun,
                    !.links = {b \in Bills : /\ rows.invoices[b].here
                                             /\ rows.invoices[b].status = "PAID"}]
    /\ UNCHANGED <<rows, swept>>

Finished(s) == [NotStarted EXCEPT !.pc = s]

Advance(s) == IF s.at = Len(SweepTables) THEN [s EXCEPT !.at = 1, !.pc = "delete"] ELSE [s EXCEPT !.at = @ + 1]

\* loadTable.  The transactions table has no column created_at: the query of
\* it fails and with it the whole sweep, before anything is deleted.
LoadTable ==
    LET table == SweepTables[sweep.at] IN
    /\ sweep.pc = "load"
    /\ sweep' = IF table \notin sweep.tables THEN Advance(sweep)
                ELSE IF table = "transactions" THEN Finished("failed")
                ELSE Advance([sweep EXCEPT !.eligible[table] = {id \in DOMAIN rows[table] : Eligible(table, id)}])
    /\ UNCHANGED <<rows, swept>>

\* The first BatchSize eligible rows in the order of the query, which is none.
Batches(table) ==
    {ids \in SUBSET sweep.eligible[table] :
        Cardinality(ids) = IF Cardinality(sweep.eligible[table]) <= BatchSize
                           THEN Cardinality(sweep.eligible[table]) ELSE BatchSize}

\* DELETE ... WHERE id = ANY(ids): an invoice that a payment event refers to
\* stops the statement and the sweep; a transaction only loses its link.
DeleteBatch(ids) ==
    LET table == SweepTables[sweep.at]
        gone == {id \in ids : rows[table][id].here}
        blocked == table = "invoices" /\ \E b \in gone : rows.payment_events[b].here
    IN /\ sweep.pc = "delete" /\ ~sweep.dryRun
       /\ table \in DOMAIN sweep.eligible /\ ids \in Batches(table)
       /\ IF blocked THEN sweep' = Finished("failed") /\ UNCHANGED <<rows, swept>>
          ELSE /\ rows' = [rows EXCEPT ![table] = [id \in DOMAIN @ |->
                                          IF id \in gone THEN [@[id] EXCEPT !.here = FALSE] ELSE @[id]]]
               /\ swept' = [swept EXCEPT ![table] = @ \cup gone]
               /\ sweep' = IF sweep.at = Len(SweepTables) THEN Finished("done") ELSE [sweep EXCEPT !.at = @ + 1]

SkipDelete ==
    /\ sweep.pc = "delete"
    /\ sweep.dryRun \/ SweepTables[sweep.at] \notin DOMAIN sweep.eligible
    /\ sweep' = IF sweep.dryRun THEN Finished("done") ELSE [sweep EXCEPT !.at = @ + 1]
    /\ UNCHANGED <<rows, swept>>

\* markInvoiceAsPaid and, in a statement of its own, its event.  An invoice
\* lives at most MAX_INVOICE_EXPIRY_DAYS, so one past the window is not payable.
MarkPaid(b) ==
    /\ rows.invoices[b].here /\ rows.invoices[b].status = "PENDING" /\ rows.invoices[b].age = "young"
    /\ rows' = [rows EXCEPT !.invoices[b].status = "PAID"]
    /\ UNCHANGED <<sweep, swept>>

LogPaymentEvent(b) ==
    /\ rows.invoices[b].here /\ rows.invoices[b].age = "young" /\ ~rows.payment_events[b].here
    /\ rows' = [rows EXCEPT !.payment_events[b] = [here |-> TRUE, age |-> "young"]]
    /\ UNCHANGED <<sweep, swept>>

Next ==
    \/ \E tables \in TableSets, dryRun \in BOOLEAN :
          LoadSettlementLinks(tables, dryRun)
    \/ LoadTable \/ SkipDelete
    \/ \E ids \in SUBSET (Bills \cup OldJobs) : DeleteBatch(ids)
    \/ \E b \in Bills : MarkPaid(b) \/ LogPaymentEvent(b)

Spec == Init /\ [][Next]_vars

-----------------------------------------------------------------------------
TypeOK ==
    /\ sweep.pc \in {"idle", "load", "delete", "done", "failed"}
    /\ sweep.at \in 1..Len(SweepTables)
    /\ \A t \in DOMAIN swept : swept[t] \subseteq DOMAIN rows[t]

\* Protection always wins: no invoice is deleted that was paid, that is under
\* a hold or inside its window, whatever was settled since the sweep read which
\* invoices are protected.
ProtectionWins ==
    \A b \in swept.invoices : /\ rows.invoices[b].status # "PAID"
                              /\ ~rows.invoices[b].hold /\ rows.invoices[b].age = "old"

\* One sweep deletes at most one batch of each table and a dry run nothing, so
\* a wrong rule costs no more than that before someone looks at the report.
BlastRadius ==
    \A t \in DOMAIN swept : Cardinality(swept[t]) <= BatchSize
=============================================================================
