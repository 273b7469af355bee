------------------------------ MODULE Database ------------------------------
(***************************************************************************)
(* The database itself: verification after a restore, and the schema       *)
(* migration.  Two machines that share no state.                           *)
(***************************************************************************)
EXTENDS Integers, Sequences, FiniteSets, SequencesExt

(***************************************************************************)
(* The two verifications of a restored database: the SQL checks of          *)
(* db/restore-validation.ts and the snapshot check of                       *)
(* db/snapshot-restore-verification.ts, run on what the backend wrote and   *)
(* a restore then damaged in at most one way.                               *)
(*                                                                         *)
(* An invoice is created at 0, expires at Life and is paid when paidAt > 0. *)
(* rows is a sequence, as a lost UNIQUE constraint leaves a row twice.      *)
(* verdict and snapshot are the two reports; unproved is history, the       *)
(* invoices settled by POST /verify, which writes no transaction.           *)
(***************************************************************************)

CONSTANTS
    Bills,    \* ids of invoices; memo and amount are one per id
    Life,     \* expiresAt - createdAt
    MaxTime

VARIABLES rows, txs, events, job, index, tables, time, damage, verdict, snapshot, unproved

data == <<rows, txs, events, job, index, tables>>

restoreVars == <<rows, txs, events, job, index, tables, time, damage, verdict, snapshot, unproved>>

Tables == {"invoices", "transactions", "payment_events", "jobs"}

None == "none"

Bill(b) == [id |-> b, memo |-> b, amount |-> 1, status |-> "PENDING", paidAt |-> 0, tx |-> None,
            created |-> 0, expires |-> Life, version |-> 1]

IdleJob == [status |-> "queued", lease |-> 0, completedAt |-> 0]

NoReport == [done |-> FALSE, ok |-> FALSE, failed |-> {}, unknown |-> {}, total |-> 0]

NoSnapshot == [done |-> FALSE, ok |-> FALSE, kinds |-> {}, indexed |-> {}, sum |-> 0]

RestoreInit ==
    /\ rows = <<>> /\ txs = {} /\ events = {} /\ job = IdleJob /\ index = {} /\ tables = Tables
    /\ time = 1 /\ damage = None /\ verdict = NoReport /\ snapshot = NoSnapshot /\ unproved = {}

Places == DOMAIN rows

Held(b) == \E p \in Places : rows[p].id = b

Keep == UNCHANGED <<damage, verdict, snapshot>>

Healthy == damage = None /\ ~verdict.done

-----------------------------------------------------------------------------
\* The backend's writes, each with the index record it updates.
Indexed(b, status) == {r \in index : r.id # b} \cup {[id |-> b, status |-> status]}

Create(b) ==
    /\ Healthy /\ ~Held(b)
    /\ rows' = Append(rows, Bill(b))
    /\ index' = Indexed(b, "PENDING")
    /\ Keep /\ UNCHANGED <<txs, events, job, tables, time, unproved>>

\* saveTransaction: the row precedes the settlement, which may then fail.
SaveTransaction(p) ==
    /\ Healthy /\ rows[p].status = "PENDING"
    /\ txs' = txs \cup {[hash |-> rows[p].id, inv |-> rows[p].id, memo |-> rows[p].memo, amount |-> 1, copy |-> 1]}
    /\ Keep /\ UNCHANGED <<rows, events, job, index, tables, time, unproved>>

\* markAsPaid with its event, by the monitor after saveTransaction or by /verify.
MarkAsPaid(p) ==
    LET b == rows[p].id IN
    /\ Healthy /\ rows[p].status = "PENDING" /\ rows[p].expires > time
    /\ rows' = [rows EXCEPT ![p].status = "PAID", ![p].tx = b, ![p].paidAt = time, ![p].version = @ + 1]
    /\ events' = events \cup {b}
    /\ index' = Indexed(b, "PAID")
    /\ unproved' = IF \E t \in txs : t.inv = b THEN unproved ELSE unproved \cup {b}
    /\ Keep /\ UNCHANGED <<txs, job, tables, time>>

Close(p, status) ==
    /\ Healthy /\ rows[p].status = "PENDING"
    /\ status = "EXPIRED" => rows[p].expires <= time
    /\ rows' = [rows EXCEPT ![p].status = status]
    /\ index' = Indexed(rows[p].id, status)
    /\ Keep /\ UNCHANGED <<txs, events, job, tables, time, unproved>>

RunJob(to) ==
    /\ Healthy
    /\ \/ job.status = "queued" /\ to = "running" /\ job' = [job EXCEPT !.status = to, !.lease = time]
       \/ job.status = "running" /\ to \in {"succeeded", "dead"}
          /\ job' = [status |-> to, lease |-> 0, completedAt |-> time]
    /\ Keep /\ UNCHANGED <<rows, txs, events, index, tables, time, unproved>>

Tick ==
    /\ Healthy /\ time < MaxTime
    /\ time' = time + 1
    /\ Keep /\ UNCHANGED <<rows, txs, events, job, index, tables, unproved>>

-----------------------------------------------------------------------------
\* What a restore may leave: rows of one table lost or older than the others,
\* a constraint gone, a column or a whole table missing.
Damage(what, p) ==
    /\ Healthy /\ damage' = what
    /\ CASE what = "lost invoice" ->
              rows' = [i \in 1..Len(rows) - 1 |-> rows[IF i < p THEN i ELSE i + 1]] /\ UNCHANGED <<txs, job, tables>>
         [] what = "lost transaction" ->
              txs' = {t \in txs : t.inv # rows[p].id} /\ UNCHANGED <<rows, job, tables>>
         [] what = "detached" ->
              txs' = {IF t.inv = rows[p].id THEN [t EXCEPT !.inv = None] ELSE t : t \in txs}
              /\ UNCHANGED <<rows, job, tables>>
         [] what = "hash twice" ->
              txs' = txs \cup {[t EXCEPT !.copy = 2] : t \in {u \in txs : u.inv = rows[p].id}}
              /\ UNCHANGED <<rows, job, tables>>
         [] what = "row twice" -> rows' = Append(rows, rows[p]) /\ UNCHANGED <<txs, job, tables>>
         [] what = "status" -> rows' = [rows EXCEPT ![p].status = "OVERDUE"] /\ UNCHANGED <<txs, job, tables>>
         [] what = "paidAt" -> rows' = [rows EXCEPT ![p].paidAt = IF @ = 0 THEN 1 ELSE 0] /\ UNCHANGED <<txs, job, tables>>
         [] what = "hash" -> rows' = [rows EXCEPT ![p].tx = None] /\ UNCHANGED <<txs, job, tables>>
         [] what = "amount" -> rows' = [rows EXCEPT ![p].amount = 2] /\ UNCHANGED <<txs, job, tables>>
         [] what = "expiry" -> rows' = [rows EXCEPT ![p].expires = 0] /\ UNCHANGED <<txs, job, tables>>
         [] what = "version" -> rows' = [rows EXCEPT ![p].version = 0] /\ UNCHANGED <<txs, job, tables>>
         [] what = "completion" ->
              job' = [job EXCEPT !.completedAt = IF @ = 0 THEN 1 ELSE 0] /\ UNCHANGED <<rows, txs, tables>>
         [] what = "lost table" ->
              (\E t \in Tables : tables' = Tables \ {t}) /\ UNCHANGED <<rows, txs, job>>
    /\ UNCHANGED <<events, index, time, verdict, snapshot, unproved>>

Damages == {"lost invoice", "lost transaction", "detached", "hash twice", "row twice", "status", "paidAt",
            "hash", "amount", "expiry", "version", "completion", "lost table"}

-----------------------------------------------------------------------------
\* CHECKS: the violating rows of each statement.  A grouped statement has a row
\* for every value that is repeated.
Repeated(key) == {key[s] : s \in {x \in DOMAIN key : \E y \in DOMAIN key : x # y /\ key[x] = key[y]}}

OrphanedTransactions == {t \in txs : t.inv # None /\ ~Held(t.inv)}

OrphanedEvents == {b \in events : ~Held(b)}

PaidWithoutTransaction ==
    {p \in Places : rows[p].status = "PAID"
                    /\ ~\E t \in txs : t.inv = rows[p].id \/ (rows[p].tx # None /\ t.hash = rows[p].tx)}

DetachedTransactions == {t \in txs : t.inv = None /\ \E p \in Places : rows[p].memo = t.memo}

DuplicateMemos == Repeated([p \in Places |-> rows[p].memo])

DuplicateHashes == Repeated([t \in txs |-> t.hash])

PaidWithoutTimestamp == {p \in Places : rows[p].status = "PAID" /\ rows[p].paidAt = 0}

UnpaidWithTimestamp == {p \in Places : rows[p].status # "PAID" /\ rows[p].paidAt # 0}

PaidWithoutTxHash == {p \in Places : rows[p].status = "PAID" /\ rows[p].tx = None}

Statuses == {"PENDING", "PAID", "EXPIRED", "CANCELLED"}

UnknownStatus == {p \in Places : rows[p].status \notin Statuses}

AmountDisagrees ==
    {x \in Places \X txs : rows[x[1]].status = "PAID" /\ x[2].inv = rows[x[1]].id /\ x[2].amount # rows[x[1]].amount}

ExpiryNotAfterCreation == {p \in Places : rows[p].expires <= rows[p].created}

VersionInvalid == {p \in Places : rows[p].version < 1}

PaidButOverdue == {p \in Places : rows[p].status = "PAID" /\ rows[p].paidAt > rows[p].expires}

StaleRunningLease == IF job.status = "running" /\ job.lease < time THEN {job} ELSE {}

TerminalWithoutCompletion ==
    IF job.status \in {"succeeded", "dead"} /\ job.completedAt = 0 THEN {job} ELSE {}

\* Mutant: only success is terminal
BadNonTerminalWithCompletion ==
    IF job.status # "succeeded" /\ job.completedAt # 0 THEN {job} ELSE {}

NonTerminalWithCompletion ==
    IF job.status \in {"queued", "running"} /\ job.completedAt # 0 THEN {job} ELSE {}

InvoiceChecks == {"duplicate-memo", "paid-without-timestamp", "unpaid-with-timestamp", "paid-without-tx-hash",
                  "unknown-status", "expiry-not-after-creation", "version-invalid", "paid-but-overdue"}

JoinChecks == {"missing-transaction", "amount-disagrees", "orphaned-transaction", "detached"}

JobChecks == {"stale-running-lease", "terminal-without-completion", "non-terminal-with-completion"}

Checks == InvoiceChecks \cup JoinChecks \cup JobChecks \cup {"orphaned-event", "duplicate-tx-hash"}

Count(c) ==
    CASE c = "orphaned-transaction" -> Cardinality(OrphanedTransactions)
      [] c = "orphaned-event" -> Cardinality(OrphanedEvents)
      [] c = "missing-transaction" -> Cardinality(PaidWithoutTransaction)
      [] c = "detached" -> Cardinality(DetachedTransactions)
      [] c = "duplicate-memo" -> Cardinality(DuplicateMemos)
      [] c = "duplicate-tx-hash" -> Cardinality(DuplicateHashes)
      [] c = "paid-without-timestamp" -> Cardinality(PaidWithoutTimestamp)
      [] c = "unpaid-with-timestamp" -> Cardinality(UnpaidWithTimestamp)
      [] c = "paid-without-tx-hash" -> Cardinality(PaidWithoutTxHash)
      [] c = "unknown-status" -> Cardinality(UnknownStatus)
      [] c = "amount-disagrees" -> Cardinality(AmountDisagrees)
      [] c = "expiry-not-after-creation" -> Cardinality(ExpiryNotAfterCreation)
      [] c = "version-invalid" -> Cardinality(VersionInvalid)
      [] c = "paid-but-overdue" -> Cardinality(PaidButOverdue)
      [] c = "stale-running-lease" -> Cardinality(StaleRunningLease)
      [] c = "terminal-without-completion" -> Cardinality(TerminalWithoutCompletion)
      [] c = "non-terminal-with-completion" -> Cardinality(NonTerminalWithCompletion)

\* The tables a statement reads, and the one its spec names.
Reads(c) ==
    IF c \in InvoiceChecks THEN {"invoices"} ELSE IF c \in JobChecks THEN {"jobs"}
    ELSE IF c \in JoinChecks THEN {"invoices", "transactions"}
    ELSE IF c = "orphaned-event" THEN {"invoices", "payment_events"} ELSE {"transactions"}

Table(c) ==
    IF c \in InvoiceChecks \cup {"missing-transaction", "amount-disagrees"} THEN "invoices"
    ELSE IF c \in JobChecks THEN "jobs" ELSE IF c = "orphaned-event" THEN "payment_events" ELSE "transactions"

\* A check on a table that is not there is skipped if the caller allows it; a
\* statement that cannot run is a failure with no rows.
RunRestoreValidation(allowMissing) ==
    LET run == {c \in Checks : ~(allowMissing /\ tables # {} /\ Table(c) \notin tables)}
        unknown == {c \in run : ~(Reads(c) \subseteq tables)}
        failed == unknown \cup {c \in run \ unknown : Count(c) > 0}
    IN /\ ~verdict.done
       /\ verdict' = [done |-> TRUE, ok |-> failed = {}, failed |-> failed, unknown |-> unknown,
                      total |-> FoldSet(LAMBDA c, n : Count(c) + n, 0, failed \ unknown)]
       /\ UNCHANGED <<data, time, damage, snapshot, unproved>>

-----------------------------------------------------------------------------
\* verifySnapshotRestore on the rows of the database, with the stored index if
\* it has records.  A repeated id is reported, and its first row is the one kept.
StatusIncoherence == UnknownStatus \cup PaidWithoutTimestamp \cup PaidWithoutTxHash \cup UnpaidWithTimestamp

FirstRow(b) == CHOOSE p \in Places : rows[p].id = b /\ \A q \in Places : rows[q].id = b => p <= q

FinancialMismatch == {t \in txs : t.inv # None /\ Held(t.inv) /\ rows[FirstRow(t.inv)].amount # t.amount}

IndexDrift ==
    IF index = {} THEN {}
    ELSE {b \in Bills : Held(b) /\ ~\E r \in index : r.id = b /\ r.status = rows[FirstRow(b)].status}
         \cup {r.id : r \in {s \in index : ~Held(s.id)}}

Kinds ==
    {k \in {"CORRUPTED_IDENTIFIER", "STATUS_INCOHERENCE", "FINANCIAL_MISMATCH", "TEMPORAL_ANOMALY",
            "ORPHANED_RELATION", "DUPLICATE_MEMO", "DERIVED_INDEX_DRIFT"} :
        CASE k = "CORRUPTED_IDENTIFIER" -> Repeated([p \in Places |-> rows[p].id]) # {}
          [] k = "DUPLICATE_MEMO" -> DuplicateMemos # {}
          [] k = "STATUS_INCOHERENCE" -> StatusIncoherence # {}
          [] k = "FINANCIAL_MISMATCH" -> FinancialMismatch # {}
          [] k = "TEMPORAL_ANOMALY" -> ExpiryNotAfterCreation # {}
          [] k = "ORPHANED_RELATION" -> OrphanedTransactions # {} \/ OrphanedEvents # {}
          [] k = "DERIVED_INDEX_DRIFT" -> IndexDrift # {}}

\* The derived views: one index record per id, one count per row and status.
RebuildDerivedStats == [s \in Statuses |-> Cardinality({p \in Places : rows[p].status = s})]

VerifySnapshotRestore ==
    LET stats == RebuildDerivedStats IN
    /\ verdict.done /\ ~snapshot.done /\ tables = Tables
    /\ snapshot' = [done |-> TRUE, ok |-> Kinds = {}, kinds |-> Kinds,
                    indexed |-> {rows[p].id : p \in Places},
                    sum |-> FoldSet(LAMBDA s, n : stats[s] + n, 0, Statuses)]
    /\ UNCHANGED <<data, time, damage, verdict, unproved>>

RestoreNext ==
    \/ \E b \in Bills : Create(b)
    \/ \E p \in Places : SaveTransaction(p) \/ MarkAsPaid(p) \/ Close(p, "EXPIRED") \/ Close(p, "CANCELLED")
                         \/ \E what \in Damages : Damage(what, p)
    \/ \E to \in {"running", "succeeded", "dead"} : RunJob(to)
    \/ Tick
    \/ \E allowMissing \in BOOLEAN : RunRestoreValidation(allowMissing)
    \/ VerifySnapshotRestore

-----------------------------------------------------------------------------
RestoreTypeOK ==
    /\ Len(rows) <= Cardinality(Bills) + 1 /\ damage \in Damages \cup {None}
    /\ verdict.failed \subseteq Checks /\ unproved \subseteq Bills

\* No false alarm: of a database only the backend wrote to, the checks report at
\* most a lease that ran out and the invoices POST /verify settled, whose payment
\* has no row in transactions; the snapshot check reports nothing.
BackendDataPasses ==
    damage = None =>
       /\ verdict.done => verdict.failed \subseteq {"stale-running-lease"}
                              \cup (IF unproved # {} THEN {"missing-transaction"} ELSE {})
       /\ snapshot.done => snapshot.ok

\* A validation that passes vouches for the settlements: whatever one fault the
\* restore had, every transaction and event still has its invoice, and every PAID
\* invoice is the one row of its memo with a hash, a time and a transaction.
PassVouchesForSettlements ==
    verdict.ok /\ tables = Tables =>
       /\ \A t \in txs : t.inv # None => Held(t.inv)
       /\ \A b \in events : Held(b)
       /\ \A p \in Places : rows[p].status = "PAID" =>
             /\ rows[p].tx # None /\ rows[p].paidAt \in 1..rows[p].expires
             /\ Cardinality({q \in Places : rows[q].memo = rows[p].memo}) = 1
             /\ \E t \in txs : t.hash = rows[p].id /\ t.amount = rows[p].amount

\* "A check that could not run is a failed validation": with a table gone, a pass
\* is only given for checks that needed none of it, and a failure without a
\* violating row is one that could not be evaluated.
UnknownIsNotHealthy ==
    verdict.done =>
       /\ verdict.unknown # {} => ~verdict.ok
       /\ ~verdict.ok /\ verdict.total = 0 => verdict.unknown # {}
       /\ verdict.ok /\ tables # Tables => tables \in {Tables \ {"jobs"}, Tables \ {"payment_events"}}

\* The two verifications agree on shared ground: a restore the SQL checks pass is
\* refused by the snapshot check only because of the index or of a transaction
\* whose invoice was never settled.
VerificationsAgree ==
    verdict.ok /\ snapshot.done =>
       /\ snapshot.kinds \subseteq {"DERIVED_INDEX_DRIFT", "FINANCIAL_MISMATCH"}
       /\ "FINANCIAL_MISMATCH" \in snapshot.kinds => \E t \in txs : rows[FirstRow(t.inv)].status # "PAID"

\* A verified snapshot has one index record and one counted status per invoice.
VerifiedViewsMatch ==
    snapshot.ok => Cardinality(snapshot.indexed) = Len(rows) /\ snapshot.sum = Len(rows)

-----------------------------------------------------------------------------
(***************************************************************************)
(* db/migrate.ts with db/migration-safety.ts: preview, apply and post-checks *)
(* of db/schema.sql on databases of any earlier age, while an older backend *)
(* may still write.  The schema is one multi-statement query, which the     *)
(* database runs as a single transaction.                                   *)
(*                                                                         *)
(* cols maps a table to its columns, none for a table that is absent; only  *)
(* the columns a later statement of the file names are told apart, and      *)
(* "rest" stands for the others a table is created with.  nulls and twins   *)
(* say that a row without expires_at, or two with one payment_tx_hash,      *)
(* exist.  known is what the preview read.                                  *)
(***************************************************************************)

CONSTANTS Runners    \* invocations of db:migrate

VARIABLES cols, indexes, views, nulls, twins, runner, before

schemaVars == <<cols, indexes, views, nulls, twins, runner, before>>

Invoices == {"rest", "seller_public_key", "status", "memo", "created_at", "expires_at", "payment_tx_hash"}

SchemaTable(t, columns) == [kind |-> "create-table", name |-> t, table |-> t, columns |-> columns]

Index(i, t, columns) == [kind |-> "create-index", name |-> i, table |-> t, columns |-> columns]

Column(kind, c) == [kind |-> kind, name |-> c, table |-> "invoices", columns |-> {c}]

\* schema.sql as parseSchemaSql lists it.
Plan == <<
    SchemaTable("invoices", Invoices),
    SchemaTable("transactions", {"rest", "tx_hash", "invoice_id"}),
    SchemaTable("payment_events", {"rest"}),
    SchemaTable("jobs", {"rest", "idempotency_key", "run_at", "status"}),
    Index("idx_jobs_idempotency_key", "jobs", {"idempotency_key"}),
    Index("idx_jobs_due", "jobs", {"run_at", "status"}),
    Index("idx_jobs_status_created", "jobs", {"status"}),
    SchemaTable("side_effect_checkpoints", {"rest", "state"}),
    Index("idx_side_effect_checkpoints_open", "side_effect_checkpoints", {"state"}),
    SchemaTable("record_repair_checkpoints", {"rest", "status"}),
    Index("idx_repair_checkpoints_status", "record_repair_checkpoints", {"status"}),
    Column("drop-column", "user_id"),
    [kind |-> "drop-table", name |-> "users", table |-> "users", columns |-> {}],
    Column("add-column", "version"),
    Column("add-column", "external_id"),
    Index("idx_invoices_external_id", "invoices", {"external_id"}),
    Index("idx_invoices_payment_tx_hash", "invoices", {"payment_tx_hash"}),
    [kind |-> "data-update", name |-> "invoices", table |-> "invoices", columns |-> {"expires_at", "created_at"}],
    Column("alter-column", "expires_at"),
    Index("idx_invoices_seller", "invoices", {"seller_public_key"}),
    Index("idx_invoices_status", "invoices", {"status"}),
    Index("idx_invoices_memo", "invoices", {"memo"}),
    Index("idx_invoices_created_at", "invoices", {"created_at"}),
    Index("idx_invoices_seller_created_at", "invoices", {"seller_public_key", "created_at"}),
    Index("idx_invoices_pending_expiry", "invoices", {"expires_at", "status"}),
    Index("idx_transactions_tx_hash", "transactions", {"tx_hash"}),
    Index("idx_transactions_invoice_id", "transactions", {"invoice_id"}),
    [kind |-> "create-view", name |-> "invoice_stats", table |-> "invoices", columns |-> {"seller_public_key", "status"}],
    SchemaTable("email_deliveries", {"rest", "dedupe_key", "invoice_id", "sender_wallet", "status"}),
    Index("idx_email_deliveries_dedupe_key", "email_deliveries", {"dedupe_key"}),
    Index("idx_email_deliveries_invoice", "email_deliveries", {"invoice_id"}),
    Index("idx_email_deliveries_sender", "email_deliveries", {"sender_wallet"}),
    Index("idx_email_deliveries_pending", "email_deliveries", {"status"})>>

Actions == ToSet(Plan)

SchemaTables == {a.table : a \in Actions}

Creates == {a \in Actions : a.kind \in {"create-table", "create-index", "create-view", "add-column"}}

Destructive == {a \in Actions : a.kind \in {"drop-column", "drop-table"}}

DataChanges == Destructive \cup {a \in Actions : a.kind = "data-update"}

IsConverged == Creates = {} /\ DataChanges = {}

Now == [cols |-> cols, indexes |-> indexes, views |-> views, nulls |-> nulls, twins |-> twins]

Made(t) == UNION {a.columns : a \in {b \in Actions : b.kind = "create-table" /\ b.table = t}}

Idle == [pc |-> "idle", wouldCreate |-> {}, dryRun |-> FALSE, failed |-> {}, ok |-> FALSE]

\* Databases of an earlier age: tables not yet there, an invoices table with the
\* old login column or without what was added since, rows older than a rule.
SchemaInit ==
    /\ cols \in {[t \in SchemaTables |->
                   IF t = "invoices" THEN IF has THEN (Invoices \ lack) \cup more ELSE {}
                   ELSE IF t = "users" THEN IF has /\ "user_id" \in more THEN {"rest"} ELSE {}
                   ELSE IF has /\ t \in old THEN Made(t) ELSE {}] :
                      old \in SUBSET {"transactions", "jobs", "email_deliveries"}, has \in BOOLEAN,
                      lack \in SUBSET {"rest", "payment_tx_hash", "expires_at"},
                      more \in SUBSET {"user_id", "version"}}
    /\ indexes = {} /\ views = {}
    /\ nulls \in {n \in BOOLEAN : n => "expires_at" \in cols["invoices"]}
    /\ twins \in {n \in BOOLEAN : n => "payment_tx_hash" \in cols["invoices"]}
    /\ runner = [r \in Runners |-> Idle]
    /\ before = Now

-----------------------------------------------------------------------------
\* The database's side of one statement; an error aborts the transaction.
Error == [cols |-> {}, indexes |-> {}, views |-> {}, nulls |-> FALSE, twins |-> FALSE, error |-> TRUE]

Statement(db, a) ==
    LET has == db.cols[a.table] IN
    IF a.kind = "create-table"
    THEN IF has = {} THEN [db EXCEPT !.cols[a.table] = a.columns] ELSE db
    ELSE IF a.kind = "create-index"
    THEN IF a.name \in db.indexes THEN db
         ELSE IF ~(a.columns \subseteq has) \/ (a.name = "idx_invoices_payment_tx_hash" /\ db.twins) THEN Error
         ELSE [db EXCEPT !.indexes = @ \cup {a.name}]
    ELSE IF a.kind = "drop-table" THEN [db EXCEPT !.cols[a.table] = {}]
    ELSE IF has = {} THEN Error
    ELSE IF a.kind = "drop-column" THEN [db EXCEPT !.cols[a.table] = @ \ a.columns]
    ELSE IF a.kind = "add-column" THEN [db EXCEPT !.cols[a.table] = @ \cup a.columns]
    ELSE IF ~(a.columns \subseteq has) THEN Error
    ELSE IF a.kind = "data-update" THEN [db EXCEPT !.nulls = FALSE]
    ELSE IF a.kind = "create-view" THEN [db EXCEPT !.views = @ \cup {a.name}]
    ELSE db

Applied(db) ==
    FoldLeft(LAMBDA d, a : IF d.error THEN d ELSE Statement(d, a),
             [cols |-> db.cols, indexes |-> db.indexes, views |-> db.views, nulls |-> db.nulls,
              twins |-> db.twins, error |-> FALSE], Plan)

-----------------------------------------------------------------------------
\* relationExists and columnExists.
Exists(a) ==
    CASE a.kind = "create-table" -> cols[a.table] # {}
      [] a.kind = "create-index" -> a.name \in indexes
      [] a.kind = "create-view" -> a.name \in views
      [] a.kind = "add-column" -> a.columns \subseteq cols[a.table]

PreviewMigration(r, dryRun) ==
    /\ runner[r].pc = "idle"
    /\ runner' = [runner EXCEPT ![r] = [Idle EXCEPT !.pc = IF dryRun THEN "previewed" ELSE "apply", !.dryRun = dryRun,
                                             !.wouldCreate = {a.name : a \in {b \in Creates : ~Exists(b)}}]]
    /\ before' = Now
    /\ UNCHANGED <<cols, indexes, views, nulls, twins>>

\* pool.query(schema), unless there was nothing to do.  A failure ends the run.
Apply(r) ==
    LET db == Applied(Now) IN
    /\ runner[r].pc = "apply"
    /\ IF IsConverged /\ runner[r].wouldCreate = {}
       THEN UNCHANGED <<cols, indexes, views, nulls, twins>> /\ runner' = [runner EXCEPT ![r].pc = "check"]
       ELSE IF db.error
       THEN UNCHANGED <<cols, indexes, views, nulls, twins>> /\ runner' = [runner EXCEPT ![r].pc = "failed"]
       ELSE /\ cols' = db.cols /\ indexes' = db.indexes /\ views' = db.views /\ nulls' = db.nulls
            /\ UNCHANGED twins /\ runner' = [runner EXCEPT ![r].pc = "check"]
    /\ UNCHANGED before

\* One check per object the plan creates, and one for the backfill.
RunPostChecks(r) ==
    LET failed == {a.name : a \in {b \in Creates : ~Exists(b)}}
                  \cup (IF nulls \/ "expires_at" \notin cols["invoices"] THEN {"backfill"} ELSE {})
    IN /\ runner[r].pc = "check"
       /\ runner' = [runner EXCEPT ![r].pc = "done", ![r].failed = failed, ![r].ok = failed = {}]
       /\ UNCHANGED <<cols, indexes, views, nulls, twins, before>>

\* An older backend inserts an invoice without an expiry, where it still may.
OldInsert ==
    /\ "expires_at" \in cols["invoices"] /\ indexes = {} /\ ~nulls
    /\ nulls' = TRUE
    /\ UNCHANGED <<cols, indexes, views, twins, runner, before>>

SchemaNext ==
    \/ \E r \in Runners : \/ \E dryRun \in BOOLEAN : PreviewMigration(r, dryRun)
                          \/ Apply(r) \/ RunPostChecks(r)
    \/ OldInsert

-----------------------------------------------------------------------------
SchemaTypeOK ==
    /\ \A r \in Runners : runner[r].pc \in {"idle", "previewed", "apply", "check", "done", "failed"}
    /\ views \subseteq {"invoice_stats"}

Objects(db) ==
    {a.name : a \in {b \in Creates :
        \/ b.kind = "create-table" /\ db.cols[b.table] # {}
        \/ b.kind = "create-index" /\ b.name \in db.indexes
        \/ b.kind = "create-view" /\ b.name \in db.views
        \/ b.kind = "add-column" /\ b.columns \subseteq db.cols[b.table]}}

\* "a maintainer sees exactly which tables, columns and rows are affected before
\* anything is written": an apply brings into being just what its preview listed,
\* if no other run came between.
PreviewIsExact ==
    \A r \in Runners :
       runner[r].pc = "apply" /\ runner'[r].pc = "check" /\ Objects(before) = Objects(Now)
         => Objects(Now') \ Objects(Now) = runner[r].wouldCreate

\* A run that reports success leaves a database where a further run finds nothing
\* to create and no row without expiry; one that fails leaves it untouched.
SuccessMeansConverged ==
    /\ \A r \in Runners : runner[r].ok => /\ \A a \in Creates : Exists(a)
                                          /\ ~nulls /\ cols["users"] = {}
                                          /\ "user_id" \notin cols["invoices"]
    /\ (\A r \in Runners : runner[r].pc \in {"idle", "previewed", "failed"}) => indexes = {} /\ views = {}
=============================================================================
