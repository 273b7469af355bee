---------------------------- MODULE InvoiceServer ----------------------------
(***************************************************************************)
(* The Postgres deployment of the invoice backend: server processes that   *)
(* run the HTTP handlers of routes/invoice.handlers.ts and the payment     *)
(* monitor over the tables of db/schema.sql, through the statements of     *)
(* services/invoice.service.ts.                                            *)
(*                                                                         *)
(* Every await is a point where other requests run, so a handler is cut    *)
(* into one step per SQL statement (each atomic, as Postgres makes it),    *)
(* Horizon call and lock operation; pc[r] names the statement request r    *)
(* runs next.  The in-process lock of concurrency/lock-manager.ts and the  *)
(* in-process audit log belong to a server and die with it.                *)
(*                                                                         *)
(* Time is the database clock; a server's own clock is off by Skew[s].     *)
(* settler is a history variable: the request whose UPDATE paid a row.     *)
(***************************************************************************)
EXTENDS Integers, FiniteSets, PaymentVerification

CONSTANTS
  Invoices,         \* rows of the invoices table
  Txs,              \* hashes of Stellar transactions
  Requests,         \* HTTP requests and monitor deliveries
  Servers,          \* backend processes over the one database
  Kinds,            \* the kinds of request that arrive
  Ledger,           \* Ledger[t]: what Horizon returns for t
  Terms,            \* Terms[i]: memo, destination, amount, asset, network of i
  Networks,         \* values of the "network" field of a verify body
  Versions,         \* values of the version a client sends
  PlatformAccount,  \* SELLER_PUBLIC_KEY as an address; None disables the monitor
  SimulateAllowed,  \* simulateAllowed()
  Skew,             \* Skew[s]: clock of s minus clock of the database
  MaxTime, MaxTtl, MaxCrashes   \* bounds of the model

NoHash == None
NoVersion == 0    \* the client sent no version
Free == None
AllKinds == {"verify", "cancel", "simulate", "monitor"}

ASSUME ConstantsAssumption ==
  /\ Invoices # {} /\ Txs # {} /\ Servers # {}
  /\ Kinds \subseteq AllKinds
  /\ Versions \subseteq Nat
  /\ SimulateAllowed \in BOOLEAN
  /\ Skew \in [Servers -> Int]
  /\ MaxTime \in Nat /\ MaxTtl \in Nat /\ MaxCrashes \in Nat
  /\ None \notin Txs \union Requests
  /\ Txs \intersect Requests = {}

(* invoices.memo is UNIQUE *)
ASSUME MemoAssumption ==
  \A i, j \in Invoices : Terms[i].memo = Terms[j].memo => i = j

VARIABLES
  now,                                               \* the database clock
  status, version, expiresAt, paidAt, paymentTxHash, \* columns of invoices
  paymentEvents, transactions,                       \* the other two tables
  locks, audit,                                      \* memory of each server
  pc, rq, seen, error, res,                          \* of each request
  crashes, settler

invoiceRow == <<status, version, expiresAt, paidAt, paymentTxHash, settler>>
database == <<invoiceRow, paymentEvents, transactions>>
request == <<pc, rq, seen, error, res>>
vars == <<now, database, locks, audit, request, crashes>>

Statuses == {"PENDING", "PAID", "EXPIRED", "CANCELLED"}
Hashes == Txs \union Requests   \* a simulated payment invents a fresh hash: its request

Inv(r) == rq[r].inv
Srv(r) == rq[r].srv
Kind(r) == rq[r].kind
HashOf(r) == IF Kind(r) = "simulate" THEN r ELSE rq[r].tx
ServerTime(s) == now + Skew[s]

---------------------------------------------------------------------------
(* What the payment monitor makes of a payment operation *)

(* streamPayments delivers payments to the account; manualSync also lists *)
(* the payments it sent.  isUsablePaymentRecord wants a positive amount.  *)
MonitoredOps(t) ==
  {op \in PaymentOps(Ledger[t]) :
     /\ PlatformAccount # None /\ PlatformAccount \in {op.to, op.from}
     /\ op.amount > 0}

(* The code strings of stellar.service.ts *)
MonitorAssetCode(op) ==
  IF op.asset.type = "native" THEN "XLM"
  ELSE IF op.asset.code = None THEN "UNKNOWN" ELSE op.asset.code

MonitorVerdict(op, e) ==
  IF op.amount # e.amount THEN "partial"
  ELSE IF MonitorAssetCode(op) # e.asset.code THEN "skip"
  ELSE "save"

---------------------------------------------------------------------------
NoRequest == [kind |-> "none", srv |-> CHOOSE s \in Servers : TRUE,
              inv |-> CHOOSE i \in Invoices : TRUE,
              tx |-> CHOOSE t \in Txs : TRUE, ver |-> NoVersion]

Init ==
  /\ now = 0 /\ crashes = 0
  /\ status = [i \in Invoices |-> "ABSENT"]
  /\ version = [i \in Invoices |-> 0]
  /\ expiresAt = [i \in Invoices |-> 0]
  /\ paidAt = [i \in Invoices |-> 0]
  /\ paymentTxHash = [i \in Invoices |-> NoHash]
  /\ settler = [i \in Invoices |-> None]
  /\ paymentEvents = {} /\ transactions = {}
  /\ locks = [s \in Servers |-> [i \in Invoices |-> Free]]
  /\ audit = [s \in Servers |-> {}]
  /\ pc = [r \in Requests |-> "idle"]
  /\ rq = [r \in Requests |-> NoRequest]
  /\ seen = [r \in Requests |-> [status |-> "ABSENT", version |-> 0]]
  /\ error = [r \in Requests |-> "none"]
  /\ res = [r \in Requests |-> "none"]

(* createInvoice.  The id and the memo are fresh, so no other request can  *)
(* name the row before the handler has answered: one step.  The audit      *)
(* event is best effort; a crash after the INSERT loses it too.            *)
CreateInvoice(s, i) ==
  /\ status[i] = "ABSENT"
  /\ status' = [status EXCEPT ![i] = "PENDING"]
  /\ version' = [version EXCEPT ![i] = 1]
  /\ \E ttl \in 1..MaxTtl :
       expiresAt' = [expiresAt EXCEPT ![i] = ServerTime(s) + ttl]
  /\ \/ audit' = [audit EXCEPT ![s] = @ \union
           {[action |-> "INVOICE_CREATED", inv |-> i, by |-> None,
             before |-> "ABSENT", after |-> "PENDING"]}]
     \/ UNCHANGED audit
  /\ UNCHANGED <<now, crashes, paidAt, paymentTxHash, settler, paymentEvents,
                 transactions, locks, request>>

(* A request reaches a server.  The monitor looks the invoice up by memo,  *)
(* so a delivery names the invoice that has the memo of the transaction.   *)
Arrive(r) ==
  /\ pc[r] = "idle"
  /\ \E q \in [kind : Kinds, srv : Servers, inv : Invoices, tx : Txs,
               ver : Versions \union {NoVersion}] :
       /\ q.kind = "monitor" =>
            MonitoredOps(q.tx) # {} /\ Ledger[q.tx].memo = Terms[q.inv].memo
       /\ q.kind \in {"simulate", "monitor"} => q.ver = NoVersion
       /\ q.kind \in {"simulate", "cancel"} => q.tx = NoRequest.tx
       /\ rq' = [rq EXCEPT ![r] = q]
       /\ pc' = [pc EXCEPT ![r] = IF q.kind = "verify" THEN "lock" ELSE "sweep"]
  /\ UNCHANGED <<now, crashes, database, locks, audit, seen, error, res>>

Goto(r, l) == pc' = [pc EXCEPT ![r] = l]

(* Mutant: an early return outside of the try whose "finally" unlocks. *)
BadRespond(r, code) ==
  Goto(r, "done") /\ res' = [res EXCEPT ![r] = code] /\ UNCHANGED <<locks, error>>

(* The answer of the handler; verifyPayment releases its lock in "finally". *)
Respond(r, code) ==
  /\ Goto(r, "done")
  /\ res' = [res EXCEPT ![r] = code]
  /\ locks' = [locks EXCEPT ![Srv(r)][Inv(r)] = IF @ = r THEN Free ELSE @]
  /\ UNCHANGED error

Continue(r, l) == Goto(r, l) /\ UNCHANGED <<res, locks, error>>

(* An exception inside markAsPaid or cancelInvoice: verifyPayment catches *)
(* it and reads the row again, the other handlers answer it.              *)
Fail(r, e) ==
  IF Kind(r) = "verify"
  THEN /\ Goto(r, "resweep")
       /\ error' = [error EXCEPT ![r] = e]
       /\ UNCHANGED <<res, locks>>
  ELSE Respond(r, e)

---------------------------------------------------------------------------
(* Steps of a request, one per await.  A statement that writes may take    *)
(* effect and lose its reply, which the code sees as a database error.     *)

(* invoiceLockManager.acquire *)
AcquireLock(r) ==
  /\ pc[r] = "lock"
  /\ locks[Srv(r)][Inv(r)] = Free
  /\ locks' = [locks EXCEPT ![Srv(r)][Inv(r)] = r]
  /\ Goto(r, "sweep")
  /\ UNCHANGED <<now, crashes, database, audit, rq, seen, error, res>>

(* Answers given before the first statement: degraded mode (before the lock), *)
(* a malformed hash or payer (under it), a simulator that is switched off.    *)
Refuse(r) ==
  /\ \/ Kind(r) = "verify" /\ pc[r] = "lock" /\ Respond(r, "DEGRADED")
     \/ Kind(r) = "verify" /\ pc[r] = "sweep" /\ Respond(r, "INVALID_INPUT")
     \/ Kind(r) = "simulate" /\ pc[r] = "sweep" /\ ~SimulateAllowed /\ Respond(r, "NOT_FOUND")
  /\ UNCHANGED <<now, crashes, database, audit, rq, seen>>

(* Mutants: the sweep forgets the status, or compares with < *)
BadOverdueStatus(t) == {i \in Invoices : status[i] # "ABSENT" /\ expiresAt[i] <= t}
BadOverdueStrict(t) == {i \in Invoices : status[i] = "PENDING" /\ expiresAt[i] < t}

Overdue(t) == {i \in Invoices : status[i] = "PENDING" /\ expiresAt[i] <= t}

(* markExpiredInvoices compares with the server's clock *)
MarkExpired(s) ==
  status' = [i \in Invoices |-> IF i \in Overdue(ServerTime(s)) THEN "EXPIRED" ELSE status[i]]

AfterSweep == [sweep |-> "read", resweep |-> "reread", csweep |-> "cancel"]

Sweep(r) ==
  /\ pc[r] \in DOMAIN AfterSweep
  /\ Kind(r) = "simulate" => SimulateAllowed
  /\ MarkExpired(Srv(r))
  /\ Continue(r, AfterSweep[pc[r]]) \/ Respond(r, "DB_ERROR")
  /\ UNCHANGED <<now, crashes, version, expiresAt, paidAt, paymentTxHash, settler,
                 paymentEvents, transactions, audit, rq, seen>>

(* The status check of verifyPayment, simulatePayment and handlePayment *)
Payability(i) ==
  IF status[i] = "ABSENT" THEN "INVOICE_NOT_FOUND" ELSE CheckInvoiceIsPayable(status[i])

(* The SELECT of getInvoiceById or getInvoiceByMemo, and the checks up to *)
(* the next await.                                                        *)
Read(r) ==
  /\ pc[r] = "read"
  /\ seen' = [seen EXCEPT ![r] = [status |-> status[Inv(r)], version |-> version[Inv(r)]]]
  /\ \/ Kind(r) = "cancel" /\ Continue(r, "csweep")
     \/ /\ Kind(r) # "cancel" /\ Payability(Inv(r)) # "OK"
        /\ Respond(r, Payability(Inv(r)))
     \/ Kind(r) = "verify" /\ Payability(Inv(r)) = "OK" /\ Continue(r, "horizon")
     \/ Kind(r) = "simulate" /\ Payability(Inv(r)) = "OK" /\ Continue(r, "pay")
     \/ /\ Kind(r) = "monitor" /\ Payability(Inv(r)) = "OK"
        /\ \E op \in MonitoredOps(rq[r].tx) :
             LET verdict == MonitorVerdict(op, Terms[Inv(r)]) IN
             IF verdict = "skip" THEN Respond(r, "SKIPPED") ELSE Continue(r, verdict)
  /\ UNCHANGED <<now, crashes, database, audit, rq>>

(* stellar.getTransaction and verifyHorizonPayment *)
Horizon(r) ==
  /\ pc[r] = "horizon"
  /\ \/ \E code \in {"TRANSACTION_NOT_FOUND", "DEGRADED"} : Respond(r, code)
     \/ \E network \in Networks :
          LET code == VerifyHorizonPayment(Ledger[rq[r].tx], network, Terms[Inv(r)]) IN
          IF code = "OK" THEN Continue(r, "pay") ELSE Respond(r, code)
  /\ UNCHANGED <<now, crashes, database, audit, rq, seen>>

(* handlePayment: PARTIAL_PAYMENT event *)
LogPartial(r) ==
  /\ pc[r] = "partial"
  /\ paymentEvents' = paymentEvents \union
       {[type |-> "PARTIAL_PAYMENT", inv |-> Inv(r), tx |-> HashOf(r), by |-> r]}
  /\ Respond(r, "SKIPPED")
  /\ UNCHANGED <<now, crashes, invoiceRow, transactions, audit, rq, seen>>

(* saveTransaction: ON CONFLICT (tx_hash) DO NOTHING *)
SaveTransaction(r) ==
  /\ pc[r] = "save"
  /\ transactions' =
       IF \E i \in Invoices : <<rq[r].tx, i>> \in transactions
       THEN transactions ELSE transactions \union {<<rq[r].tx, Inv(r)>>}
  /\ Continue(r, "pay") \/ Respond(r, "DB_ERROR")
  /\ UNCHANGED <<now, crashes, invoiceRow, paymentEvents, audit, rq, seen>>

---------------------------------------------------------------------------
(* markAsPaid *)

VersionMatches(r) == rq[r].ver \in {NoVersion, version[Inv(r)]}

(* Mutants: the UPDATE forgets the status, or the deadline *)
BadRowPayableStatus(r) ==
  status[Inv(r)] # "ABSENT" /\ expiresAt[Inv(r)] > now /\ VersionMatches(r)
BadRowPayableLate(r) == status[Inv(r)] = "PENDING" /\ VersionMatches(r)

(* WHERE id = $1 AND status = 'PENDING' AND expires_at > NOW() [AND version = $6] *)
RowPayable(r) ==
  status[Inv(r)] = "PENDING" /\ expiresAt[Inv(r)] > now /\ VersionMatches(r)

(* Mutant: the schema without the unique index *)
BadHashUnused(h) == TRUE

(* idx_invoices_payment_tx_hash *)
HashUnused(h) == \A i \in Invoices : paymentTxHash[i] # h

PayRow(r) ==
  /\ status' = [status EXCEPT ![Inv(r)] = "PAID"]
  /\ version' = [version EXCEPT ![Inv(r)] = @ + 1]
  /\ paidAt' = [paidAt EXCEPT ![Inv(r)] = now]
  /\ paymentTxHash' = [paymentTxHash EXCEPT ![Inv(r)] = HashOf(r)]
  /\ settler' = [settler EXCEPT ![Inv(r)] = r]
  /\ UNCHANGED expiresAt

(* Mutant: the row count is not looked at *)
BadNoRow(r) == Continue(r, "audit")

(* No row updated: with a version, SELECT it to tell a conflict. *)
NoRow(r) ==
  IF rq[r].ver # NoVersion THEN Continue(r, "check") ELSE Fail(r, "NOT_UPDATED")

(* The UPDATE pays the row and the reply arrives or is lost; or it finds no *)
(* row; or the unique index refuses the hash.                               *)
Pay(r) ==
  /\ pc[r] = "pay"
  /\ \/ /\ RowPayable(r) /\ HashUnused(HashOf(r))
        /\ PayRow(r)
        /\ Continue(r, "event") \/ Fail(r, "DB_ERROR")
     \/ RowPayable(r) /\ ~HashUnused(HashOf(r)) /\ Fail(r, "DUPLICATE_HASH") /\ UNCHANGED invoiceRow
     \/ ~RowPayable(r) /\ NoRow(r) /\ UNCHANGED invoiceRow
  /\ UNCHANGED <<now, crashes, paymentEvents, transactions, audit, rq, seen>>

(* The ConflictError of markAsPaid and cancelInvoice *)
CheckVersion(r) ==
  /\ pc[r] = "check"
  /\ Fail(r, IF status[Inv(r)] # "ABSENT" THEN "CONFLICT" ELSE "NOT_UPDATED")
  /\ UNCHANGED <<now, crashes, database, audit, rq, seen>>

(* logPaymentEvent after the UPDATE, in a statement of its own *)
LogConfirmed(r) ==
  /\ pc[r] = "event"
  /\ paymentEvents' = paymentEvents \union
       {[type |-> "PAYMENT_CONFIRMED", inv |-> Inv(r), tx |-> HashOf(r), by |-> r]}
  /\ \/ Fail(r, "DB_ERROR")
     \/ IF Kind(r) = "monitor" THEN Respond(r, "200") ELSE Continue(r, "audit")
  /\ UNCHANGED <<now, crashes, invoiceRow, transactions, audit, rq, seen>>

(* Mutants: the raw status is sent; only PAID is explained *)
BadRereadStatus(r) == status[Inv(r)]
BadRereadPaidOnly(r) ==
  IF status[Inv(r)] = "PAID" THEN "INVOICE_ALREADY_PAID" ELSE error[r]

(* verifyPayment after a failed markAsPaid: the row it reads again explains  *)
(* the failure, or the exception is thrown on.                              *)
RereadAnswer(r) ==
  IF Payability(Inv(r)) \in {"OK", "INVOICE_NOT_FOUND"} THEN error[r] ELSE Payability(Inv(r))

Reread(r) ==
  /\ pc[r] = "reread"
  /\ Respond(r, RereadAnswer(r))
  /\ UNCHANGED <<now, crashes, database, audit, rq, seen>>

---------------------------------------------------------------------------
(* cancelInvoice *)

CancelRow(r) ==
  /\ status' = [status EXCEPT ![Inv(r)] = "CANCELLED"]
  /\ version' = [version EXCEPT ![Inv(r)] = @ + 1]
  /\ UNCHANGED <<expiresAt, paidAt, paymentTxHash, settler>>

(* Mutant: the UPDATE forgets the status *)
BadRowCancellable(r) == status[Inv(r)] # "ABSENT" /\ VersionMatches(r)

(* WHERE id = $1 AND status = 'PENDING' [AND version = $2] *)
RowCancellable(r) == status[Inv(r)] = "PENDING" /\ VersionMatches(r)

Cancel(r) ==
  /\ pc[r] = "cancel"
  /\ \/ /\ RowCancellable(r)
        /\ CancelRow(r)
        /\ Continue(r, "audit") \/ Fail(r, "DB_ERROR")
     \/ ~RowCancellable(r) /\ NoRow(r) /\ UNCHANGED invoiceRow
  /\ UNCHANGED <<now, crashes, paymentEvents, transactions, audit, rq, seen>>

AuditAction(kind) ==
  IF kind = "verify" THEN "PAYMENT_VERIFIED"
  ELSE IF kind = "cancel" THEN "INVOICE_CANCELLED" ELSE "PAYMENT_SIMULATED"

(* recordAuditEvent, whose failure is only logged, and the 200 answer *)
Audit(r) ==
  /\ pc[r] = "audit"
  /\ \/ audit' = [audit EXCEPT ![Srv(r)] = @ \union
           {[action |-> AuditAction(Kind(r)), inv |-> Inv(r), by |-> r,
             before |-> seen[r].status,
             after |-> IF Kind(r) = "cancel" THEN "CANCELLED" ELSE "PAID"]}]
     \/ UNCHANGED audit
  /\ Respond(r, "200")
  /\ UNCHANGED <<now, crashes, database, rq, seen>>

---------------------------------------------------------------------------
(* Failures and the environment *)

(* A statement fails and has no effect.  Inside markAsPaid and the version *)
(* check the exception takes the path of Fail; elsewhere it is answered.   *)
DbError(r) ==
  /\ \/ pc[r] \in {"pay", "event", "check"} /\ Fail(r, "DB_ERROR")
     \/ /\ pc[r] \in {"sweep", "read", "csweep", "cancel", "save", "partial",
                      "resweep", "reread"}
        /\ Respond(r, "DB_ERROR")
  /\ UNCHANGED <<now, crashes, database, audit, rq, seen>>

(* The EXPIRE_INVOICES job, and the sweep of every GET *)
BackgroundSweep(s) ==
  /\ Overdue(ServerTime(s)) # {}
  /\ MarkExpired(s)
  /\ UNCHANGED <<now, crashes, version, expiresAt, paidAt, paymentTxHash, settler,
                 paymentEvents, transactions, locks, audit, request>>

(* A process dies and is restarted: locks, audit log and requests are gone. *)
Crash(s) ==
  /\ crashes < MaxCrashes
  /\ crashes' = crashes + 1
  /\ pc' = [r \in Requests |->
              IF Srv(r) = s /\ pc[r] \notin {"idle", "done"} THEN "lost" ELSE pc[r]]
  /\ locks' = [locks EXCEPT ![s] = [i \in Invoices |-> Free]]
  /\ audit' = [audit EXCEPT ![s] = {}]
  /\ UNCHANGED <<now, database, rq, seen, error, res>>

Tick ==
  /\ now < MaxTime
  /\ now' = now + 1
  /\ UNCHANGED <<crashes, database, locks, audit, request>>

RequestStep(r) ==
  \/ AcquireLock(r) \/ Refuse(r) \/ Sweep(r) \/ Read(r) \/ Horizon(r)
  \/ LogPartial(r) \/ SaveTransaction(r) \/ Pay(r) \/ CheckVersion(r)
  \/ LogConfirmed(r) \/ Reread(r) \/ Cancel(r) \/ Audit(r) \/ DbError(r)

Next ==
  \/ \E r \in Requests : Arrive(r) \/ RequestStep(r)
  \/ \E s \in Servers : BackgroundSweep(s) \/ Crash(s) \/ \E i \in Invoices : CreateInvoice(s, i)
  \/ Tick

Spec == Init /\ [][Next]_vars

(* The event loop runs every pending continuation and startExpiryScheduler *)
(* queues a sweep every few minutes.  A verification that waits for a lock *)
(* is given it when it is free; nothing makes degraded mode answer it.     *)
FairSpec ==
  /\ Spec
  /\ \A r \in Requests : WF_vars(RequestStep(r) /\ pc[r] # "lock") /\ WF_vars(AcquireLock(r))
  /\ \A s \in Servers : WF_vars(BackgroundSweep(s))

---------------------------------------------------------------------------
(* Properties *)

Labels == {"idle", "lock", "sweep", "read", "horizon", "partial", "save", "pay",
           "check", "event", "resweep", "reread", "csweep", "cancel", "audit",
           "done", "lost"}
Codes == {"none", "200", "DEGRADED", "INVALID_INPUT", "NOT_FOUND", "SKIPPED",
          "INVOICE_NOT_FOUND", "INVOICE_ALREADY_PAID", "INVOICE_EXPIRED",
          "INVOICE_NOT_PENDING", "TRANSACTION_NOT_FOUND", "NETWORK_MISMATCH",
          "NO_PAYMENT_OPERATION", "MEMO_MISMATCH", "DESTINATION_MISMATCH",
          "AMOUNT_MISMATCH", "ASSET_MISMATCH", "NOT_UPDATED", "DUPLICATE_HASH",
          "CONFLICT", "DB_ERROR"}
RequestType == [kind : AllKinds \union {"none"}, srv : Servers, inv : Invoices,
                tx : Txs, ver : Nat]
EventType == [type : {"PARTIAL_PAYMENT", "PAYMENT_CONFIRMED"}, inv : Invoices,
              tx : Hashes, by : Requests]
AuditType == [action : {"INVOICE_CREATED", "PAYMENT_VERIFIED", "INVOICE_CANCELLED",
                        "PAYMENT_SIMULATED"},
              inv : Invoices, by : Requests \union {None},
              before : Statuses \union {"ABSENT"}, after : Statuses]

(* Every variable has its type: the columns of db/schema.sql, the answers  *)
(* of the handlers of routes/invoice.handlers.ts.                          *)
TypeOK ==
  /\ now \in Nat /\ crashes \in Nat
  /\ status \in [Invoices -> Statuses \union {"ABSENT"}]
  /\ version \in [Invoices -> Nat]
  /\ expiresAt \in [Invoices -> Int]
  /\ paidAt \in [Invoices -> Nat]
  /\ paymentTxHash \in [Invoices -> Hashes \union {NoHash}]
  /\ settler \in [Invoices -> Requests \union {None}]
  /\ paymentEvents \in SUBSET EventType
  /\ transactions \in SUBSET (Txs \X Invoices)
  /\ locks \in [Servers -> [Invoices -> Requests \union {Free}]]
  /\ audit \in [Servers -> SUBSET AuditType]
  /\ pc \in [Requests -> Labels]
  /\ rq \in [Requests -> RequestType]
  /\ seen \in [Requests -> [status : Statuses \union {"ABSENT"}, version : Nat]]
  /\ error \in [Requests -> Codes]
  /\ res \in [Requests -> Codes]

(* Of all the requests that race on an invoice, over any number of servers, *)
(* at most one is answered 200, and the row then is what that answer said:  *)
(* PAID with that request's transaction, or CANCELLED.                      *)
OneWinner ==
  \A r \in Requests : res[r] = "200" =>
    /\ IF Kind(r) = "cancel" THEN status[Inv(r)] = "CANCELLED"
       ELSE /\ status[Inv(r)] = "PAID" /\ settler[Inv(r)] = r
            /\ paymentTxHash[Inv(r)] = HashOf(r)
    /\ \A q \in Requests : res[q] = "200" /\ Inv(q) = Inv(r) => q = r

UnderLock == {"sweep", "read", "horizon", "pay", "check", "event", "resweep",
              "reread", "audit"}

(* The lock of lock-manager.ts is held exactly while a verification of that *)
(* invoice runs on that server: two never overlap there, and no answer, error *)
(* path or crash leaves it locked.                                            *)
LockGuardsVerify ==
  \A r \in Requests, s \in Servers, i \in Invoices :
    locks[s][i] = r <=>
      Kind(r) = "verify" /\ Srv(r) = s /\ Inv(r) = i /\ pc[r] \in UnderLock

(* payment_events has at most one PAYMENT_CONFIRMED per invoice, for a row  *)
(* that is PAID by the same transaction, although logPaymentEvent runs in   *)
(* a statement of its own, after the UPDATE.                                *)
ConfirmedOnce ==
  \A e \in paymentEvents : e.type = "PAYMENT_CONFIRMED" =>
    /\ status[e.inv] = "PAID" /\ paymentTxHash[e.inv] = e.tx /\ settler[e.inv] = e.by
    /\ \A f \in paymentEvents : f.type = e.type /\ f.inv = e.inv => f = e

(* An audit event says what happened to the row: the state it records as    *)
(* "after" is the state of the row, and no two servers record two changes   *)
(* of one invoice.                                                          *)
AuditTruthful ==
  \A s \in Servers : \A a \in audit[s] : a.by # None =>
    /\ status[a.inv] = a.after
    /\ a.before \in {"PENDING", "ABSENT"}
    /\ \A t \in Servers : \A b \in audit[t] :
         b.by # None /\ b.inv = a.inv => b = a /\ s = t

(* A verification whose UPDATE paid the invoice is never told that it was   *)
(* not paid: lost replies and failed event inserts end in                   *)
(* INVOICE_ALREADY_PAID after the second read, or in a server error.        *)
SettlerNotMisled ==
  \A i \in Invoices : settler[i] # None /\ pc[settler[i]] = "done" =>
    res[settler[i]] \in {"200", "INVOICE_ALREADY_PAID", "DB_ERROR"}

(* A verification that answers 409 did send another version than the row it *)
(* read had: losing to expiry is answered INVOICE_EXPIRED, as the comment   *)
(* at invoice.handlers.ts:768 wants.  (For servers on the database clock.)  *)
VerifyConflictMeansStale ==
  \A r \in Requests :
    Kind(r) = "verify" /\ res[r] = "CONFLICT" => rq[r].ver # seen[r].version

(* PAID, CANCELLED and EXPIRED are final: no step changes such a row.       *)
FinalRowsStay ==
  [][\A i \in Invoices : status[i] \in Statuses \ {"PENDING"} =>
       /\ status'[i] = status[i] /\ version'[i] = version[i]
       /\ paidAt'[i] = paidAt[i] /\ paymentTxHash'[i] = paymentTxHash[i]]_vars

(* One Stellar transaction settles at most one invoice, even when the two   *)
(* settlement paths read different memos of it.                             *)
OneInvoicePerTransaction ==
  \A i, j \in Invoices :
    paymentTxHash[i] # NoHash /\ paymentTxHash[i] = paymentTxHash[j] => i = j

(* The pairs of an invoice and a hash that some settlement path accepts *)
VerifyAccepts(i, t) ==
  \E network \in Networks : VerifyHorizonPayment(Ledger[t], network, Terms[i]) = "OK"
MonitorAccepts(i, t) ==
  /\ Ledger[t].memo = Terms[i].memo
  /\ \E op \in MonitoredOps(t) : MonitorVerdict(op, Terms[i]) = "save"
Accepts(i, h) ==
  \/ h \in Txs /\ (VerifyAccepts(i, h) \/ MonitorAccepts(i, h))
  \/ h \in Requests /\ SimulateAllowed
Acceptable == {p \in Invoices \X Hashes : Accepts(p[1], p[2])}

(* The processes together implement the life of one invoice row: settled    *)
(* once, in time on the database clock, by an accepted and unused hash;     *)
(* cancelled or expired once, expired only when overdue on some clock.      *)
Lifecycle == INSTANCE InvoiceLifecycle WITH Skews <- {Skew[s] : s \in Servers}
ImplementsLifecycle == Lifecycle!Spec

(* "Payment monitor service only transitions PENDING to PAID after          *)
(* verifyHorizonPayment succeeds" (docs/THREAT_MODEL.md:105).  Not so:      *)
(* handlePayment compares the amount and the asset code, not the issuer.    *)
PaidOnlyWhenVerified ==
  \A i \in Invoices : paymentTxHash[i] \in Txs => VerifyAccepts(i, paymentTxHash[i])

(* "A secondary SELECT version determines if failure was caused by a stale  *)
(* version (raising ConflictError) or status expiration"                    *)
(* (docs/CONCURRENCY.md:79).  Not so: cancelling an expired invoice with    *)
(* its current version is answered 409.                                     *)
CancelConflictMeansStale ==
  [][\A r \in Requests :
       Kind(r) = "cancel" /\ res'[r] = "CONFLICT" /\ res[r] # "CONFLICT" =>
         rq[r].ver # version[Inv(r)]]_vars

(* Every request that arrived is answered, or its server crashed: no await  *)
(* and no lock blocks for ever.                                             *)
EveryRequestAnswered ==
  \A r \in Requests : pc[r] # "idle" ~> pc[r] \in {"done", "lost"}

(* An invoice whose deadline has passed does not stay PENDING.              *)
OverdueLeavesPending ==
  \A i \in Invoices :
    status[i] = "PENDING" /\ (\A s \in Servers : expiresAt[i] <= ServerTime(s))
      ~> status[i] # "PENDING"

---------------------------------------------------------------------------
(* The inductive invariant behind the safety properties *)

Final == {"PAID", "EXPIRED", "CANCELLED"}
Errors == {"NOT_UPDATED", "DUPLICATE_HASH", "CONFLICT", "DB_ERROR"}

(* The statements each handler runs *)
Route(kind) ==
  IF kind = "none" THEN {"idle"}
  ELSE {"sweep", "read", "check", "done", "lost"} \union
       IF kind = "cancel" THEN {"csweep", "cancel", "audit"}
       ELSE {"pay", "event"} \union
            IF kind = "verify" THEN {"lock", "horizon", "resweep", "reread", "audit"}
            ELSE IF kind = "simulate" THEN {"audit"} ELSE {"partial", "save"}

ControlInv ==
  \A r \in Requests :
    /\ pc[r] \in Route(Kind(r))
    /\ res[r] # "none" <=> pc[r] = "done"
    /\ pc[r] \in {"resweep", "reread"} => error[r] \in Errors
    /\ pc[r] \in {"idle", "lock", "sweep"} => seen[r].status = "ABSENT"

(* A snapshot of a final row stays true. *)
SnapshotInv ==
  \A r \in Requests : seen[r].status \in Final => status[Inv(r)] = seen[r].status

(* A PAID row and the request that paid it *)
SettledBy(i, r) ==
  /\ r \in Requests /\ Inv(r) = i /\ Kind(r) \in AllKinds \ {"cancel"}
  /\ pc[r] \in {"event", "audit", "resweep", "reread", "done", "lost"}
  /\ paymentTxHash[i] = HashOf(r)

SettleInv ==
  \A i \in Invoices :
    IF status[i] = "PAID" THEN SettledBy(i, settler[i]) /\ paidAt[i] < expiresAt[i]
    ELSE settler[i] = None /\ paymentTxHash[i] = NoHash

(* Reaching the audit step, or 200, means having changed the row. *)
Won(r) == pc[r] = "audit" \/ res[r] = "200"

WinnerInv ==
  \A r \in Requests :
    /\ pc[r] = "event" \/ (Won(r) /\ Kind(r) # "cancel") => settler[Inv(r)] = r
    /\ Won(r) /\ Kind(r) = "cancel" =>
         /\ status[Inv(r)] = "CANCELLED" /\ seen[r].status \notin Final
         /\ \A q \in Requests : Won(q) /\ Kind(q) = "cancel" /\ Inv(q) = Inv(r) => q = r

EventInv ==
  \A e \in paymentEvents : e.type = "PAYMENT_CONFIRMED" =>
    settler[e.inv] = e.by /\ e.tx = HashOf(e.by)

AuditInv ==
  \A s \in Servers : \A a \in audit[s] : a.by # None =>
    /\ Srv(a.by) = s /\ res[a.by] = "200" /\ Kind(a.by) # "monitor"
    /\ a = [action |-> AuditAction(Kind(a.by)), inv |-> Inv(a.by), by |-> a.by,
            before |-> seen[a.by].status,
            after |-> IF Kind(a.by) = "cancel" THEN "CANCELLED" ELSE "PAID"]
    /\ a.before \in {"PENDING", "ABSENT"}

(* A request about to pay carries a hash its rules accept. *)
EvidenceInv ==
  \A r \in Requests :
    /\ Kind(r) = "monitor" => Ledger[rq[r].tx].memo = Terms[Inv(r)].memo
    /\ Kind(r) = "simulate" /\ pc[r] \in {"read", "pay"} => SimulateAllowed
    /\ pc[r] \in {"save", "pay"} => Accepts(Inv(r), HashOf(r))
    /\ Kind(r) # "cancel" /\ pc[r] \in {"horizon", "save", "pay", "event", "audit"} =>
         seen[r].status = "PENDING"

IInv ==
  /\ TypeOK /\ ControlInv /\ LockGuardsVerify /\ SnapshotInv /\ SettleInv
  /\ WinnerInv /\ EventInv /\ AuditInv /\ EvidenceInv /\ OneInvoicePerTransaction

(* No server's clock is behind the database's: what the UPDATE finds overdue *)
(* the sweep before the second read expires.                                 *)
NoLag == \A s \in Servers : Skew[s] >= 0

(* A verification between its two reads: the row it saw PENDING keeps that   *)
(* version while it is PENDING, so an UPDATE with the version seen found no  *)
(* row because the row was final or overdue, and the second read says so.    *)
StaleInv ==
  \A r \in Requests : Kind(r) = "verify" =>
    /\ pc[r] \in {"horizon", "pay", "check", "resweep", "reread"} =>
         /\ status[Inv(r)] # "ABSENT"
         /\ status[Inv(r)] = "PENDING" => version[Inv(r)] = seen[r].version
    /\ rq[r].ver = seen[r].version =>
         /\ pc[r] = "check" \/ (pc[r] = "resweep" /\ error[r] = "CONFLICT") =>
              status[Inv(r)] # "PENDING" \/ expiresAt[Inv(r)] <= now
         /\ pc[r] = "reread" /\ error[r] = "CONFLICT" => status[Inv(r)] # "PENDING"
         /\ res[r] # "CONFLICT"
=============================================================================
