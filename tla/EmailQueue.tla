----------------------------- MODULE EmailQueue -----------------------------
(***************************************************************************)
(* The outbound email queue (services/email-queue.service.ts over           *)
(* storage/*-email-delivery-storage.ts): requests that enqueue an email for *)
(* one invoice of one wallet, the batch worker that sends what is due, the  *)
(* circuit breaker that pauses it and the call that resumes it.             *)
(*                                                                         *)
(* The row a request creates has the request for its id.  An email is its   *)
(* dedupe key and its body (recipient, type, subject and payload together). *)
(* due says whether next_attempt_at has passed.  The anti-spam service and  *)
(* the quota manager are outside the source tree: a rate limit, a quota and *)
(* a breaker that may trip and be reset at any time.                        *)
(* accepted counts, per row, the sends the provider accepted; faults bounds *)
(* the storage errors.                                                      *)
(***************************************************************************)
EXTENDS Integers, FiniteSets

CONSTANTS
    Requests,      \* calls of enqueue
    Keys, NoKey,   \* dedupe keys; NoKey for a request without one
    Bodies,
    MaxPerInvoice, \* maxEmailsPerInvoice
    WalletLimit,   \* sends per wallet and hour
    MaxAttempts,
    MaxFaults      \* bound on failing status updates

VARIABLES rows, req, worker, breaker, walletSends, quotaUsed, accepted, faults

vars == <<rows, req, worker, breaker, walletSends, quotaUsed, accepted, faults>>

NoRow == [status |-> "none", key |-> NoKey, body |-> "none", attempts |-> 0, due |-> FALSE]

IdleRequest == [pc |-> "idle", key |-> NoKey, body |-> "none"]

IdleWorker == [pc |-> "idle", batch |-> {}, id |-> "none", attempt |-> 0, to |-> "none"]

Existing == {r \in Requests : rows[r].status # "none"}

Terminal == {"SENT", "PERMANENTLY_FAILED"}

Init ==
    /\ rows = [r \in Requests |-> NoRow]
    /\ req = [r \in Requests |-> IdleRequest]
    /\ worker = IdleWorker
    /\ breaker = FALSE
    /\ walletSends = 0
    /\ quotaUsed = 0
    /\ accepted = [r \in Requests |-> 0]
    /\ faults = 0

-----------------------------------------------------------------------------
(* enqueue *)

Answered(r, out) == req' = [req EXCEPT ![r].pc = out]

\* The rows that carry the key of the request (getDeliveryByDedupeKey).
WithKeyOf(r) == {e \in Existing : req[r].key # NoKey /\ rows[e].key = req[r].key}

\* A row with the key answers the request: the original delivery, or a
\* conflict when the key was used for another email.
AnswerFrom(r, e) ==
    Answered(r, IF rows[e].body = req[r].body THEN "returned" ELSE "conflict")

\* Recipient and content are judged on the request alone.
Enqueue(r) ==
    /\ req[r].pc = "idle"
    /\ \/ \E key \in Keys \cup {NoKey}, body \in Bodies :
             req' = [req EXCEPT ![r] =
                       [pc |-> IF key = NoKey THEN "rate" ELSE "lookup", key |-> key, body |-> body]]
       \/ Answered(r, "invalid")
    /\ UNCHANGED <<rows, worker, breaker, walletSends, quotaUsed, accepted, faults>>

\* checkWalletRateLimit, in the same turn as the answer of the first lookup.
RateOutcome(r) == Answered(r, IF walletSends < WalletLimit THEN "cap" ELSE "rate_limited")

FirstLookup(r) ==
    /\ req[r].pc = "lookup"
    /\ IF WithKeyOf(r) = {} THEN RateOutcome(r) ELSE \E e \in WithKeyOf(r) : AnswerFrom(r, e)
    /\ UNCHANGED <<rows, worker, breaker, walletSends, quotaUsed, accepted, faults>>

RateOnly(r) ==
    /\ req[r].pc = "rate"
    /\ RateOutcome(r)
    /\ UNCHANGED <<rows, worker, breaker, walletSends, quotaUsed, accepted, faults>>

\* listDeliveries, the per-invoice cap.
InvoiceCap(r) ==
    /\ req[r].pc = "cap"
    /\ Answered(r, IF Cardinality(Existing) >= MaxPerInvoice THEN "over_cap"
                   ELSE IF req[r].key = NoKey THEN "reserve" ELSE "recheck")
    /\ UNCHANGED <<rows, worker, breaker, walletSends, quotaUsed, accepted, faults>>

\* quotaManager.reserve: allowed and charged, or refused.
Reserve(r) ==
    \/ Answered(r, "create") /\ quotaUsed' = quotaUsed + 1
    \/ Answered(r, "over_quota") /\ UNCHANGED quotaUsed

\* The second lookup, and the reservation in the same turn.
Recheck(r) ==
    /\ req[r].pc \in {"recheck", "reserve"}
    /\ IF WithKeyOf(r) = {} THEN Reserve(r)
       ELSE (\E e \in WithKeyOf(r) : AnswerFrom(r, e)) /\ UNCHANGED quotaUsed
    /\ UNCHANGED <<rows, worker, breaker, walletSends, accepted, faults>>

\* createDeliveryWithDedupe / createDelivery: the unique key decides a race;
\* the wallet's send is counted for the request that created the row.
Create(r) ==
    /\ req[r].pc = "create"
    /\ IF WithKeyOf(r) = {}
       THEN /\ rows' = [rows EXCEPT ![r] =
                 [status |-> IF breaker THEN "PAUSED" ELSE "PENDING",
                  key |-> req[r].key, body |-> req[r].body, attempts |-> 0, due |-> TRUE]]
            /\ walletSends' = walletSends + 1
            /\ Answered(r, "returned")
       ELSE (\E e \in WithKeyOf(r) : AnswerFrom(r, e)) /\ UNCHANGED <<rows, walletSends>>
    /\ UNCHANGED <<worker, breaker, quotaUsed, accepted, faults>>

-----------------------------------------------------------------------------
(* processPendingBatch, processDelivery *)

Pending == {r \in Existing : rows[r].status = "PENDING" /\ rows[r].due}

\* The interval timer fires; a batch that is still running makes it a no-op.
StartBatch ==
    /\ worker.pc = "idle"
    /\ ~breaker
    /\ Pending # {}
    /\ worker' = [IdleWorker EXCEPT !.pc = "next", !.batch = Pending]
    /\ UNCHANGED <<rows, req, breaker, walletSends, quotaUsed, accepted, faults>>

\* The delivery is read again; sent and failed ones are left alone, and a
\* tripped breaker pauses it with the attempts that were read.
ReadDelivery ==
    /\ worker.pc = "next"
    /\ \/ worker.batch = {} /\ worker' = IdleWorker
       \/ \E id \in worker.batch :
             worker' =
               IF rows[id].status \in Terminal
               THEN [worker EXCEPT !.batch = @ \ {id}]
               ELSE [worker EXCEPT !.batch = @ \ {id}, !.id = id,
                       !.pc = IF breaker THEN "write" ELSE "send",
                       !.attempt = IF breaker THEN rows[id].attempts ELSE rows[id].attempts + 1,
                       !.to = IF breaker THEN "PAUSED" ELSE "none"]
    /\ UNCHANGED <<rows, req, breaker, walletSends, quotaUsed, accepted, faults>>

\* Mutant: the last attempt is scheduled again
BadAfterFailure(permanent) ==
    IF permanent \/ worker.attempt > MaxAttempts THEN "PERMANENTLY_FAILED" ELSE "PENDING"

\* What a failed attempt leads to: a permanent error, or the last attempt,
\* is final; any other is scheduled again.
AfterFailure(permanent) ==
    IF permanent \/ worker.attempt >= MaxAttempts THEN "PERMANENTLY_FAILED" ELSE "PENDING"

\* sendMail accepts, answers with an error, or throws; the last two end alike.
Send ==
    /\ worker.pc = "send"
    /\ \/ /\ accepted' = [accepted EXCEPT ![worker.id] = @ + 1]
          /\ worker' = [worker EXCEPT !.pc = "write", !.to = "SENT"]
       \/ /\ \E permanent \in BOOLEAN :
                worker' = [worker EXCEPT !.pc = "write", !.to = AfterFailure(permanent)]
          /\ UNCHANGED accepted
    /\ UNCHANGED <<rows, req, breaker, walletSends, quotaUsed, faults>>

\* Mutant: a failed attempt is not counted
BadWriteStatus ==
    /\ worker.pc \in {"write", "rewrite"}
    /\ rows' = [rows EXCEPT ![worker.id].status = worker.to,
                            ![worker.id].due = (worker.to = "PAUSED" /\ rows[worker.id].due)]
    /\ worker' = [IdleWorker EXCEPT !.pc = "next", !.batch = worker.batch]
    /\ UNCHANGED <<req, breaker, walletSends, quotaUsed, accepted, faults>>

\* updateDeliveryStatus, unconditional on what the row says by now.
WriteStatus ==
    /\ worker.pc \in {"write", "rewrite"}
    /\ rows' = [rows EXCEPT ![worker.id].status = worker.to,
                            ![worker.id].attempts = worker.attempt,
                            ![worker.id].due = (worker.to = "PAUSED" /\ rows[worker.id].due)]
    /\ worker' = [IdleWorker EXCEPT !.pc = "next", !.batch = worker.batch]
    /\ UNCHANGED <<req, breaker, walletSends, quotaUsed, accepted, faults>>

\* The update throws.  After a send the catch block books the attempt as
\* failed, whatever the provider said; the error of a second update, or of a
\* pause, ends the batch.
WriteFails ==
    /\ worker.pc \in {"write", "rewrite"}
    /\ faults < MaxFaults
    /\ faults' = faults + 1
    /\ worker' = IF worker.pc = "write" /\ worker.to # "PAUSED"
                 THEN [worker EXCEPT !.pc = "rewrite", !.to = AfterFailure(FALSE)]
                 ELSE IdleWorker
    /\ UNCHANGED <<rows, req, breaker, walletSends, quotaUsed, accepted>>

\* The process of the worker restarts: the batch is lost.
Restart ==
    /\ worker.pc # "idle"
    /\ faults < MaxFaults
    /\ faults' = faults + 1
    /\ worker' = IdleWorker
    /\ UNCHANGED <<rows, req, breaker, walletSends, quotaUsed, accepted>>

\* next_attempt_at passes.
BackoffOver ==
    /\ \E r \in Existing :
          /\ rows[r].status = "PENDING" /\ ~rows[r].due
          /\ rows' = [rows EXCEPT ![r].due = TRUE]
    /\ UNCHANGED <<req, worker, breaker, walletSends, quotaUsed, accepted, faults>>

\* resumePausedEmails
Resume ==
    /\ ~breaker
    /\ \E r \in Existing : rows[r].status = "PAUSED"
    /\ rows' = [r \in Requests |->
                  IF rows[r].status = "PAUSED"
                  THEN [rows[r] EXCEPT !.status = "PENDING", !.due = TRUE] ELSE rows[r]]
    /\ UNCHANGED <<req, worker, breaker, walletSends, quotaUsed, accepted, faults>>

\* The anti-spam service trips or resets the breaker.
Breaker ==
    /\ breaker' = ~breaker
    /\ UNCHANGED <<rows, req, worker, walletSends, quotaUsed, accepted, faults>>

Next ==
    \/ \E r \in Requests :
          Enqueue(r) \/ FirstLookup(r) \/ RateOnly(r) \/ InvoiceCap(r) \/ Recheck(r) \/ Create(r)
    \/ StartBatch \/ ReadDelivery \/ Send \/ WriteStatus \/ WriteFails \/ Restart
    \/ BackoffOver \/ Resume \/ Breaker

\* The interval timer keeps starting batches, an await always returns and
\* time passes; nothing obliges anybody to resume what is paused.
WorkerStep == StartBatch \/ ReadDelivery \/ Send \/ WriteStatus

Fairness == WF_vars(WorkerStep) /\ WF_vars(BackoffOver)

Spec == Init /\ [][Next]_vars

FairSpec == Spec /\ Fairness

-----------------------------------------------------------------------------
TypeOK ==
    /\ rows \in [Requests -> [status : {"none", "PENDING", "PAUSED"} \cup Terminal,
                              key : Keys \cup {NoKey}, body : Bodies \cup {"none"},
                              attempts : 0..MaxAttempts, due : BOOLEAN]]
    /\ \A r \in Requests : req[r].key \in Keys \cup {NoKey}
    /\ worker.batch \subseteq Requests /\ worker.attempt \in 0..MaxAttempts
    /\ breaker \in BOOLEAN
    /\ accepted \in [Requests -> 0..MaxAttempts]

\* Duplicate enqueues under one dedupe key, however they interleave, leave at
\* most one row, and every request answered with a delivery got a row that
\* carries its own email.
OneDeliveryPerKey ==
    /\ \A r, s \in Existing : rows[r].key # NoKey /\ rows[r].key = rows[s].key => r = s
    /\ \A r \in Requests : req[r].pc = "returned" =>
          \E e \in Existing : rows[e].key = req[r].key /\ rows[e].body = req[r].body

\* A delivery ends as the provider answered: PERMANENTLY_FAILED hides an
\* accepted send, and an email is accepted twice, only after a storage error
\* or a restart between the send and its status update.
NoDoubleSendWithoutFault ==
    faults = 0 => \A r \in Requests :
        /\ accepted[r] <= 1
        /\ rows[r].status = "PERMANENTLY_FAILED" => accepted[r] = 0

\* A sent or permanently failed delivery is never reopened.
TerminalIsFinal ==
    \A r \in Requests : rows[r].status \in Terminal => rows'[r] = rows[r]

\* Retries end: once the breaker stays closed, a queued email is eventually
\* sent, permanently failed, or was paused while the breaker was open.
DeliveryEnds ==
    <>[]~breaker =>
        \A r \in Requests : (rows[r].status = "PENDING") ~> (rows[r].status \in Terminal \cup {"PAUSED"})

\* The inductive invariant behind the three.  A request that has not got a delivery
\* has no row; the worker only ever holds a row that is not final; and while nothing
\* failed, a send was accepted exactly for the rows that are sent or about to be.
RowType == [status : {"none", "PENDING", "PAUSED"} \cup Terminal, key : Keys \cup {NoKey},
            body : Bodies \cup {"none"}, attempts : Nat, due : BOOLEAN]

RequestType == [pc : {"idle", "invalid", "lookup", "rate", "rate_limited", "cap", "over_cap", "recheck",
                      "reserve", "over_quota", "create", "returned", "conflict"},
                key : Keys \cup {NoKey}, body : Bodies \cup {"none"}]

WorkerType == [pc : {"idle", "next", "send", "write", "rewrite"}, batch : SUBSET Requests,
               id : Requests \cup {"none"}, attempt : Nat,
               to : {"none", "PENDING", "PAUSED"} \cup Terminal]

QueueTyped ==
    /\ rows \in [Requests -> RowType] /\ req \in [Requests -> RequestType]
    /\ worker \in WorkerType /\ accepted \in [Requests -> Nat] /\ faults \in Nat

AboutToBeSent(r) ==
    rows[r].status = "SENT" \/ (worker.pc = "write" /\ worker.id = r /\ worker.to = "SENT")

WorkerInv ==
    /\ worker.batch \subseteq Existing
    /\ worker.pc \in {"send", "write", "rewrite"} =>
          worker.id \in Existing /\ rows[worker.id].status \notin Terminal
    /\ worker.pc \in {"write", "rewrite"} => worker.to # "none"
    /\ worker.pc = "rewrite" => faults > 0

QueueInv ==
    /\ QueueTyped /\ WorkerInv /\ OneDeliveryPerKey
    /\ \A r \in Requests : req[r].pc # "returned" => rows[r].status = "none"
    /\ faults = 0 => \A r \in Requests : accepted[r] = IF AboutToBeSent(r) THEN 1 ELSE 0
=============================================================================
