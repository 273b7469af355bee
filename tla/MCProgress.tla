----------------------------- MODULE MCProgress -----------------------------
(***************************************************************************)
(* Small instances for liveness: requests and expiry of the invoice         *)
(* server, the email queue and a resumable repair, each under the fairness  *)
(* its scheduling justifies.  They share no state: `part` picks the one a   *)
(* behaviour exercises.                                                     *)
(***************************************************************************)
EXTENDS MCInvoiceServer

CONSTANTS Mails, Keys, NoKey, Bodies, MaxPerInvoice, WalletLimit, MaxAttempts, MaxFaults,
          BatchRows

VARIABLES part,
          rows, req, worker, breaker, walletSends, quotaUsed, accepted, faults,
          table, saved, exec, broken, touched, fault, shared

queueVars == <<rows, req, worker, breaker, walletSends, quotaUsed, accepted, faults>>
repairVars == <<table, saved, exec, broken, touched, fault, shared>>

\* Two transactions to relink.
Scopes == {[phases |-> {"detached_transactions"}, rows |-> {1, 2}]}

Queue == INSTANCE EmailQueue WITH Requests <- Mails
Repair == INSTANCE RepairRun WITH Executors <- Requests

progressVars == <<part, vars, queueVars, repairVars>>

ProgressInit ==
    /\ part \in {"invoices", "email", "repair"}
    /\ Init /\ Queue!Init /\ Repair!Init
    /\ ~saved.dryRun
    /\ \A r \in {1, 2} : table[r] = Repair!Healthy[r] \/ (part = "repair" /\ Repair!Detached(table[r]))

\* Of two requests that race one is a verification; the other is any.
Verifier == CHOOSE r \in Requests : TRUE

\* A step of one part.
Invoices1(A) == part = "invoices" /\ A /\ UNCHANGED <<part, queueVars, repairVars>>
Email1(A) == part = "email" /\ A /\ UNCHANGED <<part, vars, repairVars>>
Repair1(A) == part = "repair" /\ A /\ UNCHANGED <<part, vars, queueVars>>

ProgressNext ==
    \/ Invoices1(Next) /\ (pc'[Verifier] # "idle" => rq'[Verifier].kind = "verify")
    \/ Email1(Queue!Next) \/ Repair1(Repair!Next)

\* The FairSpec of each part.  A behaviour exercises one part, so that a condition
\* on the disjunction of an actor's steps in each is one on each; and a request
\* waits for its lock or goes on, never both.
ProgressSpec ==
    /\ ProgressInit /\ [][ProgressNext]_progressVars
    /\ \A r \in Requests :
         WF_progressVars(\/ Invoices1((pc[r] # "lock" /\ RequestStep(r)) \/ AcquireLock(r))
                         \/ Repair1(Repair!Select(r) \/ Repair!Fix(r) \/ Repair!Save(r)))
    /\ \A s \in Servers :
          WF_progressVars(\/ Invoices1(BackgroundSweep(s))
                          \/ Email1(Queue!WorkerStep)
                          \/ Repair1(\E r \in Requests : Repair!Begin(r, 1)))
    /\ WF_progressVars(Email1(Queue!BackoffOver))

-----------------------------------------------------------------------------
\* Work that was taken on comes to an end: a queued email is sent, given up or
\* paused once the breaker stays closed, and a repair that is resumed batch by
\* batch completes.
WorkEnds == Queue!DeliveryEnds /\ Repair!RepairEnds
=============================================================================
