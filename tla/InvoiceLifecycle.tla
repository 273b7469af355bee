-------------------------- MODULE InvoiceLifecycle --------------------------
(***************************************************************************)
(* What the invoice backend promises about an invoice, whatever process,   *)
(* handler or job touches it: it is opened once as PENDING, it leaves      *)
(* PENDING at most once, it is settled only before its deadline, by a hash *)
(* that the rules accept for it and that settled no other invoice, and it  *)
(* expires only when some clock of the deployment has reached the          *)
(* deadline.  The promises are the ones written down at the head of        *)
(* backend/src/services/invoice.service.ts (lines 10 to 18) and as CHECK   *)
(* and UNIQUE constraints in db/schema.sql.                                *)
(***************************************************************************)
EXTENDS Integers

CONSTANTS Invoices,     \* invoice ids
          Hashes,       \* transaction hashes
          Acceptable,   \* pairs <<invoice, hash>> that the settlement rules accept
          Skews,        \* how far the clocks of the processes are from the database's
          NoHash        \* the NULL of payment_tx_hash

VARIABLES status, paymentTxHash, expiresAt, now

lifecycleVars == <<status, paymentTxHash, expiresAt, now>>

Init ==
  /\ status = [i \in Invoices |-> "ABSENT"]
  /\ paymentTxHash = [i \in Invoices |-> NoHash]
  /\ expiresAt = [i \in Invoices |-> 0]
  /\ now = 0

Open(i) ==
  /\ status[i] = "ABSENT"
  /\ status' = [status EXCEPT ![i] = "PENDING"]
  /\ expiresAt'[i] \in Int
  /\ expiresAt' = [expiresAt EXCEPT ![i] = expiresAt'[i]]
  /\ UNCHANGED <<paymentTxHash, now>>

Settle(i, h) ==
  /\ status[i] = "PENDING"
  /\ now < expiresAt[i]
  /\ <<i, h>> \in Acceptable
  /\ \A j \in Invoices : paymentTxHash[j] # h
  /\ status' = [status EXCEPT ![i] = "PAID"]
  /\ paymentTxHash' = [paymentTxHash EXCEPT ![i] = h]
  /\ UNCHANGED <<expiresAt, now>>

Cancel(i) ==
  /\ status[i] = "PENDING"
  /\ status' = [status EXCEPT ![i] = "CANCELLED"]
  /\ UNCHANGED <<paymentTxHash, expiresAt, now>>

(* One sweep expires every invoice that is overdue on the sweeper's clock. *)
Expire(skew) ==
  /\ status' = [i \in Invoices |->
                  IF status[i] = "PENDING" /\ expiresAt[i] <= now + skew
                  THEN "EXPIRED" ELSE status[i]]
  /\ UNCHANGED <<paymentTxHash, expiresAt, now>>

Tick == now' = now + 1 /\ UNCHANGED <<status, paymentTxHash, expiresAt>>

Next ==
  \/ \E i \in Invoices : Open(i) \/ Cancel(i)
  \/ \E i \in Invoices, h \in Hashes : Settle(i, h)
  \/ \E skew \in Skews : Expire(skew)
  \/ Tick

Spec == Init /\ [][Next]_lifecycleVars
=============================================================================
