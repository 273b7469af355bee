-------------------------- MODULE InvoiceStepProofs --------------------------
(***************************************************************************)
(* What one step of InvoiceServer can do: type correctness, that a final   *)
(* row never changes, and that a step preserves the parts of the inductive *)
(* invariant about one request: its route, the lock, its snapshot, and the *)
(* payer and hash of a row.                                                *)
(***************************************************************************)
EXTENDS InvoiceServer, TLAPS

(* verifyHorizonPayment and checkInvoiceIsPayable return one of their codes. *)
LEMMA VerdictType ==
  ASSUME NEW tx, NEW network, NEW e
  PROVE  VerifyHorizonPayment(tx, network, e) \in Codes \union {"OK"}
BY Zenon DEF VerifyHorizonPayment, Codes

(* Only a PENDING invoice is payable. *)
LEMMA PayableType ==
  ASSUME NEW st \in Statuses \union {"ABSENT"}
  PROVE  /\ CheckInvoiceIsPayable(st) \in Codes \union {"OK"}
         /\ CheckInvoiceIsPayable(st) = "OK" <=> st = "PENDING"
BY Zenon DEF CheckInvoiceIsPayable, Codes, Statuses

(* How a handler goes on: it answers, continues, or throws. *)
LEMMA ControlType ==
  ASSUME TypeOK, NEW r \in Requests
  PROVE  /\ \A code \in Codes : Respond(r, code) =>
              /\ pc' = [pc EXCEPT ![r] = "done"] /\ pc' \in [Requests -> Labels]
              /\ locks' \in [Servers -> [Invoices -> Requests \union {Free}]]
              /\ res' \in [Requests -> Codes] /\ error' \in [Requests -> Codes]
         /\ \A l \in Labels : Continue(r, l) =>
              /\ pc' = [pc EXCEPT ![r] = l] /\ pc' \in [Requests -> Labels]
              /\ locks' \in [Servers -> [Invoices -> Requests \union {Free}]]
              /\ res' \in [Requests -> Codes] /\ error' \in [Requests -> Codes]
         /\ \A code \in Codes : Fail(r, code) =>
              /\ pc' \in [Requests -> Labels]
              /\ locks' \in [Servers -> [Invoices -> Requests \union {Free}]]
              /\ res' \in [Requests -> Codes] /\ error' \in [Requests -> Codes]
<1>0. /\ Srv(r) \in Servers /\ Inv(r) \in Invoices
  BY Zenon DEF TypeOK, RequestType, Srv, Inv
<1>1. ASSUME NEW code \in Codes, Respond(r, code)
      PROVE  /\ pc' = [pc EXCEPT ![r] = "done"] /\ pc' \in [Requests -> Labels]
             /\ locks' \in [Servers -> [Invoices -> Requests \union {Free}]]
             /\ res' \in [Requests -> Codes] /\ error' \in [Requests -> Codes]
  BY <1>0, <1>1 DEF TypeOK, Respond, Goto, Labels
<1>2. ASSUME NEW l \in Labels, Continue(r, l)
      PROVE  /\ pc' = [pc EXCEPT ![r] = l] /\ pc' \in [Requests -> Labels]
             /\ locks' \in [Servers -> [Invoices -> Requests \union {Free}]]
             /\ res' \in [Requests -> Codes] /\ error' \in [Requests -> Codes]
  BY <1>2, Zenon DEF TypeOK, Continue, Goto
<1>3. ASSUME NEW code \in Codes, Fail(r, code)
      PROVE  /\ pc' \in [Requests -> Labels]
             /\ locks' \in [Servers -> [Invoices -> Requests \union {Free}]]
             /\ res' \in [Requests -> Codes] /\ error' \in [Requests -> Codes]
  <2>1. CASE Kind(r) = "verify"
    BY <1>3, <2>1, ZenonT(30) DEF TypeOK, Fail, Goto, Labels
  <2>2. CASE Kind(r) # "verify"
    BY <1>1, <1>3, <2>2, Zenon DEF Fail
  <2> QED BY <2>1, <2>2, Zenon
<1> QED BY <1>1, <1>2, <1>3, Zenon

(* The parameters of a request have their types. *)
LEMMA RequestFields ==
  ASSUME TypeOK, NEW r \in Requests
  PROVE  /\ Srv(r) \in Servers /\ Inv(r) \in Invoices /\ rq[r].tx \in Txs
         /\ rq[r].ver \in Nat /\ HashOf(r) \in Hashes
BY Zenon DEF TypeOK, RequestType, Srv, Inv, Kind, HashOf, Hashes

(* Every step of every request, sweep and failure keeps the types. *)
LEMMA TypeStep == TypeOK /\ [Next]_vars => TypeOK'
<1> SUFFICES ASSUME TypeOK, [Next]_vars PROVE TypeOK'
  BY Zenon
<1> USE DEF database, invoiceRow, request
<1>1. ASSUME NEW s \in Servers, NEW i \in Invoices, CreateInvoice(s, i) PROVE TypeOK'
  <2>1. ServerTime(s) \in Int
    BY ConstantsAssumption DEF TypeOK, ServerTime
  <2>2. expiresAt' \in [Invoices -> Int]
    BY <1>1, <2>1, ConstantsAssumption DEF CreateInvoice, TypeOK
  <2>3. audit' \in [Servers -> SUBSET AuditType]
    <3> DEFINE e == [action |-> "INVOICE_CREATED", inv |-> i, by |-> None,
                     before |-> "ABSENT", after |-> "PENDING"]
    <3>1. e \in AuditType
      BY Zenon DEF AuditType, Statuses
    <3> HIDE DEF e
    <3>2. audit \in [Servers -> SUBSET AuditType]
      BY Zenon DEF TypeOK
    <3>3. UNCHANGED audit \/ audit' = [audit EXCEPT ![s] = @ \union {e}]
      BY <1>1, Zenon DEF CreateInvoice, e
    <3> QED BY <3>1, <3>2, <3>3, Zenon
  <2> QED BY <1>1, <2>2, <2>3, Zenon DEF CreateInvoice, TypeOK, Statuses
<1>2. ASSUME NEW r \in Requests, Arrive(r) PROVE TypeOK'
  <2>1. PICK q \in [kind : Kinds, srv : Servers, inv : Invoices, tx : Txs,
                    ver : Versions \union {NoVersion}] :
          /\ rq' = [rq EXCEPT ![r] = q]
          /\ pc' = [pc EXCEPT ![r] = IF q.kind = "verify" THEN "lock" ELSE "sweep"]
    BY <1>2, Zenon DEF Arrive
  <2>2. q \in RequestType
    <3>1. q.kind \in Kinds /\ q.ver \in Versions \union {NoVersion}
      BY Zenon
    <3>2. q.kind \in AllKinds
      BY <3>1, ConstantsAssumption, Zenon
    <3>3. Versions \union {NoVersion} \subseteq Nat
      BY ConstantsAssumption DEF NoVersion
    <3>4. q.ver \in Nat
      BY <3>1, <3>3, Zenon
    <3> QED BY <3>2, <3>4, Zenon DEF RequestType
  <2>3. rq' \in [Requests -> RequestType] /\ pc' \in [Requests -> Labels]
    BY <2>1, <2>2, Zenon DEF TypeOK, Labels
  <2> QED BY <1>2, <2>3, Zenon DEF Arrive, TypeOK
<1>3. ASSUME NEW r \in Requests, AcquireLock(r) PROVE TypeOK'
  BY <1>3, RequestFields, Zenon DEF AcquireLock, Goto, TypeOK, Labels
<1>4. ASSUME NEW r \in Requests, Refuse(r) PROVE TypeOK'
  <2>1. \E code \in Codes : Respond(r, code)
    BY <1>4, Zenon DEF Refuse, Codes
  <2> QED BY <1>4, <2>1, ControlType, Zenon DEF Refuse, TypeOK
<1>5. ASSUME NEW r \in Requests, Sweep(r) PROVE TypeOK'
  <2>1. \/ \E l \in Labels : Continue(r, l)
        \/ \E code \in Codes : Respond(r, code)
    BY <1>5 DEF Sweep, AfterSweep, Labels, Codes
  <2>2. status' \in [Invoices -> Statuses \union {"ABSENT"}]
    BY <1>5, Zenon DEF Sweep, MarkExpired, TypeOK, Statuses
  <2> QED BY <1>5, <2>1, <2>2, ControlType, Zenon DEF Sweep, TypeOK
<1>6. ASSUME NEW r \in Requests, Read(r) PROVE TypeOK'
  <2>1. Payability(Inv(r)) # "OK" => Payability(Inv(r)) \in Codes
    BY RequestFields, PayableType, SMTT(30) DEF Payability, TypeOK, Codes
  <2>2. \A op : MonitorVerdict(op, Terms[Inv(r)]) \in {"partial", "save", "skip"}
    BY Zenon DEF MonitorVerdict
  <2>3. \/ \E l \in Labels : Continue(r, l)
        \/ \E code \in Codes : Respond(r, code)
    BY <1>6, <2>1, <2>2, Zenon DEF Read, Labels, Codes
  <2>4. seen' \in [Requests -> [status : Statuses \union {"ABSENT"}, version : Nat]]
    BY <1>6, RequestFields, Zenon DEF Read, TypeOK
  <2> QED BY <1>6, <2>3, <2>4, ControlType, Zenon DEF Read, TypeOK
<1>7. ASSUME NEW r \in Requests, Horizon(r) PROVE TypeOK'
  <2>1. \/ \E l \in Labels : Continue(r, l)
        \/ \E code \in Codes : Respond(r, code)
    BY <1>7, VerdictType, Zenon DEF Horizon, Labels, Codes
  <2> QED BY <1>7, <2>1, ControlType, Zenon DEF Horizon, TypeOK
<1>8. ASSUME NEW r \in Requests, LogPartial(r) PROVE TypeOK'
  <2>1. \E code \in Codes : Respond(r, code)
    BY <1>8, Zenon DEF LogPartial, Codes
  <2>2. paymentEvents' \in SUBSET EventType
    BY <1>8, RequestFields DEF LogPartial, EventType, TypeOK
  <2> QED BY <1>8, <2>1, <2>2, ControlType, Zenon DEF LogPartial, TypeOK
<1>9. ASSUME NEW r \in Requests, SaveTransaction(r) PROVE TypeOK'
  <2>1. \/ \E l \in Labels : Continue(r, l)
        \/ \E code \in Codes : Respond(r, code)
    BY <1>9, Zenon DEF SaveTransaction, Labels, Codes
  <2>2. transactions' \in SUBSET (Txs \X Invoices)
    <3>1. transactions' \subseteq transactions \union {<<rq[r].tx, Inv(r)>>}
      BY <1>9, Zenon DEF SaveTransaction
    <3>2. <<rq[r].tx, Inv(r)>> \in Txs \X Invoices BY RequestFields, Zenon
    <3> QED BY <3>1, <3>2, Zenon DEF TypeOK
  <2> QED BY <1>9, <2>1, <2>2, ControlType, Zenon DEF SaveTransaction, TypeOK
<1>10. ASSUME NEW r \in Requests, Pay(r) PROVE TypeOK'
  <2>1. \/ \E l \in Labels : Continue(r, l)
        \/ \E code \in Codes : Fail(r, code)
    BY <1>10, Zenon DEF Pay, NoRow, Labels, Codes
  <2>2. /\ status' \in [Invoices -> Statuses \union {"ABSENT"}]
        /\ version' \in [Invoices -> Nat]
        /\ expiresAt' \in [Invoices -> Int]
        /\ paidAt' \in [Invoices -> Nat]
        /\ paymentTxHash' \in [Invoices -> Hashes \union {NoHash}]
        /\ settler' \in [Invoices -> Requests \union {None}]
    <3>1. PayRow(r) \/ UNCHANGED invoiceRow
      BY <1>10, Zenon DEF Pay
    <3>2. Inv(r) \in Invoices /\ HashOf(r) \in Hashes BY RequestFields, Zenon
    <3>3. CASE PayRow(r) BY <3>2, <3>3 DEF PayRow, TypeOK, Statuses
    <3>4. CASE UNCHANGED invoiceRow BY <3>4, Zenon DEF TypeOK
    <3> QED BY <3>1, <3>3, <3>4, Zenon
  <2> QED BY <1>10, <2>1, <2>2, ControlType, Zenon DEF Pay, TypeOK
<1>11. ASSUME NEW r \in Requests, CheckVersion(r) PROVE TypeOK'
  <2>1. \E code \in Codes : Fail(r, code)
    BY <1>11, Zenon DEF CheckVersion, Codes
  <2> QED BY <1>11, <2>1, ControlType, Zenon DEF CheckVersion, TypeOK
<1>12. ASSUME NEW r \in Requests, LogConfirmed(r) PROVE TypeOK'
  <2>1. \/ \E l \in Labels : Continue(r, l)
        \/ \E code \in Codes : Respond(r, code)
        \/ \E code \in Codes : Fail(r, code)
    BY <1>12, Zenon DEF LogConfirmed, Labels, Codes
  <2>2. paymentEvents' \in SUBSET EventType
    BY <1>12, RequestFields, SMTT(30) DEF LogConfirmed, EventType, TypeOK
  <2> QED BY <1>12, <2>1, <2>2, ControlType, Zenon DEF LogConfirmed, TypeOK
<1>13. ASSUME NEW r \in Requests, Reread(r) PROVE TypeOK'
  <2>1. RereadAnswer(r) \in Codes
    BY RequestFields, PayableType, SMTT(30) DEF RereadAnswer, Payability, TypeOK, Codes
  <2> QED BY <1>13, <2>1, ControlType, Zenon DEF Reread, TypeOK
<1>14. ASSUME NEW r \in Requests, Cancel(r) PROVE TypeOK'
  <2>1. \/ \E l \in Labels : Continue(r, l)
        \/ \E code \in Codes : Fail(r, code)
    BY <1>14, Zenon DEF Cancel, NoRow, Labels, Codes
  <2>2. /\ status' \in [Invoices -> Statuses \union {"ABSENT"}]
        /\ version' \in [Invoices -> Nat]
        /\ UNCHANGED <<expiresAt, paidAt, paymentTxHash, settler>>
    <3>1. CancelRow(r) \/ UNCHANGED invoiceRow
      BY <1>14, Zenon DEF Cancel
    <3>2. Inv(r) \in Invoices BY RequestFields, Zenon
    <3>3. CASE CancelRow(r) BY <3>2, <3>3 DEF CancelRow, TypeOK, Statuses
    <3>4. CASE UNCHANGED invoiceRow BY <3>4, Zenon DEF TypeOK
    <3> QED BY <3>1, <3>3, <3>4, Zenon
  <2> QED BY <1>14, <2>1, <2>2, ControlType, Zenon DEF Cancel, TypeOK
<1>15. ASSUME NEW r \in Requests, Audit(r) PROVE TypeOK'
  <2>1. \E code \in Codes : Respond(r, code)
    BY <1>15, Zenon DEF Audit, Codes
  <2>2. audit' \in [Servers -> SUBSET AuditType]
    <3> DEFINE a == [action |-> AuditAction(Kind(r)), inv |-> Inv(r), by |-> r,
                     before |-> seen[r].status,
                     after |-> IF Kind(r) = "cancel" THEN "CANCELLED" ELSE "PAID"]
    <3>1. a \in AuditType
      BY RequestFields, Zenon DEF AuditAction, AuditType, TypeOK, Statuses
    <3>2. audit' = [audit EXCEPT ![Srv(r)] = @ \union {a}] \/ audit' = audit
      BY <1>15, Zenon DEF Audit
    <3>3. Srv(r) \in Servers BY RequestFields, Zenon
    <3> HIDE DEF a
    <3> QED BY <3>1, <3>2, <3>3, SMTT(30) DEF TypeOK
  <2> QED BY <1>15, <2>1, <2>2, ControlType, Zenon DEF Audit, TypeOK
<1>16. ASSUME NEW r \in Requests, DbError(r) PROVE TypeOK'
  <2>1. \/ \E code \in Codes : Respond(r, code)
        \/ \E code \in Codes : Fail(r, code)
    BY <1>16, Zenon DEF DbError, Codes
  <2> QED BY <1>16, <2>1, ControlType, Zenon DEF DbError, TypeOK
<1>17. ASSUME NEW s \in Servers, BackgroundSweep(s) PROVE TypeOK'
  BY <1>17, Zenon DEF BackgroundSweep, MarkExpired, TypeOK, Statuses
<1>18. ASSUME NEW s \in Servers, Crash(s) PROVE TypeOK'
  BY <1>18 DEF Crash, TypeOK, Labels
<1>19. CASE Tick
  BY <1>19 DEF Tick, TypeOK
<1>20. CASE UNCHANGED vars
  BY <1>20, Zenon DEF vars, TypeOK
<1> QED
  BY Zenon, <1>1, <1>2, <1>3, <1>4, <1>5, <1>6, <1>7, <1>8, <1>9, <1>10, <1>11, <1>12,
     <1>13, <1>14, <1>15, <1>16, <1>17, <1>18, <1>19, <1>20 DEF Next, RequestStep

(* Type correctness: the variables of every behaviour have their types. *)
THEOREM TypeCorrect == Spec => []TypeOK
<1>1. Init => TypeOK
  <2> SUFFICES ASSUME Init PROVE TypeOK
    BY Zenon
  <2>1. NoRequest \in RequestType
    BY ConstantsAssumption, Zenon DEF NoRequest, RequestType, NoVersion
  <2> QED BY <2>1 DEF Init, TypeOK, Labels, Codes, Statuses, Hashes
<1> QED BY <1>1, TypeStep, PTL DEF Spec

---------------------------------------------------------------------------
(* What a step can do to one request *)

Same(q) ==
  /\ pc'[q] = pc[q] /\ rq'[q] = rq[q] /\ seen'[q] = seen[q]
  /\ error'[q] = error[q] /\ res'[q] = res[q]

Lost(q) ==
  /\ pc[q] \notin {"idle", "done"} /\ pc'[q] = "lost"
  /\ rq'[q] = rq[q] /\ seen'[q] = seen[q] /\ error'[q] = error[q] /\ res'[q] = res[q]

(* Answering, continuing and throwing, seen from request r and from another. *)
LEMMA ControlEffect ==
  ASSUME TypeOK, NEW r \in Requests
  PROVE  /\ \A code : Respond(r, code) =>
              pc'[r] = "done" /\ res'[r] = code /\ error' = error
         /\ \A l : Continue(r, l) => pc'[r] = l /\ res' = res /\ error' = error
         /\ \A e : Fail(r, e) =>
              IF Kind(r) = "verify"
              THEN pc'[r] = "resweep" /\ error'[r] = e /\ res' = res
              ELSE pc'[r] = "done" /\ res'[r] = e /\ error' = error
         /\ \A q \in Requests \ {r} :
              (\E c : Respond(r, c) \/ Continue(r, c) \/ Fail(r, c)) =>
                pc'[q] = pc[q] /\ res'[q] = res[q] /\ error'[q] = error[q]
BY Zenon DEF TypeOK, Respond, Continue, Fail, Goto

(* A step of one request leaves the others, and its own parameters, alone. *)
LEMMA RequestFrame ==
  ASSUME TypeOK, NEW r \in Requests, RequestStep(r)
  PROVE  rq' = rq /\ \A q \in Requests \ {r} : Same(q)
<1> USE DEF request
<1>1. CASE AcquireLock(r) BY <1>1, Zenon DEF AcquireLock, Goto, TypeOK, Same
<1>2. CASE Refuse(r) BY <1>2, ControlEffect, Zenon DEF Refuse, Same
<1>3. CASE Sweep(r) BY <1>3, ControlEffect, Zenon DEF Sweep, Same
<1>4. CASE Read(r)
  <2>1. \E c : Respond(r, c) \/ Continue(r, c) \/ Fail(r, c)
    BY <1>4, Zenon DEF Read
  <2>2. \A q \in Requests \ {r} : seen'[q] = seen[q]
    BY <1>4, Zenon DEF Read, TypeOK
  <2> QED BY <1>4, <2>1, <2>2, ControlEffect, Zenon DEF Read, Same
<1>5. CASE Horizon(r)
  <2>1. \E c : Respond(r, c) \/ Continue(r, c) \/ Fail(r, c)
    BY <1>5, Zenon DEF Horizon
  <2> QED BY <1>5, <2>1, ControlEffect, Zenon DEF Horizon, Same
<1>6. CASE LogPartial(r) BY <1>6, ControlEffect, Zenon DEF LogPartial, Same
<1>7. CASE SaveTransaction(r) BY <1>7, ControlEffect, Zenon DEF SaveTransaction, Same
<1>8. CASE Pay(r)
  <2>1. \E c : Respond(r, c) \/ Continue(r, c) \/ Fail(r, c)
    BY <1>8, Zenon DEF Pay, NoRow
  <2> QED BY <1>8, <2>1, ControlEffect, Zenon DEF Pay, Same
<1>9. CASE CheckVersion(r) BY <1>9, ControlEffect, Zenon DEF CheckVersion, Same
<1>10. CASE LogConfirmed(r)
  <2>1. \E c : Respond(r, c) \/ Continue(r, c) \/ Fail(r, c)
    BY <1>10, Zenon DEF LogConfirmed
  <2> QED BY <1>10, <2>1, ControlEffect, Zenon DEF LogConfirmed, Same
<1>11. CASE Reread(r) BY <1>11, ControlEffect, Zenon DEF Reread, Same
<1>12. CASE Cancel(r)
  <2>1. \E c : Respond(r, c) \/ Continue(r, c) \/ Fail(r, c)
    BY <1>12, Zenon DEF Cancel, NoRow
  <2> QED BY <1>12, <2>1, ControlEffect, Zenon DEF Cancel, Same
<1>13. CASE Audit(r) BY <1>13, ControlEffect, Zenon DEF Audit, Same
<1>14. CASE DbError(r) BY <1>14, ControlEffect, Zenon DEF DbError, Same
<1> QED
  BY Zenon, <1>1, <1>2, <1>3, <1>4, <1>5, <1>6, <1>7, <1>8, <1>9, <1>10, <1>11, <1>12,
     <1>13, <1>14 DEF RequestStep

(* A request starts at the lock or at the sweep, and is not answered yet. *)
LEMMA RequestArrives ==
  ASSUME TypeOK, NEW r \in Requests, Arrive(r)
  PROVE  pc[r] = "idle" /\ pc'[r] \in {"lock", "sweep"} /\ res' = res
<1>1. PICK q : pc' = [pc EXCEPT ![r] = IF q.kind = "verify" THEN "lock" ELSE "sweep"]
  BY Zenon DEF Arrive
<1>2. pc'[r] = IF q.kind = "verify" THEN "lock" ELSE "sweep"
  BY <1>1, Zenon DEF TypeOK
<1>3. pc[r] = "idle" /\ res' = res
  BY Zenon DEF Arrive
<1> QED BY <1>2, <1>3, Zenon

(* The four things that can happen to a request. *)
LEMMA Moves ==
  ASSUME TypeOK, [Next]_vars, NEW q \in Requests
  PROVE  Same(q) \/ Lost(q) \/ Arrive(q) \/ RequestStep(q)
<1> USE DEF request
<1>1. ASSUME NEW r \in Requests, Arrive(r) PROVE Same(q) \/ Arrive(q)
  <2>1. CASE r = q BY <1>1, <2>1, Zenon
  <2>2. CASE r # q
    <3>1. rq'[q] = rq[q] /\ pc'[q] = pc[q]
      BY <1>1, <2>2, Zenon DEF Arrive, TypeOK
    <3> QED BY <1>1, <3>1, Zenon DEF Arrive, Same
  <2> QED BY <2>1, <2>2, Zenon
<1>2. ASSUME NEW r \in Requests, RequestStep(r) PROVE Same(q) \/ RequestStep(q)
  BY <1>2, RequestFrame, Zenon
<1>3. ASSUME NEW s \in Servers, BackgroundSweep(s) PROVE Same(q)
  BY <1>3, Zenon DEF BackgroundSweep, Same
<1>4. ASSUME NEW s \in Servers, Crash(s) PROVE Same(q) \/ Lost(q)
  BY <1>4, Zenon DEF Crash, Same, Lost
<1>5. ASSUME NEW s \in Servers, NEW i \in Invoices, CreateInvoice(s, i) PROVE Same(q)
  BY <1>5, Zenon DEF CreateInvoice, Same
<1>6. CASE Tick \/ UNCHANGED vars
  BY <1>6, Zenon DEF Tick, vars, Same
<1> QED BY <1>1, <1>2, <1>3, <1>4, <1>5, <1>6, Zenon DEF Next

(* The four ways a row of the invoices table changes. *)
LEMMA RowChange ==
  ASSUME TypeOK, [Next]_vars
  PROVE  \/ UNCHANGED invoiceRow
         \/ \E s \in Servers, i \in Invoices : CreateInvoice(s, i)
         \/ \E r \in Requests :
              Pay(r) /\ RowPayable(r) /\ HashUnused(HashOf(r)) /\ PayRow(r)
         \/ \E r \in Requests : Cancel(r) /\ RowCancellable(r) /\ CancelRow(r)
         \/ \E s \in Servers :
              MarkExpired(s) /\ UNCHANGED <<version, expiresAt, paidAt, paymentTxHash, settler>>
<1> USE DEF invoiceRow, database
<1>1. ASSUME NEW r \in Requests, RequestStep(r)
      PROVE  \/ UNCHANGED invoiceRow
             \/ Pay(r) /\ RowPayable(r) /\ HashUnused(HashOf(r)) /\ PayRow(r)
             \/ Cancel(r) /\ RowCancellable(r) /\ CancelRow(r)
             \/ /\ MarkExpired(Srv(r))
                /\ UNCHANGED <<version, expiresAt, paidAt, paymentTxHash, settler>>
  <2>1. CASE Sweep(r) BY <2>1, Zenon DEF Sweep
  <2>2. CASE Pay(r) BY <2>2, Zenon DEF Pay
  <2>3. CASE Cancel(r) BY <2>3, Zenon DEF Cancel
  <2>4. CASE AcquireLock(r) \/ Refuse(r) \/ Read(r) \/ Horizon(r) \/ LogPartial(r)
             \/ SaveTransaction(r) \/ CheckVersion(r) \/ LogConfirmed(r) \/ Reread(r)
             \/ Audit(r) \/ DbError(r)
    BY <2>4, ZenonT(30) DEF AcquireLock, Refuse, Read, Horizon, LogPartial, SaveTransaction,
                CheckVersion, LogConfirmed, Reread, Audit, DbError
  <2> QED BY <1>1, <2>1, <2>2, <2>3, <2>4, Zenon DEF RequestStep
<1>2. ASSUME NEW r \in Requests, Arrive(r) PROVE UNCHANGED invoiceRow
  BY <1>2, Zenon DEF Arrive
<1>3. ASSUME NEW s \in Servers, BackgroundSweep(s)
      PROVE  MarkExpired(s) /\ UNCHANGED <<version, expiresAt, paidAt, paymentTxHash, settler>>
  BY <1>3, Zenon DEF BackgroundSweep
<1>4. ASSUME NEW s \in Servers, Crash(s) PROVE UNCHANGED invoiceRow
  BY <1>4, Zenon DEF Crash
<1>5. CASE Tick \/ UNCHANGED vars
  BY <1>5, Zenon DEF Tick, vars
<1>6. \A r \in Requests : Srv(r) \in Servers
  BY RequestFields, Zenon
<1> QED BY <1>1, <1>2, <1>3, <1>4, <1>5, <1>6, Zenon DEF Next

(* No step changes a row that is PAID, EXPIRED or CANCELLED, and none      *)
(* makes a row ABSENT again.                                               *)
LEMMA FinalStep ==
  ASSUME TypeOK, [Next]_vars, NEW i \in Invoices
  PROVE  /\ status[i] \in Final =>
              /\ status'[i] = status[i] /\ version'[i] = version[i]
              /\ paidAt'[i] = paidAt[i] /\ paymentTxHash'[i] = paymentTxHash[i]
              /\ settler'[i] = settler[i] /\ expiresAt'[i] = expiresAt[i]
         /\ status'[i] \in Statuses \union {"ABSENT"}
<1>0. \A r \in Requests : Inv(r) \in Invoices
  BY RequestFields, Zenon
<1>1. CASE UNCHANGED invoiceRow
  BY <1>1, Zenon DEF invoiceRow, TypeOK
<1>2. ASSUME NEW s \in Servers, NEW j \in Invoices, CreateInvoice(s, j)
      PROVE  status[i] \in Final =>
              /\ status'[i] = status[i] /\ version'[i] = version[i]
              /\ paidAt'[i] = paidAt[i] /\ paymentTxHash'[i] = paymentTxHash[i]
              /\ settler'[i] = settler[i] /\ expiresAt'[i] = expiresAt[i]
  BY <1>2, Zenon DEF CreateInvoice, TypeOK, Final
<1>3. ASSUME NEW r \in Requests, RowPayable(r), PayRow(r)
      PROVE  status[i] \in Final =>
              /\ status'[i] = status[i] /\ version'[i] = version[i]
              /\ paidAt'[i] = paidAt[i] /\ paymentTxHash'[i] = paymentTxHash[i]
              /\ settler'[i] = settler[i] /\ expiresAt'[i] = expiresAt[i]
  BY <1>0, <1>3, Zenon DEF RowPayable, PayRow, TypeOK, Final
<1>4. ASSUME NEW r \in Requests, RowCancellable(r), CancelRow(r)
      PROVE  status[i] \in Final =>
              /\ status'[i] = status[i] /\ version'[i] = version[i]
              /\ paidAt'[i] = paidAt[i] /\ paymentTxHash'[i] = paymentTxHash[i]
              /\ settler'[i] = settler[i] /\ expiresAt'[i] = expiresAt[i]
  BY <1>0, <1>4, Zenon DEF RowCancellable, CancelRow, TypeOK, Final
<1>5. ASSUME NEW s \in Servers, MarkExpired(s),
             UNCHANGED <<version, expiresAt, paidAt, paymentTxHash, settler>>
      PROVE  status[i] \in Final =>
              /\ status'[i] = status[i] /\ version'[i] = version[i]
              /\ paidAt'[i] = paidAt[i] /\ paymentTxHash'[i] = paymentTxHash[i]
              /\ settler'[i] = settler[i] /\ expiresAt'[i] = expiresAt[i]
  BY <1>5, Zenon DEF MarkExpired, Overdue, Final
<1>6. TypeOK'
  BY TypeStep, Zenon
<1>7. status'[i] \in Statuses \union {"ABSENT"}
  BY <1>6, Zenon DEF TypeOK
<1> QED BY <1>1, <1>2, <1>3, <1>4, <1>5, <1>7, RowChange, Zenon

(* PAID, EXPIRED and CANCELLED rows never change: for every number of      *)
(* requests and servers, no handler, monitor, sweep or crash rewrites one. *)
THEOREM FinalRowsNeverChange == Spec => FinalRowsStay
<1>1. TypeOK /\ [Next]_vars =>
        [\A i \in Invoices : status[i] \in Statuses \ {"PENDING"} =>
           /\ status'[i] = status[i] /\ version'[i] = version[i]
           /\ paidAt'[i] = paidAt[i] /\ paymentTxHash'[i] = paymentTxHash[i]]_vars
  BY FinalStep, Zenon DEF Final, Statuses
<1> QED BY <1>1, TypeCorrect, PTL DEF Spec, FinalRowsStay

-----------------------------------------------------------------------------
(* Every handler keeps to its route, answers once and names an error. *)
LEMMA ControlStep == IInv /\ [Next]_vars => ControlInv'
<1> SUFFICES ASSUME IInv, [Next]_vars, NEW q \in Requests
             PROVE  /\ pc'[q] \in Route(Kind(q)')
                    /\ res'[q] # "none" <=> pc'[q] = "done"
                    /\ pc'[q] \in {"resweep", "reread"} => error'[q] \in Errors
                    /\ pc'[q] \in {"idle", "lock", "sweep"} => seen'[q].status = "ABSENT"
  BY Zenon DEF ControlInv
<1>0. /\ TypeOK
      /\ pc[q] \in Route(Kind(q))
      /\ res[q] # "none" <=> pc[q] = "done"
      /\ pc[q] \in {"resweep", "reread"} => error[q] \in Errors
      /\ pc[q] \in {"idle", "lock", "sweep"} => seen[q].status = "ABSENT"
  BY Zenon DEF IInv, ControlInv
<1>1. CASE Same(q)
  BY <1>0, <1>1, Zenon DEF Same, Kind
<1>2. CASE Lost(q)
  BY <1>0, <1>2, Zenon DEF Lost, Kind, Route
<1>3. CASE Arrive(q)
  <2>1. PICK a \in [kind : Kinds, srv : Servers, inv : Invoices, tx : Txs,
                    ver : Versions \union {NoVersion}] :
          /\ rq' = [rq EXCEPT ![q] = a]
          /\ pc' = [pc EXCEPT ![q] = IF a.kind = "verify" THEN "lock" ELSE "sweep"]
    BY <1>3, Zenon DEF Arrive
  <2>2. /\ Kind(q)' = a.kind /\ a.kind # "none"
        /\ pc'[q] = IF a.kind = "verify" THEN "lock" ELSE "sweep"
    BY <1>0, <2>1, ConstantsAssumption, Zenon DEF Kind, TypeOK, AllKinds
  <2>3. pc[q] = "idle" /\ res' = res /\ error' = error /\ seen' = seen
    BY <1>3, Zenon DEF Arrive
  <2> QED BY <1>0, <2>2, <2>3, Zenon DEF Route
<1>4. CASE RequestStep(q)
  <2>0. Kind(q)' = Kind(q)
    BY <1>0, <1>4, RequestFrame, Zenon DEF Kind
  <2>1. CASE AcquireLock(q)
    BY <1>0, <2>0, <2>1, Zenon DEF AcquireLock, Goto, Route, TypeOK
  <2>2. CASE Refuse(q)
    BY <1>0, <2>0, <2>2, ControlEffect DEF Refuse, Route
  <2>3. CASE Sweep(q)
    BY <1>0, <2>0, <2>3, ControlEffect DEF Sweep, AfterSweep, Route
  <2>4. CASE Read(q)
    <3>1. Payability(Inv(q)) # "OK" => Payability(Inv(q)) # "none"
      BY Zenon DEF Payability, CheckInvoiceIsPayable
    <3>2. \A op : MonitorVerdict(op, Terms[Inv(q)]) \in {"partial", "save", "skip"}
      BY Zenon DEF MonitorVerdict
    <3> QED BY <1>0, <2>0, <2>4, <3>1, <3>2, ControlEffect, SMTT(30) DEF Read, Route
  <2>5. CASE Horizon(q)
    <3>1. \A network : VerifyHorizonPayment(Ledger[rq[q].tx], network, Terms[Inv(q)]) # "none"
      BY Zenon DEF VerifyHorizonPayment
    <3> QED BY <1>0, <2>0, <2>5, <3>1, ControlEffect DEF Horizon, Route
  <2>6. CASE LogPartial(q)
    BY <1>0, <2>0, <2>6, ControlEffect, SMTT(30) DEF LogPartial, Route
  <2>7. CASE SaveTransaction(q)
    BY <1>0, <2>0, <2>7, ControlEffect DEF SaveTransaction, Route
  <2>8. CASE Pay(q)
    BY <1>0, <2>0, <2>8, ControlEffect DEF Pay, NoRow, Route, Errors
  <2>9. CASE CheckVersion(q)
    BY <1>0, <2>0, <2>9, ControlEffect DEF CheckVersion, Route, Errors
  <2>10. CASE LogConfirmed(q)
    <3>1. \/ Fail(q, "DB_ERROR")
          \/ Kind(q) = "monitor" /\ Respond(q, "200")
          \/ Kind(q) # "monitor" /\ Continue(q, "audit")
      BY <2>10, Zenon DEF LogConfirmed
    <3>2. pc[q] = "event" /\ seen' = seen
      BY <2>10, Zenon DEF LogConfirmed
    <3>3. Kind(q) \in AllKinds \union {"none"}
      BY <1>0, Zenon DEF TypeOK, RequestType, Kind
    <3> QED BY <1>0, <2>0, <3>1, <3>2, <3>3, ControlEffect, SMTT(30) DEF Route, Errors, AllKinds
  <2>11. CASE Reread(q)
    <3>1. RereadAnswer(q) # "none"
      BY <1>0, <2>11, Zenon DEF Reread, RereadAnswer, Payability, CheckInvoiceIsPayable, Errors
    <3> QED BY <1>0, <2>0, <2>11, <3>1, ControlEffect, Zenon DEF Reread, Route
  <2>12. CASE Cancel(q)
    <3>1. \/ Continue(q, "audit") \/ Continue(q, "check")
          \/ Fail(q, "DB_ERROR") \/ Fail(q, "NOT_UPDATED")
      BY <2>12, Zenon DEF Cancel, NoRow
    <3>2. pc[q] = "cancel" /\ seen' = seen
      BY <2>12, Zenon DEF Cancel
    <3>3. Kind(q) = "cancel"
      BY <1>0, <3>2, Zenon DEF Route
    <3> QED BY <1>0, <2>0, <3>1, <3>2, <3>3, ControlEffect, SMTT(30) DEF Route
  <2>13. CASE Audit(q)
    BY <1>0, <2>0, <2>13, ControlEffect DEF Audit, Route
  <2>14. CASE DbError(q)
    BY <1>0, <2>0, <2>14, ControlEffect, SMTT(30) DEF DbError, Route, Errors
  <2> QED
    BY Zenon, <1>4, <2>1, <2>2, <2>3, <2>4, <2>5, <2>6, <2>7, <2>8, <2>9, <2>10, <2>11,
       <2>12, <2>13, <2>14 DEF RequestStep
<1> QED BY <1>0, <1>1, <1>2, <1>3, <1>4, Moves, Zenon

(* After taking the lock, a verification keeps it until it answers. *)
LEMMA LockEffect ==
  ASSUME TypeOK, ControlInv, NEW r \in Requests, RequestStep(r)
  PROVE  \/ AcquireLock(r)
         \/ \E c : Respond(r, c)
         \/ /\ locks' = locks
            /\ Kind(r) = "verify" => pc[r] \in UnderLock /\ pc'[r] \in UnderLock
<1>0. pc[r] \in Route(Kind(r))
  BY Zenon DEF ControlInv
<1>1. CASE Refuse(r) BY <1>1, Zenon DEF Refuse
<1>2. CASE Sweep(r)
  <2>1. (\E c : Respond(r, c)) \/ Continue(r, AfterSweep[pc[r]])
    BY <1>2, Zenon DEF Sweep
  <2>2. CASE Continue(r, AfterSweep[pc[r]])
    BY <1>0, <1>2, <2>2, ControlEffect DEF Sweep, AfterSweep, Continue, UnderLock, Route
  <2> QED BY <2>1, <2>2, Zenon
<1>3. CASE Read(r)
  <2>1. \/ \E c : Respond(r, c)
        \/ Kind(r) # "verify" /\ \E l : Continue(r, l)
        \/ Continue(r, "horizon")
    BY <1>3, Zenon DEF Read
  <2> QED BY <1>3, <2>1, ControlEffect, Zenon DEF Read, Continue, UnderLock
<1>4. CASE Horizon(r)
  <2>1. (\E c : Respond(r, c)) \/ Continue(r, "pay")
    BY <1>4, Zenon DEF Horizon
  <2> QED BY <1>4, <2>1, ControlEffect, Zenon DEF Horizon, Continue, UnderLock
<1>5. CASE LogPartial(r) BY <1>5, Zenon DEF LogPartial
<1>6. CASE SaveTransaction(r)
  BY <1>0, <1>6, ControlEffect, Zenon DEF SaveTransaction, Continue, Route
<1>7. CASE Pay(r)
  BY <1>7, ControlEffect, Zenon DEF Pay, NoRow, Continue, Fail, UnderLock
<1>8. CASE CheckVersion(r)
  BY <1>8, ControlEffect, Zenon DEF CheckVersion, Fail, UnderLock
<1>9. CASE LogConfirmed(r)
  BY <1>9, ControlEffect, Zenon DEF LogConfirmed, Continue, Fail, UnderLock
<1>10. CASE Reread(r) BY <1>10, Zenon DEF Reread
<1>11. CASE Cancel(r)
  BY <1>0, <1>11, ControlEffect, Zenon DEF Cancel, NoRow, Continue, Fail, Route
<1>12. CASE Audit(r) BY <1>12, Zenon DEF Audit
<1>13. CASE DbError(r)
  BY <1>13, ControlEffect, Zenon DEF DbError, Fail, UnderLock
<1> QED
  BY <1>1, <1>2, <1>3, <1>4, <1>5, <1>6, <1>7, <1>8, <1>9, <1>10, <1>11, <1>12, <1>13, Zenon
     DEF RequestStep

(* A lock is held by the one verification that took it, until its finally block or a crash. *)
LEMMA LockStep == IInv /\ [Next]_vars => LockGuardsVerify'
<1> SUFFICES ASSUME IInv, [Next]_vars,
                    NEW q \in Requests, NEW s \in Servers, NEW i \in Invoices
             PROVE  locks'[s][i] = q <=>
                      /\ Kind(q)' = "verify" /\ Srv(q)' = s /\ Inv(q)' = i
                      /\ pc'[q] \in UnderLock
  BY Zenon DEF LockGuardsVerify
<1>0. /\ TypeOK /\ ControlInv
      /\ locks[s][i] = q <=>
           Kind(q) = "verify" /\ Srv(q) = s /\ Inv(q) = i /\ pc[q] \in UnderLock
  BY Zenon DEF IInv, LockGuardsVerify
<1>1. q # Free /\ locks[s][i] \in Requests \union {Free}
  BY <1>0, ConstantsAssumption DEF Free, TypeOK
<1>2. ASSUME NEW r \in Requests, RequestStep(r)
      PROVE  locks'[s][i] = q <=>
               /\ Kind(q)' = "verify" /\ Srv(q)' = s /\ Inv(q)' = i
               /\ pc'[q] \in UnderLock
  <2>1. Kind(q)' = Kind(q) /\ Srv(q)' = Srv(q) /\ Inv(q)' = Inv(q)
    BY <1>0, <1>2, RequestFrame, Zenon DEF Kind, Srv, Inv
  <2>2. r # q => pc'[q] = pc[q]
    BY <1>0, <1>2, RequestFrame, Zenon DEF Same
  <2>3. Srv(r) \in Servers /\ Inv(r) \in Invoices
    BY <1>0, RequestFields, Zenon
  <2>4. CASE AcquireLock(r)
    <3>1. /\ pc[r] = "lock" /\ pc'[r] = "sweep" /\ Kind(r) = "verify"
          /\ locks[Srv(r)][Inv(r)] = Free
      BY <1>0, <2>4, Zenon DEF AcquireLock, Goto, TypeOK, ControlInv, Route
    <3>2. locks'[s][i] = IF s = Srv(r) /\ i = Inv(r) THEN r ELSE locks[s][i]
      BY <1>0, <2>3, <2>4, Zenon DEF AcquireLock, TypeOK
    <3> QED BY <1>0, <1>1, <2>1, <2>2, <3>1, <3>2, Zenon DEF UnderLock
  <2>5. ASSUME NEW c, Respond(r, c)
        PROVE  locks'[s][i] = q <=>
                 Kind(q) = "verify" /\ Srv(q) = s /\ Inv(q) = i /\ pc'[q] \in UnderLock
    <3>1. locks'[s][i] = IF s = Srv(r) /\ i = Inv(r) /\ locks[s][i] = r
                         THEN Free ELSE locks[s][i]
      BY <1>0, <2>3, <2>5, Zenon DEF Respond, TypeOK
    <3>2. pc'[r] = "done"
      BY <1>0, <2>5, ControlEffect, Zenon
    <3> QED BY <1>0, <1>1, <2>2, <3>1, <3>2, Zenon DEF UnderLock
  <2>6. CASE locks' = locks /\ (Kind(r) = "verify" => pc[r] \in UnderLock /\ pc'[r] \in UnderLock)
    BY <1>0, <2>1, <2>2, <2>6, Zenon
  <2> QED BY <1>0, <1>2, <2>1, <2>4, <2>5, <2>6, LockEffect, Zenon
<1>3. ASSUME NEW r \in Requests, Arrive(r)
      PROVE  locks'[s][i] = q <=>
               /\ Kind(q)' = "verify" /\ Srv(q)' = s /\ Inv(q)' = i
               /\ pc'[q] \in UnderLock
  <2>1. PICK a \in [kind : Kinds, srv : Servers, inv : Invoices, tx : Txs,
                    ver : Versions \union {NoVersion}] :
          /\ rq' = [rq EXCEPT ![r] = a]
          /\ pc' = [pc EXCEPT ![r] = IF a.kind = "verify" THEN "lock" ELSE "sweep"]
    BY <1>3, Zenon DEF Arrive
  <2>2. pc[r] = "idle" /\ locks' = locks
    BY <1>3, Zenon DEF Arrive
  <2>3. CASE r = q
    <3>1. Kind(q)' = a.kind /\ pc'[q] = IF a.kind = "verify" THEN "lock" ELSE "sweep"
      BY <1>0, <2>1, <2>3, Zenon DEF TypeOK, Kind
    <3> QED BY <1>0, <2>2, <2>3, <3>1, Zenon DEF UnderLock
  <2>4. CASE r # q
    <3>1. rq'[q] = rq[q] /\ pc'[q] = pc[q]
      BY <1>0, <2>1, <2>4, Zenon DEF TypeOK
    <3> QED BY <1>0, <2>2, <3>1, Zenon DEF Kind, Srv, Inv
  <2> QED BY <2>3, <2>4, Zenon
<1>4. ASSUME NEW t \in Servers, Crash(t)
      PROVE  locks'[s][i] = q <=>
               /\ Kind(q)' = "verify" /\ Srv(q)' = s /\ Inv(q)' = i
               /\ pc'[q] \in UnderLock
  <2>1. /\ locks'[s][i] = IF s = t THEN Free ELSE locks[s][i]
        /\ pc'[q] = IF Srv(q) = t /\ pc[q] \notin {"idle", "done"} THEN "lost" ELSE pc[q]
        /\ Kind(q)' = Kind(q) /\ Srv(q)' = Srv(q) /\ Inv(q)' = Inv(q)
    BY <1>0, <1>4, Zenon DEF Crash, TypeOK, Kind, Srv, Inv
  <2> QED BY <1>0, <1>1, <2>1 DEF UnderLock
<1>5. ASSUME UNCHANGED <<locks, pc, rq>>
      PROVE  locks'[s][i] = q <=>
               /\ Kind(q)' = "verify" /\ Srv(q)' = s /\ Inv(q)' = i
               /\ pc'[q] \in UnderLock
  BY <1>0, <1>5, Zenon DEF Kind, Srv, Inv
<1>6. ASSUME (\E t \in Servers : BackgroundSweep(t) \/ \E j \in Invoices : CreateInvoice(t, j))
             \/ Tick \/ UNCHANGED vars
      PROVE  UNCHANGED <<locks, pc, rq>>
  BY <1>6, Zenon DEF BackgroundSweep, CreateInvoice, Tick, vars, request
<1> QED BY <1>2, <1>3, <1>4, <1>5, <1>6, Zenon DEF Next

(* A request past its UPDATE never gets back before it. *)
AfterPay == {"event", "audit", "resweep", "reread", "done", "lost"}

(* No handler goes back to its UPDATE. *)
LEMMA AfterPayStays ==
  ASSUME TypeOK, [Next]_vars, NEW r \in Requests, pc[r] \in AfterPay
  PROVE  pc'[r] \in AfterPay /\ rq'[r] = rq[r]
<1>1. CASE Same(r) \/ Lost(r)
  BY <1>1, Zenon DEF Same, Lost, AfterPay
<1>2. CASE Arrive(r)
  BY <1>2, Zenon DEF Arrive, AfterPay
<1>3. CASE RequestStep(r)
  <2>0. rq'[r] = rq[r]
    BY <1>3, RequestFrame, Zenon
  <2>1. CASE Sweep(r)
    <3>1. Continue(r, AfterSweep[pc[r]]) \/ Respond(r, "DB_ERROR")
      BY <2>1, Zenon DEF Sweep
    <3>2. pc[r] = "resweep" /\ AfterSweep[pc[r]] = "reread"
      BY <2>1 DEF Sweep, AfterSweep, AfterPay
    <3>3. pc'[r] \in {"reread", "done"}
      BY <3>1, <3>2, ControlEffect, Zenon
    <3> QED BY <2>0, <3>3, Zenon DEF AfterPay
  <2>2. CASE LogConfirmed(r) BY <2>0, <2>2, ControlEffect, Zenon DEF LogConfirmed, AfterPay
  <2>3. CASE Reread(r) BY <2>0, <2>3, ControlEffect, Zenon DEF Reread, AfterPay
  <2>4. CASE Audit(r) BY <2>0, <2>4, ControlEffect, Zenon DEF Audit, AfterPay
  <2>5. CASE DbError(r) BY <2>0, <2>5, ControlEffect, Zenon DEF DbError, AfterPay
  <2>6. CASE AcquireLock(r) \/ Refuse(r) \/ Read(r) \/ Horizon(r) \/ LogPartial(r)
             \/ SaveTransaction(r) \/ Pay(r) \/ CheckVersion(r) \/ Cancel(r)
    BY <2>6, Zenon DEF AcquireLock, Refuse, Read, Horizon, LogPartial, SaveTransaction, Pay,
                CheckVersion, Cancel, AfterPay
  <2> QED BY <1>3, <2>1, <2>2, <2>3, <2>4, <2>5, <2>6, Zenon DEF RequestStep
<1> QED BY <1>1, <1>2, <1>3, Moves, Zenon

(* A row a request read as final still is. *)
LEMMA SnapshotStep == IInv /\ [Next]_vars => SnapshotInv'
<1> SUFFICES ASSUME IInv, [Next]_vars, NEW q \in Requests, seen'[q].status \in Final
             PROVE  status'[Inv(q)'] = seen'[q].status
  BY Zenon DEF SnapshotInv
<1>0. /\ TypeOK /\ ControlInv /\ Inv(q) \in Invoices
      /\ seen[q].status \in Final => status[Inv(q)] = seen[q].status
  BY RequestFields, Zenon DEF IInv, SnapshotInv
<1>1. ASSUME seen'[q] = seen[q], rq'[q] = rq[q]
      PROVE  status'[Inv(q)'] = seen'[q].status
  BY <1>0, <1>1, FinalStep, Zenon DEF Inv
<1>2. CASE Arrive(q)
  BY <1>0, <1>2, Zenon DEF Arrive, ControlInv, Final
<1>3. CASE Read(q)
  <2>1. /\ seen'[q].status = status[Inv(q)] /\ rq' = rq
        /\ status' = status
    BY <1>0, <1>3, Zenon DEF Read, database, invoiceRow, TypeOK
  <2> QED BY <2>1, Zenon DEF Inv
<1>4. CASE RequestStep(q) /\ ~Read(q)
  <2>1. seen' = seen
    BY <1>4, ZenonT(30) DEF RequestStep, AcquireLock, Refuse, Sweep, Horizon, LogPartial,
                SaveTransaction, Pay, CheckVersion, LogConfirmed, Reread, Cancel,
                Audit, DbError
  <2>2. rq' = rq
    BY <1>0, <1>4, RequestFrame, Zenon
  <2> QED BY <1>1, <2>1, <2>2, Zenon
<1> QED BY <1>0, <1>1, <1>2, <1>3, <1>4, Moves, Zenon DEF Same, Lost

(* A PAID row keeps its payer; other rows have neither payer nor hash. *)
LEMMA SettleStep == IInv /\ [Next]_vars => SettleInv'
<1> SUFFICES ASSUME IInv, [Next]_vars, NEW i \in Invoices
             PROVE  IF status'[i] = "PAID"
                    THEN SettledBy(i, settler[i])' /\ paidAt'[i] < expiresAt'[i]
                    ELSE settler'[i] = None /\ paymentTxHash'[i] = NoHash
  BY Zenon DEF SettleInv
<1>0. /\ TypeOK /\ ControlInv
      /\ IF status[i] = "PAID" THEN SettledBy(i, settler[i]) /\ paidAt[i] < expiresAt[i]
         ELSE settler[i] = None /\ paymentTxHash[i] = NoHash
  BY Zenon DEF IInv, SettleInv
<1>1. CASE status[i] = "PAID"
  <2>1. /\ status'[i] = "PAID" /\ paidAt'[i] = paidAt[i] /\ expiresAt'[i] = expiresAt[i]
        /\ paymentTxHash'[i] = paymentTxHash[i] /\ settler'[i] = settler[i]
    BY <1>0, <1>1, FinalStep, Zenon DEF Final
  <2>2. pc'[settler[i]] \in AfterPay /\ rq'[settler[i]] = rq[settler[i]]
    BY <1>0, <1>1, AfterPayStays, Zenon DEF SettledBy, AfterPay
  <2> QED BY <1>0, <1>1, <2>1, <2>2, Zenon DEF SettledBy, AfterPay, Inv, Kind, HashOf
<1>2. CASE status[i] # "PAID"
  <2>0. \A r \in Requests : Inv(r) \in Invoices
    BY <1>0, RequestFields, Zenon
  <2>1. ASSUME status'[i] # "PAID", UNCHANGED <<settler, paymentTxHash>>
        PROVE  settler'[i] = None /\ paymentTxHash'[i] = NoHash
    BY <1>0, <1>2, <2>1, Zenon
  <2>2. CASE UNCHANGED invoiceRow
    BY <1>2, <2>1, <2>2, Zenon DEF invoiceRow
  <2>3. ASSUME NEW s \in Servers, NEW j \in Invoices, CreateInvoice(s, j)
        PROVE  status'[i] # "PAID" /\ UNCHANGED <<settler, paymentTxHash>>
    BY <1>0, <1>2, <2>3, Zenon DEF CreateInvoice, TypeOK
  <2>4. ASSUME NEW r \in Requests, RowCancellable(r), CancelRow(r)
        PROVE  status'[i] # "PAID" /\ UNCHANGED <<settler, paymentTxHash>>
    BY <1>0, <1>2, <2>0, <2>4, Zenon DEF CancelRow, TypeOK
  <2>5. ASSUME NEW s \in Servers, MarkExpired(s),
               UNCHANGED <<version, expiresAt, paidAt, paymentTxHash, settler>>
        PROVE  status'[i] # "PAID" /\ UNCHANGED <<settler, paymentTxHash>>
    BY <1>2, <2>5, Zenon DEF MarkExpired
  <2>6. ASSUME NEW r \in Requests, Pay(r), RowPayable(r), PayRow(r)
        PROVE  IF status'[i] = "PAID"
               THEN SettledBy(i, settler[i])' /\ paidAt'[i] < expiresAt'[i]
               ELSE settler'[i] = None /\ paymentTxHash'[i] = NoHash
    <3>1. CASE Inv(r) = i
      <4>1. /\ settler'[i] = r /\ paymentTxHash'[i] = HashOf(r)
            /\ paidAt'[i] = now /\ expiresAt'[i] = expiresAt[i] /\ now < expiresAt[i]
            /\ status'[i] = "PAID"
        BY <1>0, <2>6, <3>1, Zenon DEF PayRow, RowPayable, TypeOK
      <4>2. rq' = rq /\ pc[r] = "pay"
        BY <2>6, Zenon DEF Pay
      <4>3. Kind(r) \in AllKinds \ {"cancel"}
        BY <1>0, <4>2, Zenon DEF ControlInv, Route, TypeOK, RequestType, Kind, AllKinds
      <4>4. \/ Continue(r, "event")
            \/ \E e : Fail(r, e)
        BY <2>6, Zenon DEF Pay
      <4>5. pc'[r] \in {"event", "resweep", "done"}
        BY <1>0, <4>4, ControlEffect, Zenon
      <4> QED BY <3>1, <4>1, <4>2, <4>3, <4>5, Zenon DEF SettledBy, Inv, Kind, HashOf
    <3>2. CASE Inv(r) # i
      <4>1. status'[i] = status[i] /\ settler'[i] = settler[i]
            /\ paymentTxHash'[i] = paymentTxHash[i]
        BY <1>0, <2>0, <2>6, <3>2, Zenon DEF PayRow, TypeOK
      <4> QED BY <1>0, <1>2, <4>1, Zenon
    <3> QED BY <3>1, <3>2, Zenon
  <2> QED BY <1>0, <2>1, <2>2, <2>3, <2>4, <2>5, <2>6, RowChange, ZenonT(30)
<1> QED BY <1>1, <1>2, Zenon

(* The unique index keeps one hash from settling two rows. *)
LEMMA HashStep == IInv /\ [Next]_vars => OneInvoicePerTransaction'
<1> SUFFICES ASSUME IInv, [Next]_vars, NEW i \in Invoices, NEW j \in Invoices,
                    paymentTxHash'[i] # NoHash, paymentTxHash'[i] = paymentTxHash'[j]
             PROVE  i = j
  BY Zenon DEF OneInvoicePerTransaction
<1>0. /\ TypeOK
      /\ paymentTxHash[i] # NoHash /\ paymentTxHash[i] = paymentTxHash[j] => i = j
  BY Zenon DEF IInv, OneInvoicePerTransaction
<1>1. CASE UNCHANGED paymentTxHash
  BY <1>0, <1>1, Zenon
<1>2. ASSUME NEW r \in Requests, HashUnused(HashOf(r)), PayRow(r) PROVE i = j
  <2>1. Inv(r) \in Invoices
    BY <1>0, RequestFields, Zenon
  <2>2. \A k \in Invoices : paymentTxHash[k] # HashOf(r)
    BY <1>2, Zenon DEF HashUnused
  <2>3. \A k \in Invoices :
          paymentTxHash'[k] = IF k = Inv(r) THEN HashOf(r) ELSE paymentTxHash[k]
    BY <1>0, <1>2, <2>1, Zenon DEF PayRow, TypeOK
  <2> QED BY <1>0, <2>1, <2>2, <2>3, Zenon
<1> QED BY <1>0, <1>1, <1>2, RowChange, Zenon DEF invoiceRow, CreateInvoice, CancelRow
=============================================================================
