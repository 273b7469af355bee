------------------------- MODULE InvoiceServerProofs -------------------------
(***************************************************************************)
(* Theorems about InvoiceServer, for any number of invoices, requests,     *)
(* servers, transactions and crashes.  The first part shows that a step    *)
(* preserves the invariant about the evidence a settled invoice leaves:    *)
(* the winner, the payment events and the audit logs.  All but             *)
(* ConflictIsStale hold for any clock skew.                                *)
(***************************************************************************)
EXTENDS InvoiceStepProofs

(* A handler goes on to settle an invoice only with a payment that matches it and a row it read as
   PENDING, and simulates only where that is allowed. *)
LEMMA EvidenceStep == IInv /\ [Next]_vars => EvidenceInv'
<1> SUFFICES ASSUME IInv, [Next]_vars, NEW q \in Requests
             PROVE  /\ Kind(q)' = "monitor" => Ledger[rq'[q].tx].memo = Terms[Inv(q)'].memo
                    /\ Kind(q)' = "simulate" /\ pc'[q] \in {"read", "pay"} => SimulateAllowed
                    /\ pc'[q] \in {"save", "pay"} => Accepts(Inv(q), HashOf(q))'
                    /\ /\ Kind(q)' # "cancel"
                       /\ pc'[q] \in {"horizon", "save", "pay", "event", "audit"}
                       => seen'[q].status = "PENDING"
  BY Zenon DEF EvidenceInv
<1>0. /\ TypeOK /\ ControlInv /\ Inv(q) \in Invoices
      /\ Kind(q) = "monitor" => Ledger[rq[q].tx].memo = Terms[Inv(q)].memo
      /\ Kind(q) = "simulate" /\ pc[q] \in {"read", "pay"} => SimulateAllowed
      /\ pc[q] \in {"save", "pay"} => Accepts(Inv(q), HashOf(q))
      /\ Kind(q) # "cancel" /\ pc[q] \in {"horizon", "save", "pay", "event", "audit"} =>
           seen[q].status = "PENDING"
  BY RequestFields, Zenon DEF IInv, EvidenceInv
<1>1. CASE Same(q) \/ Lost(q)
  <2>1. /\ rq'[q] = rq[q] /\ seen'[q] = seen[q]
        /\ pc'[q] = pc[q] \/ pc'[q] = "lost"
    BY <1>1, Zenon DEF Same, Lost
  <2>2. Accepts(Inv(q), HashOf(q))' <=> Accepts(Inv(q), HashOf(q))
    BY <2>1, Zenon DEF Accepts, VerifyAccepts, MonitorAccepts, Inv, HashOf, Kind
  <2> QED BY <1>0, <2>1, <2>2, Zenon DEF Kind, Inv
<1>2. CASE Arrive(q)
  <2>1. PICK a \in [kind : Kinds, srv : Servers, inv : Invoices, tx : Txs,
                    ver : Versions \union {NoVersion}] :
          /\ a.kind = "monitor" => Ledger[a.tx].memo = Terms[a.inv].memo
          /\ rq' = [rq EXCEPT ![q] = a]
          /\ pc' = [pc EXCEPT ![q] = IF a.kind = "verify" THEN "lock" ELSE "sweep"]
    BY <1>2, Zenon DEF Arrive
  <2>2. rq'[q] = a /\ pc'[q] \in {"lock", "sweep"}
    BY <1>0, <2>1, Zenon DEF TypeOK
  <2> QED BY <2>1, <2>2, Zenon DEF Kind, Inv
<1>3. CASE RequestStep(q)
  <2>0. rq' = rq
    BY <1>0, <1>3, RequestFrame, Zenon
  <2>a. /\ Kind(q)' = Kind(q) /\ Inv(q)' = Inv(q)
        /\ Accepts(Inv(q), HashOf(q))' <=> Accepts(Inv(q), HashOf(q))
    BY <2>0, Zenon DEF Accepts, VerifyAccepts, MonitorAccepts, Inv, HashOf, Kind
  <2>1. ASSUME pc'[q] \notin {"read", "horizon", "save", "pay", "event", "audit"}
        PROVE  /\ Kind(q)' = "monitor" => Ledger[rq'[q].tx].memo = Terms[Inv(q)'].memo
               /\ Kind(q)' = "simulate" /\ pc'[q] \in {"read", "pay"} => SimulateAllowed
               /\ pc'[q] \in {"save", "pay"} => Accepts(Inv(q), HashOf(q))'
               /\ /\ Kind(q)' # "cancel"
                  /\ pc'[q] \in {"horizon", "save", "pay", "event", "audit"}
                  => seen'[q].status = "PENDING"
    BY <1>0, <2>0, <2>a, <2>1, Zenon
  <2>2. CASE Sweep(q)
    <3>1. pc'[q] \in {"read", "reread", "cancel", "done"}
      BY <1>0, <2>2, ControlEffect DEF Sweep, AfterSweep
    <3>2. Kind(q) = "simulate" => SimulateAllowed
      BY <2>2, Zenon DEF Sweep
    <3> QED BY <1>0, <2>0, <2>a, <3>1, <3>2, Zenon
  <2>3. CASE Read(q)
    <3>1. seen'[q].status = status[Inv(q)] /\ pc[q] = "read"
      BY <1>0, <2>3, Zenon DEF Read, TypeOK
    <3>2. Payability(Inv(q)) = "OK" => status[Inv(q)] = "PENDING"
      BY Zenon DEF Payability, CheckInvoiceIsPayable
    <3>3. \/ pc'[q] \in {"csweep", "done", "partial"}
          \/ pc'[q] = "horizon" /\ Payability(Inv(q)) = "OK"
          \/ pc'[q] = "pay" /\ Kind(q) = "simulate" /\ Payability(Inv(q)) = "OK"
          \/ /\ pc'[q] = "save" /\ Kind(q) = "monitor" /\ Payability(Inv(q)) = "OK"
             /\ \E op \in MonitoredOps(rq[q].tx) : MonitorVerdict(op, Terms[Inv(q)]) = "save"
      <4>1. \A op : MonitorVerdict(op, Terms[Inv(q)]) \in {"partial", "save", "skip"}
        BY Zenon DEF MonitorVerdict
      <4> QED BY <1>0, <2>3, <4>1, ControlEffect, SMTT(30) DEF Read
    <3>4. Kind(q) = "simulate" /\ SimulateAllowed => Accepts(Inv(q), HashOf(q))
      BY Zenon DEF Accepts, HashOf
    <3>5. (/\ Kind(q) = "monitor"
           /\ \E op \in MonitoredOps(rq[q].tx) : MonitorVerdict(op, Terms[Inv(q)]) = "save")
          => Accepts(Inv(q), HashOf(q))
      BY <1>0, RequestFields, Zenon DEF Accepts, HashOf, MonitorAccepts
    <3> QED BY <1>0, <2>0, <2>a, <3>1, <3>2, <3>3, <3>4, <3>5, Zenon
  <2>4. CASE Horizon(q)
    <3>1. Kind(q) = "verify" /\ pc[q] = "horizon" /\ seen' = seen
      BY <1>0, <2>4, Zenon DEF Horizon, ControlInv, Route
    <3>2. \/ pc'[q] = "done"
          \/ pc'[q] = "pay" /\ VerifyAccepts(Inv(q), rq[q].tx)
      BY <1>0, <2>4, ControlEffect, Zenon DEF Horizon, VerifyAccepts
    <3>3. VerifyAccepts(Inv(q), rq[q].tx) => Accepts(Inv(q), HashOf(q))
      BY <1>0, <3>1, RequestFields, Zenon DEF Accepts, HashOf
    <3> QED BY <1>0, <2>0, <2>a, <3>1, <3>2, <3>3, Zenon
  <2>5. CASE SaveTransaction(q)
    <3>1. pc[q] = "save" /\ seen' = seen /\ pc'[q] \in {"pay", "done"}
      BY <1>0, <2>5, ControlEffect, Zenon DEF SaveTransaction
    <3>2. Kind(q) = "monitor"
      BY <1>0, <3>1, Zenon DEF ControlInv, Route, TypeOK, RequestType, Kind, AllKinds
    <3> QED BY <1>0, <2>0, <2>a, <3>1, <3>2, Zenon
  <2>6. CASE Pay(q)
    <3>1. pc[q] = "pay" /\ seen' = seen /\ pc'[q] \in {"event", "check", "resweep", "done"}
      BY <1>0, <2>6, ControlEffect, Zenon DEF Pay, NoRow
    <3> QED BY <1>0, <2>0, <2>a, <3>1, Zenon
  <2>7. CASE LogConfirmed(q)
    <3>1. pc[q] = "event" /\ seen' = seen /\ pc'[q] \in {"audit", "resweep", "done"}
      BY <1>0, <2>7, ControlEffect, Zenon DEF LogConfirmed
    <3> QED BY <1>0, <2>0, <2>a, <3>1, Zenon
  <2>8. CASE Cancel(q)
    <3>1. Kind(q) = "cancel" /\ pc'[q] \in {"audit", "check", "done", "resweep"}
      BY <1>0, <2>8, ControlEffect, ZenonT(30) DEF Cancel, NoRow, ControlInv, Route
    <3> QED BY <1>0, <2>0, <2>a, <3>1, Zenon
  <2>9. CASE AcquireLock(q) \/ Refuse(q) \/ LogPartial(q) \/ CheckVersion(q) \/ Reread(q)
             \/ Audit(q) \/ DbError(q)
    <3>1. pc'[q] \in {"sweep", "done", "resweep"}
      BY <1>0, <2>9, ControlEffect, SMTT(30) DEF AcquireLock, Refuse, LogPartial, CheckVersion,
                                       Reread, Audit, DbError, Goto, TypeOK
    <3> QED BY <2>1, <3>1, Zenon
  <2> QED BY <1>3, <2>2, <2>3, <2>4, <2>5, <2>6, <2>7, <2>8, <2>9, Zenon DEF RequestStep
<1> QED BY <1>0, <1>1, <1>2, <1>3, Moves, Zenon

(* A request comes to win in one way: its own UPDATE changes the row. *)
LEMMA WonStep ==
  ASSUME IInv, [Next]_vars, NEW q \in Requests, Won(q)' \/ pc'[q] = "event"
  PROVE  /\ rq'[q] = rq[q] /\ seen'[q] = seen[q]
         /\ \/ Won(q) \/ pc[q] = "event"
            \/ Kind(q) # "cancel" /\ Pay(q) /\ RowPayable(q) /\ PayRow(q)
            \/ Kind(q) = "cancel" /\ Cancel(q) /\ RowCancellable(q) /\ CancelRow(q)
<1>0. TypeOK /\ ControlInv
  BY Zenon DEF IInv
<1>1. CASE Same(q) \/ Lost(q)
  BY <1>1, Zenon DEF Same, Lost, Won
<1>2. CASE Arrive(q)
  <2>1. pc'[q] \in {"lock", "sweep"} /\ pc[q] = "idle" /\ res' = res
    BY <1>0, <1>2, RequestArrives, Zenon
  <2>2. res[q] # "200"
    BY <1>0, <2>1, Zenon DEF ControlInv
  <2> QED BY <2>1, <2>2, Zenon DEF Won
<1>3. CASE RequestStep(q)
  <2>0. rq' = rq
    BY <1>0, <1>3, RequestFrame, Zenon
  <2>1. CASE Pay(q)
    <3>1. \/ RowPayable(q) /\ PayRow(q)
          \/ Fail(q, "DUPLICATE_HASH") \/ Fail(q, "NOT_UPDATED") \/ Continue(q, "check")
      BY <2>1, Zenon DEF Pay, NoRow
    <3>2. pc[q] = "pay" /\ seen' = seen
      BY <2>1, Zenon DEF Pay
    <3>3. Kind(q) # "cancel" /\ res[q] = "none"
      BY <1>0, <3>2, Zenon DEF ControlInv, Route
    <3>4. CASE Fail(q, "DUPLICATE_HASH") \/ Fail(q, "NOT_UPDATED") \/ Continue(q, "check")
      BY <1>0, <3>3, <3>4, ControlEffect DEF Won
    <3> QED BY <2>0, <2>1, <3>1, <3>2, <3>3, <3>4, Zenon
  <2>2. CASE Cancel(q)
    <3>1. \/ RowCancellable(q) /\ CancelRow(q)
          \/ Fail(q, "NOT_UPDATED") \/ Continue(q, "check")
      BY <2>2, Zenon DEF Cancel, NoRow
    <3>2. pc[q] = "cancel" /\ seen' = seen
      BY <2>2, Zenon DEF Cancel
    <3>3. Kind(q) = "cancel" /\ res[q] = "none"
      BY <1>0, <3>2, Zenon DEF ControlInv, Route
    <3>4. CASE Fail(q, "NOT_UPDATED") \/ Continue(q, "check")
      BY <1>0, <3>3, <3>4, ControlEffect DEF Won
    <3> QED BY <2>0, <2>2, <3>1, <3>2, <3>3, <3>4, Zenon
  <2>3. CASE LogConfirmed(q) \/ Audit(q)
    BY <2>0, <2>3, Zenon DEF LogConfirmed, Audit, Won
  <2>4. CASE AcquireLock(q) \/ Refuse(q) \/ Sweep(q) \/ LogPartial(q) \/ SaveTransaction(q)
             \/ CheckVersion(q) \/ DbError(q)
    <3>1. pc[q] # "done"
      BY <2>4, Zenon DEF AcquireLock, Refuse, Sweep, AfterSweep, LogPartial, SaveTransaction,
                  CheckVersion, DbError
    <3>2. res[q] = "none"
      BY <1>0, <3>1, Zenon DEF ControlInv
    <3>3. /\ pc'[q] \notin {"audit", "event"} /\ res'[q] # "200"
      <4>1. CASE AcquireLock(q) BY <1>0, <3>2, <4>1, Zenon DEF AcquireLock, Goto, TypeOK
      <4>2. CASE Refuse(q) BY <1>0, <3>2, <4>2, ControlEffect DEF Refuse
      <4>3. CASE Sweep(q) BY <1>0, <3>2, <4>3, ControlEffect DEF Sweep, AfterSweep
      <4>4. CASE LogPartial(q) BY <1>0, <3>2, <4>4, ControlEffect DEF LogPartial
      <4>5. CASE SaveTransaction(q)
        BY <1>0, <3>2, <4>5, ControlEffect DEF SaveTransaction
      <4>6. CASE CheckVersion(q) BY <1>0, <3>2, <4>6, ControlEffect DEF CheckVersion
      <4>7. CASE DbError(q) BY <1>0, <3>2, <4>7, ControlEffect DEF DbError
      <4> QED BY <2>4, <4>1, <4>2, <4>3, <4>4, <4>5, <4>6, <4>7, Zenon
    <3> QED BY <3>3, Zenon DEF Won
  <2>5. CASE Read(q)
    <3>1. Payability(Inv(q)) # "200"
      BY Zenon DEF Payability, CheckInvoiceIsPayable
    <3>2. \A op : MonitorVerdict(op, Terms[Inv(q)]) \in {"partial", "save", "skip"}
      BY Zenon DEF MonitorVerdict
    <3>3. res[q] = "none"
      BY <1>0, <2>5, Zenon DEF ControlInv, Read
    <3>4. pc'[q] \notin {"audit", "event"} /\ res'[q] # "200"
      BY <1>0, <2>5, <3>1, <3>2, <3>3, ControlEffect DEF Read
    <3> QED BY <3>4, Zenon DEF Won
  <2>6. CASE Horizon(q)
    <3>1. \A n : VerifyHorizonPayment(Ledger[rq[q].tx], n, Terms[Inv(q)]) # "200"
      BY Zenon DEF VerifyHorizonPayment
    <3>2. res[q] = "none"
      BY <1>0, <2>6, Zenon DEF ControlInv, Horizon
    <3>3. pc'[q] \notin {"audit", "event"} /\ res'[q] # "200"
      BY <1>0, <2>6, <3>1, <3>2, ControlEffect DEF Horizon
    <3> QED BY <3>3, Zenon DEF Won
  <2>7. CASE Reread(q)
    <3>1. RereadAnswer(q) # "200"
      BY <1>0, <2>7, Zenon DEF ControlInv, Reread, RereadAnswer, Payability,
                        CheckInvoiceIsPayable, Errors
    <3> QED BY <1>0, <2>7, <3>1, ControlEffect, Zenon DEF Reread, Won
  <2> QED BY <1>3, <2>1, <2>2, <2>3, <2>4, <2>5, <2>6, <2>7, Zenon DEF RequestStep
<1> QED BY <1>0, <1>1, <1>2, <1>3, Moves, Zenon

(* A request that answers 200 is the one that wrote the row, and stays so. *)
LEMMA WinnerStep == IInv /\ [Next]_vars => WinnerInv'
<1> SUFFICES ASSUME IInv, [Next]_vars, NEW q \in Requests
             PROVE  /\ pc'[q] = "event" \/ (Won(q)' /\ Kind(q)' # "cancel") =>
                         settler'[Inv(q)'] = q
                    /\ Won(q)' /\ Kind(q)' = "cancel" =>
                         /\ status'[Inv(q)'] = "CANCELLED" /\ seen'[q].status \notin Final
                         /\ \A p \in Requests :
                              Won(p)' /\ Kind(p)' = "cancel" /\ Inv(p)' = Inv(q)' => p = q
  BY Zenon DEF WinnerInv
<1>0. /\ TypeOK /\ ControlInv /\ WinnerInv /\ SettleInv /\ SnapshotInv
      /\ \A r \in Requests : Inv(r) \in Invoices
  BY RequestFields, Zenon DEF IInv
<1>1. ASSUME pc'[q] = "event" \/ (Won(q)' /\ Kind(q)' # "cancel")
      PROVE  settler'[Inv(q)'] = q
  <2>1. /\ rq'[q] = rq[q]
        /\ \/ Won(q) \/ pc[q] = "event"
           \/ Kind(q) # "cancel" /\ Pay(q) /\ RowPayable(q) /\ PayRow(q)
           \/ Kind(q) = "cancel" /\ Cancel(q) /\ RowCancellable(q) /\ CancelRow(q)
    BY <1>1, WonStep, Zenon
  <2>2. CASE (Won(q) /\ Kind(q) # "cancel") \/ pc[q] = "event"
    <3>1. settler[Inv(q)] = q /\ q # None
      BY <1>0, <2>2, ConstantsAssumption, Zenon DEF WinnerInv
    <3>2. status[Inv(q)] = "PAID"
      BY <1>0, <3>1, Zenon DEF SettleInv
    <3> QED BY <1>0, <2>1, <3>1, <3>2, FinalStep, Zenon DEF Final, Inv
  <2>3. CASE Kind(q) # "cancel" /\ Pay(q) /\ RowPayable(q) /\ PayRow(q)
    BY <1>0, <2>1, <2>3, Zenon DEF PayRow, TypeOK, Inv
  <2>4. CASE Kind(q) = "cancel"
    <3>1. pc'[q] = "event"
      BY <1>1, <2>1, <2>4, Zenon DEF Kind
    <3>2. ControlInv'
      BY ControlStep, Zenon
    <3> QED BY <2>1, <2>4, <3>1, <3>2, Zenon DEF ControlInv, Route, Kind
  <2> QED BY <2>1, <2>2, <2>3, <2>4, Zenon
<1>2. ASSUME NEW r \in Requests, Won(r)', Kind(r)' = "cancel"
      PROVE  /\ rq'[r] = rq[r] /\ Kind(r) = "cancel" /\ seen'[r] = seen[r]
             /\ \/ Won(r)
                \/ Cancel(r) /\ RowCancellable(r) /\ CancelRow(r)
  <2>1. /\ rq'[r] = rq[r] /\ seen'[r] = seen[r]
        /\ \/ Won(r) \/ pc[r] = "event"
           \/ Kind(r) # "cancel" /\ Pay(r) /\ RowPayable(r) /\ PayRow(r)
           \/ Kind(r) = "cancel" /\ Cancel(r) /\ RowCancellable(r) /\ CancelRow(r)
    BY <1>2, WonStep, Zenon
  <2>2. Kind(r) = "cancel"
    BY <1>2, <2>1, Zenon DEF Kind
  <2>3. pc[r] # "event"
    BY <1>0, <2>2, Zenon DEF ControlInv, Route
  <2> QED BY <2>1, <2>2, <2>3, Zenon
<1>3. ASSUME Won(q)', Kind(q)' = "cancel"
      PROVE  status'[Inv(q)'] = "CANCELLED" /\ seen'[q].status \notin Final
  <2>1. CASE Won(q)
    BY <1>0, <1>2, <1>3, <2>1, FinalStep DEF WinnerInv, Final, Inv
  <2>2. CASE Cancel(q) /\ RowCancellable(q) /\ CancelRow(q)
    <3>1. status[Inv(q)] = "PENDING" /\ status'[Inv(q)] = "CANCELLED"
      BY <1>0, <2>2, Zenon DEF RowCancellable, CancelRow, TypeOK
    <3>2. seen[q].status \notin Final
      BY <1>0, <3>1, Zenon DEF SnapshotInv, Final
    <3> QED BY <1>2, <1>3, <3>1, <3>2, Zenon DEF Inv
  <2> QED BY <1>2, <1>3, <2>1, <2>2, Zenon
<1>4. ASSUME Won(q)', Kind(q)' = "cancel", NEW p \in Requests,
             Won(p)', Kind(p)' = "cancel", Inv(p)' = Inv(q)'
      PROVE  p = q
  <2>1. Inv(p) = Inv(q) /\ Kind(p) = "cancel" /\ Kind(q) = "cancel"
    BY <1>2, <1>4, Zenon DEF Inv
  <2>2. CASE Won(p) /\ Won(q)
    BY <1>0, <2>1, <2>2, Zenon DEF WinnerInv
  <2>3. ASSUME NEW a \in Requests, NEW b \in Requests, Inv(a) = Inv(b),
               Won(a), Kind(a) = "cancel", RowCancellable(b)
        PROVE  FALSE
    BY <1>0, <2>3, Zenon DEF WinnerInv, RowCancellable
  <2>4. CASE Cancel(p) /\ Cancel(q)
    <3>1. RequestStep(p) /\ pc[q] = "cancel"
      BY <2>4, Zenon DEF RequestStep, Cancel
    <3>2. p # q => pc'[q] = "cancel" /\ res'[q] = res[q]
      BY <1>0, <3>1, RequestFrame, Zenon DEF Same
    <3>3. res[q] = "none"
      BY <1>0, <3>1, Zenon DEF ControlInv
    <3> QED BY <1>4, <3>2, <3>3, Zenon DEF Won
  <2> QED BY <1>2, <1>4, <2>1, <2>2, <2>3, <2>4, Zenon
<1> QED BY <1>1, <1>3, <1>4, Zenon

(* saveTransaction logs one confirmed event, for the settler and its transaction. *)
LEMMA EventStep == IInv /\ [Next]_vars => EventInv'
<1> SUFFICES ASSUME IInv, [Next]_vars,
                    NEW e \in paymentEvents', e.type = "PAYMENT_CONFIRMED"
             PROVE  settler'[e.inv] = e.by /\ e.tx = HashOf(e.by)'
  BY Zenon DEF EventInv
<1>0. TypeOK /\ SettleInv /\ WinnerInv /\ EventInv /\ \A r \in Requests : Inv(r) \in Invoices
  BY RequestFields, Zenon DEF IInv
<1>1. ASSUME NEW r \in Requests, NEW i \in Invoices, settler[i] = r
      PROVE  settler'[i] = r /\ HashOf(r)' = HashOf(r)
  <2>1. status[i] = "PAID" /\ SettledBy(i, r)
    BY <1>0, <1>1, ConstantsAssumption, Zenon DEF SettleInv
  <2>2. settler'[i] = r
    BY <1>0, <1>1, <2>1, FinalStep, Zenon DEF Final
  <2>3. rq'[r] = rq[r]
    BY <1>0, <2>1, AfterPayStays, Zenon DEF SettledBy, AfterPay
  <2> QED BY <2>2, <2>3, Zenon DEF HashOf, Kind
<1>2. CASE e \in paymentEvents
  <2>1. e.by \in Requests /\ e.inv \in Invoices
    BY <1>0, <1>2, Zenon DEF TypeOK, EventType
  <2>2. settler[e.inv] = e.by /\ e.tx = HashOf(e.by)
    BY <1>0, <1>2, Zenon DEF EventInv
  <2> QED BY <1>1, <2>1, <2>2, Zenon
<1>3. CASE e \notin paymentEvents
  <2>1. \E r \in Requests : LogConfirmed(r) \/ LogPartial(r)
    <3>1. UNCHANGED paymentEvents \/ \E r \in Requests : LogConfirmed(r) \/ LogPartial(r)
      BY ZenonT(30) DEF Next, RequestStep, vars, database, request, Arrive, AcquireLock, Refuse, Sweep,
             Read, Horizon, SaveTransaction, Pay, CheckVersion, Reread, Cancel, Audit,
             DbError, BackgroundSweep, Crash, CreateInvoice, Tick
    <3> QED BY <1>3, <3>1, Zenon
  <2>2. PICK r \in Requests : LogConfirmed(r) \/ LogPartial(r)
    BY <2>1, Zenon
  <2>3. LogConfirmed(r)
    BY <1>3, <2>2 DEF LogPartial
  <2>4. /\ e = [type |-> "PAYMENT_CONFIRMED", inv |-> Inv(r), tx |-> HashOf(r), by |-> r]
        /\ pc[r] = "event"
    BY <1>3, <2>3, Zenon DEF LogConfirmed
  <2>5. settler[Inv(r)] = r
    BY <1>0, <2>4, Zenon DEF WinnerInv
  <2> QED BY <1>0, <1>1, <2>4, <2>5, Zenon
<1> QED BY <1>2, <1>3, Zenon

(* Every audit entry of a payment or a cancellation is about a row that got there. *)
LEMMA AuditStep == IInv /\ [Next]_vars => AuditInv'
<1> SUFFICES ASSUME IInv, [Next]_vars, NEW s \in Servers, NEW a \in audit'[s], a.by # None
             PROVE  /\ Srv(a.by)' = s /\ res'[a.by] = "200" /\ Kind(a.by)' # "monitor"
                    /\ a = [action |-> AuditAction(Kind(a.by)'), inv |-> Inv(a.by)', by |-> a.by,
                            before |-> seen'[a.by].status,
                            after |-> IF Kind(a.by)' = "cancel" THEN "CANCELLED" ELSE "PAID"]
                    /\ a.before \in {"PENDING", "ABSENT"}
  BY Zenon DEF AuditInv, AuditAction
<1>0. TypeOK /\ ControlInv /\ AuditInv /\ WinnerInv /\ EvidenceInv
  BY Zenon DEF IInv
<1>1. ASSUME a \in audit[s]
      PROVE  /\ Srv(a.by)' = s /\ res'[a.by] = "200" /\ Kind(a.by)' # "monitor"
             /\ a = [action |-> AuditAction(Kind(a.by)'), inv |-> Inv(a.by)', by |-> a.by,
                     before |-> seen'[a.by].status,
                     after |-> IF Kind(a.by)' = "cancel" THEN "CANCELLED" ELSE "PAID"]
             /\ a.before \in {"PENDING", "ABSENT"}
  <2>1. a.by \in Requests
    BY <1>0, <1>1 DEF TypeOK, AuditType
  <2>2. /\ Srv(a.by) = s /\ res[a.by] = "200" /\ Kind(a.by) # "monitor"
        /\ a = [action |-> AuditAction(Kind(a.by)), inv |-> Inv(a.by), by |-> a.by,
                before |-> seen[a.by].status,
                after |-> IF Kind(a.by) = "cancel" THEN "CANCELLED" ELSE "PAID"]
        /\ a.before \in {"PENDING", "ABSENT"}
    BY <1>0, <1>1, Zenon DEF AuditInv
  <2>3. pc[a.by] = "done"
    BY <1>0, <2>1, <2>2, Zenon DEF ControlInv
  <2>4. Same(a.by)
    <3>1. ~Lost(a.by) /\ ~Arrive(a.by)
      BY <2>3, Zenon DEF Lost, Arrive
    <3>2. ~RequestStep(a.by)
      BY <2>3, ZenonT(30) DEF RequestStep, AcquireLock, Refuse, Sweep, AfterSweep, Read, Horizon,
                  LogPartial, SaveTransaction, Pay, CheckVersion, LogConfirmed, Reread,
                  Cancel, Audit, DbError
    <3> QED BY <1>0, <2>1, <3>1, <3>2, Moves, Zenon
  <2> QED BY <2>2, <2>4, Zenon DEF Same, Srv, Kind, Inv
<1>2. CASE a \notin audit[s]
  <2>1. \/ \E t \in Servers : audit' = [audit EXCEPT ![t] = {}]
        \/ UNCHANGED audit
        \/ \E t \in Servers, i \in Invoices : CreateInvoice(t, i)
        \/ \E r \in Requests : Audit(r)
    BY ZenonT(30) DEF Next, RequestStep, vars, database, request, Arrive, AcquireLock, Refuse, Sweep,
           Read, Horizon, LogPartial, SaveTransaction, Pay, CheckVersion, LogConfirmed,
           Reread, Cancel, DbError, BackgroundSweep, Crash, Tick
  <2>2. ASSUME NEW t \in Servers, audit' = [audit EXCEPT ![t] = {}] PROVE FALSE
    BY <1>0, <1>2, <2>2, Zenon DEF TypeOK
  <2>3. ASSUME NEW t \in Servers, NEW i \in Invoices, CreateInvoice(t, i) PROVE FALSE
    <3> DEFINE c == [action |-> "INVOICE_CREATED", inv |-> i, by |-> None,
                     before |-> "ABSENT", after |-> "PENDING"]
    <3>1. audit' = [audit EXCEPT ![t] = @ \union {c}] \/ audit' = audit
      BY <2>3, Zenon DEF CreateInvoice
    <3>2. c.by = None
      BY Zenon
    <3> HIDE DEF c
    <3>3. a \in audit[s] \union {c}
      BY <1>0, <3>1, Zenon DEF TypeOK
    <3> QED BY <1>2, <3>2, <3>3, Zenon
  <2>4. PICK r \in Requests : Audit(r)
    BY <1>2, <2>1, <2>2, <2>3, Zenon
  <2>5. /\ a = [action |-> AuditAction(Kind(r)), inv |-> Inv(r), by |-> r,
                before |-> seen[r].status,
                after |-> IF Kind(r) = "cancel" THEN "CANCELLED" ELSE "PAID"]
        /\ s = Srv(r)
    <3> DEFINE e == [action |-> AuditAction(Kind(r)), inv |-> Inv(r), by |-> r,
                     before |-> seen[r].status,
                     after |-> IF Kind(r) = "cancel" THEN "CANCELLED" ELSE "PAID"]
    <3>1. audit' = [audit EXCEPT ![Srv(r)] = @ \union {e}] \/ audit' = audit
      BY <2>4, Zenon DEF Audit
    <3> HIDE DEF e
    <3>2. a \in audit'[s] /\ a \notin audit[s] /\ s \in Servers
      BY <1>2, Zenon
    <3>3. audit \in [Servers -> SUBSET AuditType]
      BY <1>0, Zenon DEF TypeOK
    <3>4. a = e /\ s = Srv(r)
      BY <3>1, <3>2, <3>3, Zenon
    <3> QED BY <3>4, Zenon DEF e
  <2>6. /\ pc[r] = "audit" /\ res'[r] = "200" /\ rq' = rq /\ seen' = seen
    BY <1>0, <2>4, ControlEffect, Zenon DEF Audit
  <2>7. Kind(r) # "monitor"
    BY <1>0, <2>6, Zenon DEF ControlInv, Route
  <2>8. seen[r].status \in {"PENDING", "ABSENT"}
    <3>1. CASE Kind(r) = "cancel"
      BY <1>0, <2>6, <3>1, Zenon DEF WinnerInv, Won, Final, TypeOK, Statuses
    <3>2. CASE Kind(r) # "cancel"
      BY <1>0, <2>6, <3>2, Zenon DEF EvidenceInv
    <3> QED BY <3>1, <3>2, Zenon
  <2> QED BY <2>5, <2>6, <2>7, <2>8, Zenon DEF Srv, Kind, Inv
<1> QED BY <1>1, <1>2, Zenon

-----------------------------------------------------------------------------
(* The empty database, with no request running, satisfies the inductive invariant. *)
LEMMA InitIInv == Init => IInv
<1> SUFFICES ASSUME Init PROVE IInv
  BY Zenon
<1>1. TypeOK
  <2>1. NoRequest \in RequestType
    BY ConstantsAssumption, Zenon DEF NoRequest, RequestType, NoVersion
  <2> QED BY <2>1 DEF Init, TypeOK, Labels, Codes, Statuses, Hashes
<1>2. \A r \in Requests : /\ Kind(r) = "none" /\ pc[r] = "idle" /\ res[r] = "none"
                          /\ seen[r].status = "ABSENT"
  BY Zenon DEF Init, Kind, NoRequest
<1>3. ControlInv
  BY <1>2, Zenon DEF ControlInv, Route
<1>4. LockGuardsVerify
  BY <1>2, ConstantsAssumption, Zenon DEF Init, LockGuardsVerify, Free
<1>5. SnapshotInv /\ WinnerInv /\ EvidenceInv
  BY <1>2, Zenon DEF SnapshotInv, WinnerInv, Won, EvidenceInv, Final
<1>6. SettleInv /\ EventInv /\ AuditInv /\ OneInvoicePerTransaction
  BY Zenon DEF Init, SettleInv, EventInv, AuditInv, OneInvoicePerTransaction
<1> QED BY <1>1, <1>3, <1>4, <1>5, <1>6, Zenon DEF IInv

(* The inductive invariant: every step of every process preserves it. *)
THEOREM Invariance == Spec => []IInv
<1>1. IInv /\ [Next]_vars => IInv'
  <2>1. IInv /\ [Next]_vars => TypeOK'
    BY TypeStep, Zenon DEF IInv
  <2> QED
    BY <2>1, ControlStep, LockStep, SnapshotStep, SettleStep, WinnerStep, EventStep,
       AuditStep, EvidenceStep, HashStep, Zenon DEF IInv
<1> QED BY <1>1, InitIInv, PTL DEF Spec

(* Verifications of one invoice never overlap on a server, and no path     *)
(* through the handler, and no crash, leaves the lock behind.              *)
THEOREM LockIsSound == Spec => []LockGuardsVerify
<1>1. IInv => LockGuardsVerify
  BY Zenon DEF IInv
<1> QED BY <1>1, Invariance, PTL

(* The inductive invariant leaves one winner per invoice. *)
LEMMA WinnerFact == IInv => OneWinner
<1> SUFFICES ASSUME IInv, NEW r \in Requests, res[r] = "200"
             PROVE  /\ IF Kind(r) = "cancel" THEN status[Inv(r)] = "CANCELLED"
                       ELSE /\ status[Inv(r)] = "PAID" /\ settler[Inv(r)] = r
                            /\ paymentTxHash[Inv(r)] = HashOf(r)
                    /\ \A q \in Requests : res[q] = "200" /\ Inv(q) = Inv(r) => q = r
  BY Zenon DEF OneWinner
<1>0. \A q \in Requests : Inv(q) \in Invoices
  BY RequestFields, Zenon DEF IInv
<1>1. ASSUME NEW q \in Requests, res[q] = "200"
      PROVE  IF Kind(q) = "cancel" THEN status[Inv(q)] = "CANCELLED"
             ELSE /\ status[Inv(q)] = "PAID" /\ settler[Inv(q)] = q
                  /\ paymentTxHash[Inv(q)] = HashOf(q)
  <2>1. CASE Kind(q) = "cancel"
    BY <1>1, <2>1, Zenon DEF IInv, WinnerInv, Won
  <2>2. CASE Kind(q) # "cancel"
    <3>1. settler[Inv(q)] = q /\ q # None
      BY <1>1, <2>2, ConstantsAssumption, Zenon DEF IInv, WinnerInv, Won
    <3> QED BY <1>0, <2>2, <3>1, Zenon DEF IInv, SettleInv, SettledBy
  <2> QED BY <2>1, <2>2, Zenon
<1>2. ASSUME NEW q \in Requests, res[q] = "200", Inv(q) = Inv(r) PROVE q = r
  <2>1. CASE Kind(q) = "cancel" /\ Kind(r) = "cancel"
    BY <1>2, <2>1, Zenon DEF IInv, WinnerInv, Won
  <2>2. CASE ~(Kind(q) = "cancel" /\ Kind(r) = "cancel")
    BY <1>1, <1>2, <2>2
  <2> QED BY <2>1, <2>2, Zenon
<1> QED BY <1>1, <1>2, Zenon

(* Of any number of racing requests on any number of servers at most one   *)
(* is answered 200, and the row is what it was told.                       *)
THEOREM AtMostOneWinner == Spec => []OneWinner
BY WinnerFact, Invariance, PTL

(* A confirmed payment is logged once, for the transaction that paid.      *)
THEOREM ConfirmedAtMostOnce == Spec => []ConfirmedOnce
<1>1. IInv => ConfirmedOnce
  <2> SUFFICES ASSUME IInv, NEW e \in paymentEvents, e.type = "PAYMENT_CONFIRMED"
               PROVE  /\ status[e.inv] = "PAID" /\ paymentTxHash[e.inv] = e.tx
                      /\ settler[e.inv] = e.by
                      /\ \A f \in paymentEvents : f.type = e.type /\ f.inv = e.inv => f = e
    BY Zenon DEF ConfirmedOnce
  <2>1. \A f \in paymentEvents : f.type = "PAYMENT_CONFIRMED" =>
          settler[f.inv] = f.by /\ f.tx = HashOf(f.by)
    BY Zenon DEF IInv, EventInv
  <2>2. \A f \in paymentEvents :
          /\ f.inv \in Invoices /\ f.by \in Requests
          /\ f = [type |-> f.type, inv |-> f.inv, tx |-> f.tx, by |-> f.by]
    BY DEF IInv, TypeOK, EventType
  <2>3. settler[e.inv] # None
    BY <2>1, <2>2, ConstantsAssumption
  <2>4. status[e.inv] = "PAID" /\ paymentTxHash[e.inv] = e.tx
    BY <2>1, <2>2, <2>3, Zenon DEF IInv, SettleInv, SettledBy
  <2>5. ASSUME NEW f \in paymentEvents, f.type = e.type, f.inv = e.inv PROVE f = e
    <3>1. f.by = e.by /\ f.tx = e.tx
      BY <2>1, <2>5, Zenon
    <3> QED BY <2>2, <2>5, <3>1, Zenon
  <2> QED BY <2>1, <2>4, <2>5, Zenon
<1> QED BY <1>1, Invariance, PTL

(* The audit logs of all servers together tell one true story per invoice. *)
THEOREM AuditIsTruthful == Spec => []AuditTruthful
<1>1. IInv => AuditTruthful
  <2> SUFFICES ASSUME IInv, NEW s \in Servers, NEW a \in audit[s], a.by # None
               PROVE  /\ status[a.inv] = a.after
                      /\ a.before \in {"PENDING", "ABSENT"}
                      /\ \A t \in Servers : \A b \in audit[t] :
                           b.by # None /\ b.inv = a.inv => b = a /\ s = t
    BY Zenon DEF AuditTruthful
  <2>1. ASSUME NEW t \in Servers, NEW b \in audit[t], b.by # None
        PROVE  /\ b.by \in Requests /\ Srv(b.by) = t /\ res[b.by] = "200"
               /\ b = [action |-> AuditAction(Kind(b.by)), inv |-> Inv(b.by), by |-> b.by,
                       before |-> seen[b.by].status,
                       after |-> IF Kind(b.by) = "cancel" THEN "CANCELLED" ELSE "PAID"]
               /\ b.before \in {"PENDING", "ABSENT"}
    <3>1. b.by \in Requests
      BY <2>1 DEF IInv, TypeOK, AuditType
    <3> QED BY <2>1, <3>1, Zenon DEF IInv, AuditInv
  <2>2. a.inv = Inv(a.by) /\ a.after = IF Kind(a.by) = "cancel" THEN "CANCELLED" ELSE "PAID"
    BY <2>1
  <2>3. status[a.inv] = a.after
    BY <2>1, <2>2, WinnerFact, Zenon DEF OneWinner
  <2>4. ASSUME NEW t \in Servers, NEW b \in audit[t], b.by # None, b.inv = a.inv
        PROVE  b = a /\ s = t
    <3>1. b.inv = Inv(b.by) /\ b.by \in Requests /\ a.by \in Requests
          /\ res[a.by] = "200" /\ res[b.by] = "200"
      BY <2>1, <2>4
    <3>2. \A r, q \in Requests :
            res[r] = "200" /\ res[q] = "200" /\ Inv(q) = Inv(r) => q = r
      BY WinnerFact, Zenon DEF OneWinner
    <3>3. Inv(b.by) = Inv(a.by)
      BY <2>2, <2>4, <3>1, Zenon
    <3>4. a.by = b.by
      BY <3>1, <3>2, <3>3, Zenon
    <3> QED BY <2>1, <2>4, <3>4, Zenon
  <2> QED BY <2>1, <2>3, <2>4, Zenon
<1> QED BY <1>1, Invariance, PTL

(* One transaction never settles two invoices. *)
THEOREM TransactionsSettleOnce == Spec => []OneInvoicePerTransaction
<1>1. IInv => OneInvoicePerTransaction
  BY Zenon DEF IInv
<1> QED BY <1>1, Invariance, PTL

---------------------------------------------------------------------------
(* What the loser, and the unlucky winner, of a race are told *)

(* The request that settled an invoice is never told that someone else changed it. *)
LEMMA SettlerStep == IInv /\ SettlerNotMisled /\ [Next]_vars => SettlerNotMisled'
<1> DEFINE Truthful == {"200", "INVOICE_ALREADY_PAID", "DB_ERROR"}
<1> SUFFICES ASSUME IInv, SettlerNotMisled, [Next]_vars, NEW i \in Invoices,
                    settler'[i] # None, pc'[settler'[i]] = "done"
             PROVE  res'[settler'[i]] \in Truthful
  BY Zenon DEF SettlerNotMisled
<1>0. TypeOK /\ ControlInv /\ SettleInv /\ TypeOK' /\ \A r \in Requests : Inv(r) \in Invoices
  BY TypeStep, RequestFields, Zenon DEF IInv
<1>1. CASE status[i] = "PAID"
  <2> DEFINE r == settler[i]
  <2>1. settler'[i] = r /\ SettledBy(i, r)
    BY <1>0, <1>1, FinalStep, Zenon DEF Final, SettleInv
  <2>2. r \in Requests /\ Inv(r) = i /\ pc[r] \in AfterPay /\ pc'[r] = "done"
    BY <2>1, Zenon DEF SettledBy, AfterPay
  <2>3. r # None
    BY <2>2, ConstantsAssumption, Zenon
  <2> HIDE DEF r
  <2>4. CASE Same(r)
    BY <2>1, <2>2, <2>3, <2>4, Zenon DEF Same, SettlerNotMisled, r
  <2>5. CASE Lost(r)
    BY <2>2, <2>5, Zenon DEF Lost
  <2>6. CASE Arrive(r)
    BY <2>2, <2>6, Zenon DEF Arrive, AfterPay
  <2>7. CASE RequestStep(r)
    <3>1. CASE Sweep(r)
      <4>1. Continue(r, "reread") \/ Respond(r, "DB_ERROR")
        BY <2>2, <3>1 DEF Sweep, AfterSweep, AfterPay
      <4> QED BY <1>0, <2>1, <2>2, <4>1, ControlEffect
    <3>2. CASE LogConfirmed(r)
      <4>1. Fail(r, "DB_ERROR") \/ Respond(r, "200") \/ Continue(r, "audit")
        BY <3>2, Zenon DEF LogConfirmed
      <4> QED BY <1>0, <2>1, <2>2, <4>1, ControlEffect
    <3>3. CASE Reread(r)
      <4>1. RereadAnswer(r) = "INVOICE_ALREADY_PAID"
        BY <1>1, <2>2, Zenon DEF RereadAnswer, Payability, CheckInvoiceIsPayable
      <4> QED BY <1>0, <2>1, <2>2, <3>3, <4>1, ControlEffect, Zenon DEF Reread
    <3>4. CASE Audit(r) \/ DbError(r)
      <4>1. Respond(r, "200") \/ Respond(r, "DB_ERROR") \/ Fail(r, "DB_ERROR")
        BY <3>4, Zenon DEF Audit, DbError
      <4> QED BY <1>0, <2>1, <2>2, <4>1, ControlEffect, Zenon
    <3>5. CASE AcquireLock(r) \/ Refuse(r) \/ Read(r) \/ Horizon(r) \/ LogPartial(r)
               \/ SaveTransaction(r) \/ Pay(r) \/ CheckVersion(r) \/ Cancel(r)
      BY <2>2, <3>5, Zenon DEF AcquireLock, Refuse, Read, Horizon, LogPartial, SaveTransaction,
                               Pay, CheckVersion, Cancel, AfterPay
    <3> QED BY <2>7, <3>1, <3>2, <3>3, <3>4, <3>5, Zenon DEF RequestStep
  <2> QED BY <1>0, <2>2, <2>4, <2>5, <2>6, <2>7, Moves, Zenon
<1>2. CASE status[i] # "PAID"
  <2>1. settler[i] = None
    BY <1>0, <1>2, Zenon DEF SettleInv
  <2>2. PICK r \in Requests : Pay(r) /\ RowPayable(r) /\ HashUnused(HashOf(r)) /\ PayRow(r)
    BY <1>0, <2>1, RowChange, Zenon DEF invoiceRow, CreateInvoice, CancelRow
  <2>3. settler'[i] = r
    BY <1>0, <2>1, <2>2, Zenon DEF PayRow, TypeOK
  <2>4. Continue(r, "event") \/ Fail(r, "DB_ERROR")
    BY <2>2, Zenon DEF Pay
  <2> QED BY <1>0, <2>3, <2>4, ControlEffect
<1> QED BY <1>1, <1>2, Zenon

(* Whichever statement of markAsPaid loses its reply or fails after the    *)
(* UPDATE, verifyPayment never tells the request that paid the invoice     *)
(* that it was not paid.                                                   *)
THEOREM SettlerIsNotMisled == Spec => []SettlerNotMisled
<1>1. Init => SettlerNotMisled
  BY DEF Init, SettlerNotMisled
<1> QED BY <1>1, SettlerStep, Invariance, PTL DEF Spec

(* Only Tick moves the clock. *)
LEMMA NowStep ==
  ASSUME [Next]_vars
  PROVE  \/ now' = now
         \/ Tick
BY ZenonT(30) DEF Next, RequestStep, vars, Arrive, AcquireLock, Refuse, Sweep, Read, Horizon, LogPartial,
       SaveTransaction, Pay, CheckVersion, LogConfirmed, Reread, Cancel, Audit, DbError,
       BackgroundSweep, Crash, CreateInvoice

(* A row that exists stays, and while it is PENDING keeps version and deadline. *)
LEMMA PendingStep ==
  ASSUME TypeOK, [Next]_vars, NEW i \in Invoices, status[i] # "ABSENT"
  PROVE  /\ status'[i] # "ABSENT"
         /\ status'[i] = "PENDING" =>
              /\ status[i] = "PENDING" /\ version'[i] = version[i]
              /\ expiresAt'[i] = expiresAt[i]
<1>0. \A r \in Requests : Inv(r) \in Invoices
  BY RequestFields, Zenon
<1>1. CASE UNCHANGED invoiceRow
  BY <1>1, Zenon DEF invoiceRow
<1>2. ASSUME NEW s \in Servers, NEW j \in Invoices, CreateInvoice(s, j)
      PROVE  status'[i] = status[i] /\ version'[i] = version[i] /\ expiresAt'[i] = expiresAt[i]
  BY <1>2, Zenon DEF CreateInvoice, TypeOK
<1>3. ASSUME NEW r \in Requests, PayRow(r) \/ CancelRow(r)
      PROVE  \/ status'[i] \in Final
             \/ status'[i] = status[i] /\ version'[i] = version[i] /\ expiresAt'[i] = expiresAt[i]
  BY <1>0, <1>3, Zenon DEF PayRow, CancelRow, TypeOK, Final
<1>4. ASSUME NEW s \in Servers, MarkExpired(s), UNCHANGED <<version, expiresAt>>
      PROVE  \/ status'[i] = "EXPIRED"
             \/ status'[i] = status[i] /\ version'[i] = version[i] /\ expiresAt'[i] = expiresAt[i]
  BY <1>4, Zenon DEF MarkExpired
<1> QED BY <1>1, <1>2, <1>3, <1>4, RowChange, Zenon DEF Final

(* Without a lagging server, whatever changes the row under verifyPayment shows when it re-reads. *)
LEMMA StaleStep == NoLag /\ IInv /\ StaleInv /\ [Next]_vars => StaleInv'
<1> SUFFICES ASSUME NoLag, IInv, StaleInv, [Next]_vars, NEW q \in Requests, Kind(q)' = "verify"
             PROVE  /\ pc'[q] \in {"horizon", "pay", "check", "resweep", "reread"} =>
                         /\ status'[Inv(q)'] # "ABSENT"
                         /\ status'[Inv(q)'] = "PENDING" => version'[Inv(q)'] = seen'[q].version
                    /\ rq'[q].ver = seen'[q].version =>
                         /\ pc'[q] = "check" \/ (pc'[q] = "resweep" /\ error'[q] = "CONFLICT") =>
                              status'[Inv(q)'] # "PENDING" \/ expiresAt'[Inv(q)'] <= now'
                         /\ pc'[q] = "reread" /\ error'[q] = "CONFLICT" =>
                              status'[Inv(q)'] # "PENDING"
                         /\ res'[q] # "CONFLICT"
  BY Zenon DEF StaleInv
<1> DEFINE i == Inv(q)
           Between == {"horizon", "pay", "check", "resweep", "reread"}
<1>0. TypeOK /\ ControlInv /\ SettleInv /\ WinnerInv /\ i \in Invoices
  BY RequestFields, Zenon DEF IInv
<1>1. /\ now' >= now
      /\ expiresAt[i] \in Int /\ now \in Int /\ now' \in Int
  BY <1>0, NowStep DEF Tick, TypeOK
<1>2. CASE Arrive(q)
  <2>1. pc'[q] \in {"lock", "sweep"} /\ res'[q] = "none"
    BY <1>0, <1>2, RequestArrives, Zenon DEF ControlInv
  <2> QED BY <2>1, Zenon
<1>3. CASE ~Arrive(q)
  <2>0. rq'[q] = rq[q] /\ Inv(q)' = i /\ Kind(q) = "verify"
    BY <1>0, <1>3, Moves, RequestFrame, Zenon DEF Same, Lost, Inv, Kind
  <2> HIDE DEF i
  <2>1. /\ pc[q] \in Between => status[i] # "ABSENT"
        /\ pc[q] \in Between /\ status[i] = "PENDING" => version[i] = seen[q].version
        /\ rq[q].ver = seen[q].version =>
             /\ pc[q] = "check" \/ (pc[q] = "resweep" /\ error[q] = "CONFLICT") =>
                  status[i] # "PENDING" \/ expiresAt[i] <= now
             /\ pc[q] = "reread" /\ error[q] = "CONFLICT" => status[i] # "PENDING"
             /\ res[q] # "CONFLICT"
    BY <2>0, Zenon DEF StaleInv, i
  <2>2. pc[q] = "event" => status[i] = "PAID"
    <3>1. pc[q] = "event" => settler[i] = q /\ q # None
      BY <1>0, ConstantsAssumption, Zenon DEF WinnerInv, i
    <3> QED BY <1>0, <3>1, Zenon DEF SettleInv
  <2>3. ASSUME pc[q] \in Between \union {"event"}
        PROVE  /\ status'[i] # "ABSENT"
               /\ status'[i] = "PENDING" =>
                    /\ pc[q] # "event" /\ status[i] = "PENDING" /\ version'[i] = version[i]
                    /\ version[i] = seen[q].version /\ expiresAt'[i] = expiresAt[i]
    <3>1. status[i] # "ABSENT"
      BY <2>1, <2>2, <2>3, Zenon
    <3>2. /\ status'[i] # "ABSENT"
          /\ status'[i] = "PENDING" =>
               /\ status[i] = "PENDING" /\ version'[i] = version[i]
               /\ expiresAt'[i] = expiresAt[i]
      BY <1>0, <3>1, PendingStep, Zenon
    <3> QED BY <2>1, <2>2, <2>3, <3>2, Zenon
  <2> SUFFICES /\ pc'[q] \in Between =>
                    /\ status'[i] # "ABSENT"
                    /\ status'[i] = "PENDING" => version'[i] = seen'[q].version
               /\ rq[q].ver = seen'[q].version =>
                    /\ pc'[q] = "check" \/ (pc'[q] = "resweep" /\ error'[q] = "CONFLICT") =>
                         status'[i] # "PENDING" \/ expiresAt'[i] <= now'
                    /\ pc'[q] = "reread" /\ error'[q] = "CONFLICT" => status'[i] # "PENDING"
                    /\ res'[q] # "CONFLICT"
    BY <2>0, Zenon
  <2>4. CASE Same(q) \/ Lost(q)
    <3>1. /\ seen'[q] = seen[q] /\ error'[q] = error[q] /\ res'[q] = res[q]
          /\ pc'[q] = pc[q] \/ pc'[q] = "lost"
      BY <2>4, Zenon DEF Same, Lost
    <3> QED BY <1>1, <2>1, <2>3, <3>1
  <2>5. CASE RequestStep(q)
    <3>0. pc[q] # "done" => res[q] = "none"
      BY <1>0, Zenon DEF ControlInv
    <3>1. CASE Read(q)
      <4>1. /\ seen'[q] = [status |-> status[i], version |-> version[i]]
            /\ pc[q] = "read" /\ status' = status /\ version' = version
        BY <1>0, <3>1, Zenon DEF Read, TypeOK, database, invoiceRow, i
      <4>2. /\ Payability(i) # "CONFLICT"
            /\ Payability(i) = "OK" => status[i] = "PENDING"
        BY Zenon DEF Payability, CheckInvoiceIsPayable
      <4>3. \/ Respond(q, Payability(i))
            \/ Continue(q, "horizon") /\ Payability(i) = "OK"
        BY <2>0, <3>1, Zenon DEF Read, i
      <4> QED BY <1>0, <3>0, <4>1, <4>2, <4>3, ControlEffect
    <3>2. CASE Horizon(q)
      <4>1. \A n : VerifyHorizonPayment(Ledger[rq[q].tx], n, Terms[Inv(q)]) # "CONFLICT"
        BY Zenon DEF VerifyHorizonPayment
      <4>2. /\ pc[q] = "horizon" /\ seen' = seen
            /\ Continue(q, "pay") \/ \E c : c # "CONFLICT" /\ Respond(q, c)
        BY <3>2, <4>1, Zenon DEF Horizon
      <4> QED BY <1>0, <2>3, <3>0, <4>2, ControlEffect
    <3>3. CASE Pay(q)
      <4>1. /\ pc[q] = "pay" /\ seen' = seen
            /\ \/ Continue(q, "event")
               \/ \E e : e # "CONFLICT" /\ Fail(q, e)
               \/ Continue(q, "check") /\ ~RowPayable(q)
        BY <3>3, Zenon DEF Pay, NoRow
      <4>2. ~RowPayable(q) /\ status[i] = "PENDING" /\ rq[q].ver = seen[q].version =>
              expiresAt[i] <= now
        BY <1>1, <2>1, <4>1 DEF RowPayable, VersionMatches, i
      <4> QED BY <1>0, <1>1, <2>0, <2>3, <3>0, <4>1, <4>2, ControlEffect
    <3>4. CASE CheckVersion(q)
      <4>1. pc[q] = "check" /\ seen' = seen /\ \E e : Fail(q, e)
        BY <3>4, Zenon DEF CheckVersion
      <4> QED BY <1>0, <1>1, <2>0, <2>1, <2>3, <3>0, <4>1, ControlEffect
    <3>5. CASE LogConfirmed(q)
      <4>1. /\ pc[q] = "event" /\ seen' = seen
            /\ Fail(q, "DB_ERROR") \/ Respond(q, "200") \/ Continue(q, "audit")
        BY <3>5, Zenon DEF LogConfirmed
      <4> QED BY <1>0, <2>0, <2>3, <3>0, <4>1, ControlEffect
    <3>6. CASE Sweep(q)
      <4>1. /\ seen' = seen /\ pc[q] \in {"sweep", "resweep", "csweep"}
            /\ \/ Continue(q, AfterSweep[pc[q]]) \/ Respond(q, "DB_ERROR")
        BY <3>6, Zenon DEF Sweep, AfterSweep
      <4>2. (pc[q] = "resweep" /\ AfterSweep[pc[q]] = "reread") \/ AfterSweep[pc[q]] \in {"read", "cancel"}
        BY <4>1 DEF AfterSweep
      <4>3. status'[i] = "PENDING" => ~(expiresAt[i] <= now)
        <5>1. Srv(q) \in Servers /\ Skew[Srv(q)] \in Int /\ Skew[Srv(q)] >= 0
          BY <1>0, RequestFields, ConstantsAssumption, Zenon DEF NoLag
        <5>2. expiresAt[i] <= now => expiresAt[i] <= ServerTime(Srv(q))
          BY <1>1, <5>1 DEF ServerTime
        <5>3. status'[i] = "PENDING" => i \notin Overdue(ServerTime(Srv(q))) /\ status[i] = "PENDING"
          BY <1>0, <3>6, Zenon DEF Sweep, MarkExpired
        <5> QED BY <1>0, <5>2, <5>3, Zenon DEF Overdue
      <4> QED BY <1>0, <2>1, <2>3, <3>0, <4>1, <4>2, <4>3, ControlEffect
    <3>7. CASE Reread(q)
      <4>1. Respond(q, RereadAnswer(q)) /\ pc[q] = "reread" /\ seen' = seen
        BY <3>7, Zenon DEF Reread
      <4>2. RereadAnswer(q) = "CONFLICT" =>
              error[q] = "CONFLICT" /\ (status[i] = "PENDING" \/ status[i] = "ABSENT")
        BY Zenon DEF RereadAnswer, Payability, CheckInvoiceIsPayable, i
      <4> QED BY <1>0, <2>1, <4>1, <4>2, ControlEffect, Zenon
    <3>8. CASE DbError(q)
      <4>1. /\ seen' = seen
            /\ \/ pc[q] \in {"pay", "event", "check"} /\ Fail(q, "DB_ERROR")
               \/ Respond(q, "DB_ERROR")
        BY <3>8, Zenon DEF DbError
      <4> QED BY <1>0, <2>0, <2>3, <3>0, <4>1, ControlEffect
    <3>9. CASE AcquireLock(q) \/ Refuse(q) \/ Audit(q)
      <4>1. /\ seen' = seen /\ pc[q] # "done"
            /\ \/ pc'[q] = "sweep" /\ res'[q] = res[q]
               \/ \E c : c # "CONFLICT" /\ Respond(q, c)
        BY <1>0, <3>9, Zenon DEF AcquireLock, Refuse, Audit, Goto, TypeOK
      <4> QED BY <1>0, <3>0, <4>1, ControlEffect, Zenon
    <3>10. CASE LogPartial(q) \/ SaveTransaction(q) \/ Cancel(q)
      BY <1>0, <2>0, <3>10, Zenon DEF LogPartial, SaveTransaction, Cancel, ControlInv, Route
    <3> QED BY <2>5, <3>1, <3>2, <3>3, <3>4, <3>5, <3>6, <3>7, <3>8, <3>9, <3>10, Zenon
               DEF RequestStep
  <2> QED BY <1>0, <1>3, <2>4, <2>5, Moves, Zenon
<1> QED BY <1>2, <1>3, Zenon

(* On servers whose clock is not behind the database's, verifyPayment      *)
(* answers 409 only to a client that sent another version than the row had *)
(* when it was read: losing to a payment, a cancellation or the deadline   *)
(* is answered with what happened.                                         *)
THEOREM ConflictIsStale ==
  ASSUME NoLag
  PROVE  Spec => []VerifyConflictMeansStale
<1>1. Init => StaleInv
  BY Zenon DEF Init, StaleInv, Kind, NoRequest
<1>2. IInv /\ StaleInv /\ [Next]_vars => StaleInv'
  BY NoLag, StaleStep, Zenon
<1>3. StaleInv => VerifyConflictMeansStale
  BY Zenon DEF StaleInv, VerifyConflictMeansStale
<1> QED BY <1>1, <1>2, <1>3, Invariance, PTL DEF Spec

---------------------------------------------------------------------------
(* Refinement *)

(* Every step of a handler is a step of InvoiceLifecycle, or leaves its variables alone. *)
LEMMA LifecycleStep ==
  IInv /\ [Next]_vars => [Lifecycle!Next]_(Lifecycle!lifecycleVars)
<1> SUFFICES ASSUME IInv, [Next]_vars
             PROVE  [Lifecycle!Next]_(Lifecycle!lifecycleVars)
  BY Zenon
<1>0. TypeOK /\ TypeOK' /\ EvidenceInv /\ \A r \in Requests : Inv(r) \in Invoices
  BY TypeStep, RequestFields, Zenon DEF IInv
<1>1. CASE Tick
  <2>1. Lifecycle!Tick
    BY <1>1, Zenon DEF Tick, database, invoiceRow, Lifecycle!Tick
  <2> QED BY <2>1, Zenon DEF Lifecycle!Next
<1>2. CASE now' = now
  <2>1. CASE UNCHANGED invoiceRow
    BY <1>2, <2>1, Zenon DEF invoiceRow, Lifecycle!lifecycleVars
  <2>2. ASSUME NEW s \in Servers, NEW i \in Invoices, CreateInvoice(s, i)
        PROVE  Lifecycle!Open(i)
    <3>1. expiresAt'[i] \in Int
      BY <1>0, Zenon DEF TypeOK
    <3>2. expiresAt' = [expiresAt EXCEPT ![i] = expiresAt'[i]]
      BY <1>0, <2>2, Zenon DEF CreateInvoice, TypeOK
    <3> QED BY <1>2, <2>2, <3>1, <3>2, Zenon DEF CreateInvoice, Lifecycle!Open
  <2>3. ASSUME NEW r \in Requests, Pay(r), RowPayable(r), HashUnused(HashOf(r)), PayRow(r)
        PROVE  HashOf(r) \in Hashes /\ Lifecycle!Settle(Inv(r), HashOf(r))
    <3>1. HashOf(r) \in Hashes /\ Accepts(Inv(r), HashOf(r))
      BY <1>0, <2>3, RequestFields, Zenon DEF EvidenceInv, Pay
    <3>2. <<Inv(r), HashOf(r)>> \in Acceptable
      BY <1>0, <3>1, Zenon DEF Acceptable
    <3>3. now < expiresAt[Inv(r)]
      BY <1>0, <2>3, Zenon DEF RowPayable, TypeOK
    <3> QED BY <1>0, <1>2, <2>3, <3>1, <3>2, <3>3, Zenon
            DEF RowPayable, HashUnused, PayRow, Lifecycle!Settle
  <2>4. ASSUME NEW r \in Requests, RowCancellable(r), CancelRow(r)
        PROVE  Lifecycle!Cancel(Inv(r))
    BY <1>2, <2>4, Zenon DEF RowCancellable, CancelRow, Lifecycle!Cancel
  <2>5. ASSUME NEW s \in Servers, MarkExpired(s),
               UNCHANGED <<version, expiresAt, paidAt, paymentTxHash, settler>>
        PROVE  Lifecycle!Expire(Skew[s])
    BY <1>2, <2>5, Zenon DEF MarkExpired, Overdue, ServerTime, Lifecycle!Expire
  <2> QED BY <1>0, <2>1, <2>2, <2>3, <2>4, <2>5, RowChange, Zenon DEF Lifecycle!Next
<1> QED BY <1>1, <1>2, NowStep, Zenon

(* The backend implements the life of an invoice: whatever the requests,   *)
(* the monitor, the sweeps and the crashes do, a row is settled once, in   *)
(* time, by a hash its rules accept and no other row has.                  *)
THEOREM Refinement == Spec => ImplementsLifecycle
<1>1. Init => Lifecycle!Init
  BY Zenon DEF Init, Lifecycle!Init
<1> QED BY <1>1, LifecycleStep, Invariance, PTL DEF Spec, ImplementsLifecycle, Lifecycle!Spec
=============================================================================
