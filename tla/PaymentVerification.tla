------------------------- MODULE PaymentVerification -------------------------
(***************************************************************************)
(* The rules that decide whether a Stellar transaction settles an invoice: *)
(* backend/src/services/payment-verification.ts, with the asset identities *)
(* of utils/asset-helpers.ts and the stroop comparison of                  *)
(* utils/verify-amount-tolerance.ts.  The code is a pure function of what  *)
(* Horizon returned, so the module only has operators.                     *)
(*                                                                         *)
(* Data.  An amount is a number of stroops.  An address is a pair          *)
(* <<account, sub-account>>; a G address has sub-account None, an M        *)
(* address has another one.  A transaction is a record                     *)
(*   [memo, feeBump, innerMemo, ops]                                       *)
(* whose innerMemo is None when Horizon returned no inner transaction, and *)
(* whose ops is a set of operations                                        *)
(*   [type, to, muxed, amount, asset : [type, code, issuer]].              *)
(* What an invoice expects is a record                                     *)
(*   [memo, destination, amount, asset : [code, issuer], network].         *)
(* The order of the operations only decides which payer is recorded, which *)
(* no property here is about.                                              *)
(***************************************************************************)
EXTENDS Integers

CONSTANT ToleranceStroops  \* 1 when the paymentAmountTolerance flag is on, else 0

ASSUME ToleranceAssumption == ToleranceStroops \in {0, 1}

None == "none"   \* a field the JSON does not carry

---------------------------------------------------------------------------
(* utils/asset-helpers.ts *)

Native == [kind |-> "native", code |-> "XLM", issuer |-> None]

PinnedOrNot(code, issuer) ==
  [kind |-> IF issuer = None THEN "unpinned" ELSE "credit",
   code |-> code, issuer |-> issuer]

ResolvePaymentAsset(a) ==
  IF a.type = "native" THEN Native ELSE PinnedOrNot(a.code, a.issuer)

ResolveInvoiceAsset(a) ==
  IF a.code = "XLM" /\ a.issuer = None THEN Native ELSE PinnedOrNot(a.code, a.issuer)

AssetsMatch(inv, pay) ==
  /\ inv.kind # "unpinned" /\ pay.kind # "unpinned"
  /\ inv.kind = pay.kind
  /\ inv.kind = "credit" => inv.code = pay.code /\ inv.issuer = pay.issuer

---------------------------------------------------------------------------
(* utils/verify-amount-tolerance.ts, after Math.round(x * 1e7) on both sides *)

AmountsMatch(actual, expected) ==
  /\ actual - expected <= ToleranceStroops
  /\ expected - actual <= ToleranceStroops

---------------------------------------------------------------------------
(* services/payment-verification.ts *)

NormalizeDestination(to, muxed) ==
  IF to[2] # None \/ muxed = None THEN to ELSE <<to[1], muxed>>

MemoOf(tx) == IF tx.feeBump /\ tx.innerMemo # None THEN tx.innerMemo ELSE tx.memo

(* Each check narrows the operations the previous one left. *)
PaymentOps(tx) == {op \in tx.ops : op.type = "payment"}

ToSeller(tx, e) ==
  {op \in PaymentOps(tx) : NormalizeDestination(op.to, op.muxed) = e.destination}

RightAmount(tx, e) == {op \in ToSeller(tx, e) : AmountsMatch(op.amount, e.amount)}

(* Mutant: one payment has the amount, another one the asset *)
BadRightAsset(tx, e) ==
  {op \in ToSeller(tx, e) :
     AssetsMatch(ResolveInvoiceAsset(e.asset), ResolvePaymentAsset(op.asset))}

RightAsset(tx, e) ==
  {op \in RightAmount(tx, e) :
     AssetsMatch(ResolveInvoiceAsset(e.asset), ResolvePaymentAsset(op.asset))}

NetworkClash(network, e) ==
  e.network # None /\ network # None /\ e.network # network

(* The code of the first failing check, or "OK". *)
VerifyHorizonPayment(tx, network, e) ==
  IF NetworkClash(network, e) THEN "NETWORK_MISMATCH"
  ELSE IF PaymentOps(tx) = {} THEN "NO_PAYMENT_OPERATION"
  ELSE IF MemoOf(tx) # e.memo THEN "MEMO_MISMATCH"
  ELSE IF ToSeller(tx, e) = {} THEN "DESTINATION_MISMATCH"
  ELSE IF RightAmount(tx, e) = {} THEN "AMOUNT_MISMATCH"
  ELSE IF RightAsset(tx, e) = {} THEN "ASSET_MISMATCH"
  ELSE "OK"

(* checkInvoiceIsPayable: the code for a status, or "OK" *)
CheckInvoiceIsPayable(status) ==
  IF status = "PENDING" THEN "OK"
  ELSE IF status = "PAID" THEN "INVOICE_ALREADY_PAID"
  ELSE IF status = "EXPIRED" THEN "INVOICE_EXPIRED"
  ELSE "INVOICE_NOT_PENDING"
=============================================================================
