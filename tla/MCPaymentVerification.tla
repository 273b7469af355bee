------------------------ MODULE MCPaymentVerification ------------------------
(***************************************************************************)
(* verifyHorizonPayment on every combination of up to two operations, a    *)
(* fee bump or not, and the kinds of invoice, against what README.md calls *)
(* the payment verification contract.                                      *)
(***************************************************************************)
EXTENDS PaymentVerification

VARIABLES tx, network, expected, verdict

Accounts == {<<"seller", None>>, <<"other", None>>, <<"seller", "7">>}
Assets == {[type |-> "native", code |-> None, issuer |-> None],
           [type |-> "credit_alphanum4", code |-> "USDC", issuer |-> "circle"],
           [type |-> "credit_alphanum4", code |-> "USDC", issuer |-> "other"],
           [type |-> "credit_alphanum4", code |-> "XLM", issuer |-> "circle"]}
Operations ==
  [type : {"payment"}, to : Accounts, muxed : {None, "7"}, amount : {5, 6, 7}, asset : Assets]
    \union {[type |-> "create_account", to |-> <<"seller", None>>, muxed |-> None,
             amount |-> 5, asset |-> CHOOSE a \in Assets : a.type = "native"]}
Payments == {{}} \union {{a, b} : a \in Operations, b \in Operations}
Memos == {[memo |-> "m", feeBump |-> FALSE, innerMemo |-> None],
          [memo |-> "x", feeBump |-> FALSE, innerMemo |-> None],
          [memo |-> "x", feeBump |-> TRUE, innerMemo |-> "m"],
          [memo |-> "m", feeBump |-> TRUE, innerMemo |-> "x"],
          [memo |-> "m", feeBump |-> TRUE, innerMemo |-> None]}
Expectations ==
  [memo : {"m"}, destination : {<<"seller", None>>, <<"seller", "7">>}, amount : {5},
   asset : {[code |-> "XLM", issuer |-> None], [code |-> "USDC", issuer |-> "circle"],
            [code |-> "USDC", issuer |-> None]},
   network : {"testnet"}]

VerifyInit ==
  /\ \E m \in Memos, ops \in Payments :
       tx = [memo |-> m.memo, feeBump |-> m.feeBump, innerMemo |-> m.innerMemo, ops |-> ops]
  /\ network \in {None, "public"}
  /\ expected \in Expectations
  /\ verdict = "none"

Verify ==
  /\ verdict = "none"
  /\ verdict' = VerifyHorizonPayment(tx, network, expected)
  /\ UNCHANGED <<tx, network, expected>>

---------------------------------------------------------------------------
(* The contract, stated of one operation at a time *)

Reaches(op) ==
  /\ op.type = "payment"
  /\ \/ op.to = expected.destination /\ (op.to[2] # None \/ op.muxed = None)
     \/ op.to[2] = None /\ op.muxed # None /\ <<op.to[1], op.muxed>> = expected.destination

Within(op) == \E d \in -ToleranceStroops..ToleranceStroops : op.amount = expected.amount + d

SameAsset(op) ==
  \/ op.asset.type = "native" /\ expected.asset = [code |-> "XLM", issuer |-> None]
  \/ /\ op.asset.type # "native" /\ expected.asset.issuer # None
     /\ expected.asset = [code |-> op.asset.code, issuer |-> op.asset.issuer]

ForThisInvoice == (IF tx.feeBump /\ tx.innerMemo # None THEN tx.innerMemo ELSE tx.memo) = "m"

(* A transaction is accepted exactly when one single payment operation of   *)
(* it has the destination, the amount and the asset (code and issuer) of    *)
(* the invoice, the signed memo is the invoice's and the network is ours.   *)
AcceptsExactlyOnePaymentThatMatches ==
  verdict = "OK" <=>
    /\ verdict # "none" /\ network \in {None, "testnet"} /\ ForThisInvoice
    /\ \E op \in tx.ops : Reaches(op) /\ Within(op) /\ SameAsset(op)

(* The code that is sent names the first check that failed: what the codes  *)
(* before it are about was in order in some payment to the seller.          *)
NamesTheFirstFailure ==
  /\ verdict = "DESTINATION_MISMATCH" => ForThisInvoice /\ ~\E op \in tx.ops : Reaches(op)
  /\ verdict = "AMOUNT_MISMATCH" =>
       /\ ForThisInvoice /\ \E op \in tx.ops : Reaches(op)
       /\ ~\E op \in tx.ops : Reaches(op) /\ Within(op)
  /\ verdict = "ASSET_MISMATCH" =>
       /\ ForThisInvoice /\ \E op \in tx.ops : Reaches(op) /\ Within(op)
       /\ ~\E op \in tx.ops : Reaches(op) /\ Within(op) /\ SameAsset(op)

(* What the proofs assume of an input: operations name an address and a     *)
(* whole number of stroops, whatever else Horizon returned.                 *)
PaymentInput ==
  /\ \A op \in tx.ops : op.to = <<op.to[1], op.to[2]>> /\ op.amount \in Int
  /\ expected.memo = "m" /\ expected.network = "testnet" /\ expected.amount \in Int
  /\ expected.asset = [code |-> expected.asset.code, issuer |-> expected.asset.issuer]

(* The inductive invariant: a verdict is that on this input. *)
PaymentInv ==
  PaymentInput /\ verdict \in {"none", VerifyHorizonPayment(tx, network, expected)}
=============================================================================
