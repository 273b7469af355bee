--------------------------- MODULE MCInvoiceServer ---------------------------
(***************************************************************************)
(* Small instances of InvoiceServer: one or two invoices of one seller in  *)
(* a pinned asset, and a ledger with the transactions that tell the checks *)
(* apart.                                                                  *)
(***************************************************************************)
EXTENDS InvoiceServer, TLC

CONSTANTS i1, i2, good, otherIssuer, feeBump, s1, s2

Seller == <<"seller", None>>
Payer == <<"payer", None>>
Usdc(issuer) == [type |-> "credit_alphanum4", code |-> "USDC", issuer |-> issuer]
Payment(from, to, amount, issuer) ==
  [type |-> "payment", from |-> from, to |-> to, muxed |-> None, amount |-> amount,
   asset |-> Usdc(issuer)]
Tx(memo, ops) == [memo |-> memo, feeBump |-> FALSE, innerMemo |-> None, ops |-> ops]

(* good pays i1; otherIssuer pays i1 in a token of another issuer with the *)
(* same code; feeBump pays i1 by its inner memo and i2 by its outer memo.  *)
MCLedger ==
  [t \in Txs |->
     CASE t = good -> Tx("m1", {Payment(Payer, Seller, 5, "circle")})
       [] t = otherIssuer -> Tx("m1", {Payment(Payer, Seller, 5, "other"),
                                       Payment(Payer, Seller, 4, "circle")})
       [] t = feeBump -> [memo |-> "m2", feeBump |-> TRUE, innerMemo |-> "m1",
                          ops |-> {Payment(Payer, Seller, 5, "circle")}]]

MCTerms ==
  [i \in Invoices |->
     [memo |-> IF i = i1 THEN "m1" ELSE "m2", destination |-> Seller, amount |-> 5,
      asset |-> [code |-> "USDC", issuer |-> "circle"], network |-> "testnet"]]

NoSkew == [s \in Servers |-> 0]
SomeSkew == [s \in Servers |-> IF s = s1 THEN 0 ELSE 1]
NoPlatform == None
Platform == Seller
RequestSymmetry == Permutations(Requests)
=============================================================================
