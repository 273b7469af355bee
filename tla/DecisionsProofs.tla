--------------------------- MODULE DecisionsProofs ---------------------------
(***************************************************************************)
(* The themes of MCDecisions that are proved for every value of its        *)
(* constants.  RulesProofs does the work for each component by itself;     *)
(* here a part of MCDecisions is shown to be that component (two instances *)
(* of one module unfold to the same formula) and put in its place.         *)
(***************************************************************************)
EXTENDS MCDecisions, TLAPS

R == INSTANCE RulesProofs

(* Payment verification of MCDecisions is the one of RulesProofs. *)
LEMMA PaymentPart ==
  /\ Payment!VerifyInit => Payment!PaymentInv
  /\ Payment!PaymentInv /\ Payment!Verify => Payment!PaymentInv'
  /\ Payment!PaymentInv /\ UNCHANGED paymentVars => Payment!PaymentInv'
  /\ Payment!PaymentInv =>
       Payment!AcceptsExactlyOnePaymentThatMatches /\ Payment!NamesTheFirstFailure
<1>0. /\ Payment!Memos = R!Memos /\ Payment!Operations = R!Operations
      /\ Payment!Expectations = R!Expectations /\ Payment!None = R!None
  BY Zenon DEF Payment!Memos, Payment!Operations, Payment!Expectations, Payment!None, Payment!Accounts,
         Payment!Assets, R!Memos, R!Operations, R!Expectations, R!None, R!Accounts, R!Assets
<1>1. Payment!VerifyInit <=> R!VerifyInit
  BY <1>0 DEF Payment!VerifyInit, Payment!Payments, R!VerifyInit, R!Payments
<1>2. \A t, n, e : Payment!VerifyHorizonPayment(t, n, e) = R!VerifyHorizonPayment(t, n, e)
  BY Zenon DEF Payment!VerifyHorizonPayment, Payment!NetworkClash, Payment!PaymentOps, Payment!MemoOf,
         Payment!ToSeller, Payment!RightAmount, Payment!RightAsset, Payment!None,
         Payment!NormalizeDestination, Payment!AmountsMatch, Payment!AssetsMatch,
         Payment!ResolveInvoiceAsset, Payment!ResolvePaymentAsset, Payment!Native,
         Payment!PinnedOrNot, R!VerifyHorizonPayment, R!NetworkClash, R!PaymentOps, R!MemoOf,
         R!ToSeller, R!RightAmount, R!RightAsset, R!None, R!NormalizeDestination, R!AmountsMatch,
         R!AssetsMatch, R!ResolveInvoiceAsset, R!ResolvePaymentAsset, R!Native, R!PinnedOrNot
<1>3. /\ Payment!Verify <=> R!Verify
      /\ Payment!PaymentInv <=> R!PaymentInv
      /\ Payment!PaymentInv' <=> R!PaymentInv'
  BY <1>2, Zenon DEF Payment!Verify, Payment!PaymentInv, Payment!PaymentInput, R!Verify, R!PaymentInv,
         R!PaymentInput
<1>4. /\ Payment!AcceptsExactlyOnePaymentThatMatches <=> R!AcceptsExactlyOnePaymentThatMatches
      /\ Payment!NamesTheFirstFailure <=> R!NamesTheFirstFailure
  BY Zenon DEF Payment!AcceptsExactlyOnePaymentThatMatches, Payment!NamesTheFirstFailure, Payment!None,
         Payment!ForThisInvoice, Payment!Reaches, Payment!Within, Payment!SameAsset,
         R!AcceptsExactlyOnePaymentThatMatches, R!NamesTheFirstFailure, R!None, R!ForThisInvoice,
         R!Reaches, R!Within, R!SameAsset
<1>5. ToleranceStroops \in {0, 1} /\ R!BackpressureConstants
  BY ToleranceAssumption, BackpressureConstants DEF IsFiniteSet, R!IsFiniteSet, R!BackpressureConstants
<1> QED BY <1>1, <1>3, <1>4, <1>5, R!PaymentFacts DEF paymentVars, R!BackpressureConstants

(* A behaviour that verifies a payment does nothing else. *)
LEMMA PaymentSteps ==
  LET PartInv == part = "payment" => Payment!PaymentInv
  IN /\ DecisionsInit => PartInv
     /\ PartInv /\ [DecisionsNext]_decisionsVars => PartInv'
     /\ PartInv => VerdictIsRight
BY PaymentPart DEF DecisionsInit, DecisionsNext, decisionsVars, VerdictIsRight

(* A transaction settles an invoice exactly when one payment operation of it has the invoice's
   destination, amount (within the configured tolerance) and asset, and its memo and network are
   right; a refused one is answered with the first check of verifyHorizonPayment that failed. *)
THEOREM PaymentsAreJudgedRight == DecisionsSpec => []VerdictIsRight
BY PaymentSteps, PTL DEF DecisionsSpec
=============================================================================
