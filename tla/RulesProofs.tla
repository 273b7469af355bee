----------------------------- MODULE RulesProofs -----------------------------
(***************************************************************************)
(* What is proved of the components that decide, each by itself: the queue *)
(* stays bounded for any number of concurrent callers and any watermarks,  *)
(* and verifyHorizonPayment judges any transaction by the contract.        *)
(***************************************************************************)
EXTENDS Backpressure, MCPaymentVerification, FiniteSetTheorems, TLAPS

CallType == [pc : {"idle", "count", "check", "insert"}, kind : Kinds, cost : Nat, depth : Nat]

(* No more callers than there are have counted the queue without having published. *)
LEMMA CommittedIsFinite ==
  /\ IsFiniteSet(Committed) /\ Cardinality(Committed) \in Nat
  /\ Cardinality(Callers) \in Nat /\ Cardinality(Committed) <= Cardinality(Callers)
<1>1. IsFiniteSet(Callers) /\ Committed \subseteq Callers
  BY BackpressureConstants, Zenon DEF Committed
<1> QED BY <1>1, FS_Subset, FS_CardinalityType, Zenon

(* One caller changes its record. *)
LEMMA SetCall ==
  ASSUME TypeOK, NEW c \in Callers, NEW n \in CallType, call' = [call EXCEPT ![c] = n]
  PROVE  /\ call' \in [Callers -> CallType] /\ call'[c] = n
         /\ \A b \in Callers \ {c} : call'[b] = call[b]
BY Zenon DEF TypeOK, CallType

(* An idle caller is a caller. *)
LEMMA NoCallType == NoCall \in CallType /\ NoCall.pc = "idle"
BY Zenon DEF NoCall, CallType, Kinds, Priorities

(* A caller is admitted only below the ceiling. *)
LEMMA AdmittedBelowCeiling ==
  ASSUME NEW p, NEW k, NEW d \in Nat, CheckAdmission(p, k, d) = "admitted"
  PROVE  d < EmergencyLimit
BY BackpressureConstants DEF CheckAdmission

(* updateState moves between the three states of the controller. *)
LEMMA UpdateStateType ==
  ASSUME TypeOK, NEW d PROVE UpdateState(d) \in {"NORMAL", "DEGRADED", "REJECTING"}
BY Zenon DEF TypeOK, UpdateState

(* If the depth does not grow and nobody joins the committed callers, the   *)
(* bound stays.                                                             *)
LEMMA NobodyJoins ==
  ASSUME TypeOK, OvershootIsBounded, depth' \in Nat, depth' <= depth, Committed' \subseteq Committed
  PROVE  OvershootIsBounded'
<1>1. Cardinality(Committed') <= Cardinality(Committed) /\ Cardinality(Committed') \in Nat
  BY CommittedIsFinite, FS_Subset, FS_CardinalityType, Zenon
<1>2. depth \in Nat /\ EmergencyLimit \in Nat
  BY BackpressureConstants, Zenon DEF TypeOK
<1> QED BY <1>1, <1>2, CommittedIsFinite DEF OvershootIsBounded

(* A call that starts keeps the bound. *)
LEMMA CallStep ==
  ASSUME TypeOK, OvershootIsBounded, NEW c \in Callers, Call(c)
  PROVE  TypeOK' /\ OvershootIsBounded'
<1>1. PICK p \in Kinds, k \in Costs :
        call' = [call EXCEPT ![c] = [NoCall EXCEPT !.pc = "count", !.kind = p, !.cost = k]]
  BY Zenon DEF Call
<1> DEFINE n == [NoCall EXCEPT !.pc = "count", !.kind = p, !.cost = k]
<1>2. n \in CallType /\ n.pc = "count"
  BY BackpressureConstants, NoCallType, Zenon DEF CallType
<1>3. call' = [call EXCEPT ![c] = n] /\ depth' = depth /\ state' = state /\ currentCost' = currentCost
  BY <1>1, Zenon DEF Call
<1> HIDE DEF n
<1>4. /\ call' \in [Callers -> CallType] /\ call'[c] = n
      /\ \A b \in Callers \ {c} : call'[b] = call[b]
  BY <1>2, <1>3, SetCall, Zenon
<1>5. Committed' \subseteq Committed
  BY <1>2, <1>4, Zenon DEF Committed
<1>6. depth' \in Nat /\ depth' <= depth
  BY <1>3 DEF TypeOK
<1> QED BY <1>3, <1>4, <1>5, <1>6, NobodyJoins, Zenon DEF TypeOK, CallType

(* A caller that counts below the ceiling joins: then all callers together   *)
(* fit under the bound.                                                      *)
LEMMA CountStep ==
  ASSUME TypeOK, OvershootIsBounded, NEW c \in Callers, Count(c)
  PROVE  TypeOK' /\ OvershootIsBounded'
<1>0. depth \in Nat /\ EmergencyLimit \in Nat /\ call[c] \in CallType
  BY BackpressureConstants, Zenon DEF TypeOK, CallType
<1> DEFINE n == [call[c] EXCEPT !.pc = "check", !.depth = depth]
<1>1. n \in CallType /\ n.pc = "check" /\ n.depth = depth
  BY <1>0, Zenon DEF CallType
<1>2. call' = [call EXCEPT ![c] = n] /\ depth' = depth /\ state' = state /\ currentCost' = currentCost
  BY Zenon DEF Count
<1> HIDE DEF n
<1>3. /\ call' \in [Callers -> CallType] /\ call'[c] = n
      /\ \A b \in Callers \ {c} : call'[b] = call[b]
  BY <1>1, <1>2, SetCall, Zenon
<1>4. TypeOK'
  BY <1>2, <1>3, Zenon DEF TypeOK, CallType
<1>5. CASE depth < EmergencyLimit
  <2>1. Committed' \subseteq Callers
    BY Zenon DEF Committed
  <2>2. Cardinality(Committed') <= Cardinality(Callers) /\ Cardinality(Committed') \in Nat
    BY <2>1, BackpressureConstants, FS_Subset, FS_CardinalityType, Zenon
  <2> QED BY <1>0, <1>2, <1>4, <1>5, <2>2, CommittedIsFinite DEF OvershootIsBounded
<1>6. CASE ~(depth < EmergencyLimit)
  <2>1. Committed' \subseteq Committed
    BY <1>1, <1>3, <1>6, Zenon DEF Committed
  <2> QED BY <1>0, <1>2, <1>4, <2>1, NobodyJoins
<1> QED BY <1>5, <1>6, Zenon

(* checkAdmission keeps the bound, whatever depth it was told. *)
LEMMA CheckStep ==
  ASSUME TypeOK, OvershootIsBounded, NEW c \in Callers, Check(c)
  PROVE  TypeOK' /\ OvershootIsBounded'
<1>0. /\ depth \in Nat /\ call[c] \in CallType /\ depth' = depth /\ currentCost \in Nat
      /\ call[c].pc = "check" /\ call[c].kind # "METRICS"
      /\ state' = UpdateState(call[c].depth)
  BY Zenon DEF TypeOK, CallType, Check
<1>1. state' \in {"NORMAL", "DEGRADED", "REJECTING"}
  BY <1>0, UpdateStateType, Zenon
<1>2. CASE CheckAdmission(call[c].kind, call[c].cost, call[c].depth) = "admitted"
  <2> DEFINE n == [call[c] EXCEPT !.pc = "insert"]
  <2>1. n \in CallType /\ call[c].depth \in Nat /\ call[c].cost \in Nat
    BY <1>0, Zenon DEF CallType
  <2>2. call' = [call EXCEPT ![c] = n] /\ currentCost' = currentCost + call[c].cost
    BY <1>2, Zenon DEF Check
  <2> HIDE DEF n
  <2>3. /\ call' \in [Callers -> CallType] /\ call'[c] = n
        /\ \A b \in Callers \ {c} : call'[b] = call[b]
    BY <2>1, <2>2, SetCall, Zenon
  <2>4. call[c].depth < EmergencyLimit
    BY <1>2, <2>1, AdmittedBelowCeiling, Zenon
  <2>5. Committed' \subseteq Committed
    BY <1>0, <2>3, <2>4, Zenon DEF Committed
  <2>6. TypeOK'
    BY <1>0, <1>1, <2>1, <2>2, <2>3 DEF TypeOK, CallType
  <2> QED BY <1>0, <2>5, <2>6, NobodyJoins
<1>3. CASE CheckAdmission(call[c].kind, call[c].cost, call[c].depth) # "admitted"
  <2>1. call' = [call EXCEPT ![c] = NoCall] /\ currentCost' = currentCost
    BY <1>3, Zenon DEF Check
  <2>2. /\ call' \in [Callers -> CallType] /\ call'[c] = NoCall
        /\ \A b \in Callers \ {c} : call'[b] = call[b]
    BY <2>1, NoCallType, SetCall, Zenon
  <2>3. Committed' \subseteq Committed
    BY <2>2, NoCallType, Zenon DEF Committed
  <2>4. TypeOK'
    BY <1>0, <1>1, <2>1, <2>2, Zenon DEF TypeOK, CallType
  <2> QED BY <1>0, <2>3, <2>4, NobodyJoins
<1> QED BY <1>2, <1>3, Zenon

(* getMetrics, which also updates the state, keeps the bound. *)
LEMMA MetricsStep ==
  ASSUME TypeOK, OvershootIsBounded, NEW c \in Callers, Metrics(c)
  PROVE  TypeOK' /\ OvershootIsBounded'
<1>0. /\ depth \in Nat /\ depth' = depth /\ currentCost' = currentCost
      /\ state' = UpdateState(call[c].depth) /\ call' = [call EXCEPT ![c] = NoCall]
  BY Zenon DEF TypeOK, Metrics
<1>1. state' \in {"NORMAL", "DEGRADED", "REJECTING"}
  BY <1>0, UpdateStateType, Zenon
<1>2. /\ call' \in [Callers -> CallType] /\ call'[c] = NoCall
      /\ \A b \in Callers \ {c} : call'[b] = call[b]
  BY <1>0, NoCallType, SetCall, Zenon
<1>3. Committed' \subseteq Committed
  BY <1>2, NoCallType, Zenon DEF Committed
<1>4. TypeOK'
  BY <1>0, <1>1, <1>2, Zenon DEF TypeOK, CallType
<1> QED BY <1>0, <1>3, <1>4, NobodyJoins

(* The caller that inserts leaves the committed ones. *)
LEMMA InsertStep ==
  ASSUME TypeOK, OvershootIsBounded, NEW c \in Callers, Insert(c)
  PROVE  TypeOK' /\ OvershootIsBounded'
<1>0. /\ depth \in Nat /\ depth' \in {depth, depth + 1} /\ currentCost' = currentCost
      /\ state' = state /\ call' = [call EXCEPT ![c] = NoCall] /\ call[c].pc = "insert"
      /\ EmergencyLimit \in Nat
  BY BackpressureConstants, Zenon DEF TypeOK, Insert
<1>1. /\ call' \in [Callers -> CallType] /\ call'[c] = NoCall
      /\ \A b \in Callers \ {c} : call'[b] = call[b]
  BY <1>0, NoCallType, SetCall, Zenon
<1>2. Committed' = Committed \ {c} /\ c \in Committed
  BY <1>0, <1>1, NoCallType, Zenon DEF Committed
<1>3. Cardinality(Committed') = Cardinality(Committed) - 1
  BY <1>2, CommittedIsFinite, FS_RemoveElement, Zenon
<1>4. TypeOK'
  BY <1>0, <1>1 DEF TypeOK, CallType
<1> QED BY <1>0, <1>3, <1>4, CommittedIsFinite DEF OvershootIsBounded

(* A job that leaves the queue keeps the bound. *)
LEMMA CompleteStep ==
  ASSUME TypeOK, OvershootIsBounded, Complete \/ UNCHANGED vars
  PROVE  TypeOK' /\ OvershootIsBounded'
<1>1. /\ depth' \in Nat /\ depth' <= depth /\ call' = call /\ state' = state
      /\ currentCost' = currentCost
  BY DEF TypeOK, Complete, vars
<1>2. Committed' \subseteq Committed
  BY <1>1, Zenon DEF Committed
<1> QED BY <1>1, <1>2, NobodyJoins, Zenon DEF TypeOK

(* However many callers count, check and insert at the same time, the queue  *)
(* passes the ceiling of checkAdmission by less than one job per caller.     *)
THEOREM QueueIsBounded == Spec => []OvershootIsBounded
<1>1. Init => TypeOK /\ OvershootIsBounded
  <2> SUFFICES ASSUME Init PROVE TypeOK /\ OvershootIsBounded
    BY Zenon
  <2>1. call \in [Callers -> CallType] /\ Committed = {}
    BY NoCallType, Zenon DEF Init, Committed
  <2>2. TypeOK
    BY <2>1, Zenon DEF Init, TypeOK, CallType
  <2>3. Cardinality(Callers) \in Nat /\ Cardinality(Callers) # 0
    BY BackpressureConstants, FS_EmptySet, FS_CardinalityType, Zenon
  <2>4. Cardinality(Committed) = 0 /\ depth = 0 /\ EmergencyLimit \in Nat
    BY <2>1, FS_EmptySet, BackpressureConstants, Zenon DEF Init
  <2> QED BY <2>2, <2>3, <2>4 DEF OvershootIsBounded
<1>2. TypeOK /\ OvershootIsBounded /\ [Next]_vars => TypeOK' /\ OvershootIsBounded'
  BY CallStep, CountStep, CheckStep, MetricsStep, InsertStep, CompleteStep, Zenon DEF Next
<1> QED BY <1>1, <1>2, PTL DEF Spec

---------------------------------------------------------------------------
(***************************************************************************)
(* verifyHorizonPayment, on any transaction whose operations name an       *)
(* address and a whole number of stroops                                   *)
(***************************************************************************)

(* The operations that reach the seller are those the contract calls so. *)
LEMMA ToSellerIsReaching ==
  ASSUME PaymentInput
  PROVE  ToSeller(tx, expected) = {op \in tx.ops : Reaches(op)}
<1>1. ASSUME NEW op \in tx.ops
      PROVE  op.type = "payment" /\ NormalizeDestination(op.to, op.muxed) = expected.destination
             <=> Reaches(op)
  <2>1. op.to = <<op.to[1], op.to[2]>>
    BY Zenon DEF PaymentInput
  <2>2. CASE op.to[2] # None
    BY <2>2, Zenon DEF NormalizeDestination, Reaches
  <2>3. CASE op.to[2] = None /\ op.muxed = None
    BY <2>3, Zenon DEF NormalizeDestination, Reaches
  <2>4. CASE op.to[2] = None /\ op.muxed # None
    BY <2>4, Zenon DEF NormalizeDestination, Reaches
  <2> QED BY <2>2, <2>3, <2>4, Zenon
<1> QED BY <1>1, Zenon DEF ToSeller, PaymentOps

(* amountsMatch accepts what is within the tolerance. *)
LEMMA AmountsMatchWithin ==
  ASSUME PaymentInput, NEW op \in tx.ops
  PROVE  AmountsMatch(op.amount, expected.amount) <=> Within(op)
<1> DEFINE a == op.amount
           e == expected.amount
<1>1. a \in Int /\ e \in Int /\ ToleranceStroops \in Int
  BY ToleranceAssumption DEF PaymentInput
<1>2. Within(op) <=> \E d \in -ToleranceStroops..ToleranceStroops : a = e + d
  BY Zenon DEF Within
<1>3. AmountsMatch(a, e) <=> a - e <= ToleranceStroops /\ e - a <= ToleranceStroops
  BY Zenon DEF AmountsMatch
<1> HIDE DEF a, e
<1>4. (\E d \in -ToleranceStroops..ToleranceStroops : a = e + d)
      <=> a - e <= ToleranceStroops /\ e - a <= ToleranceStroops
  <2>1. a = e + (a - e)
    BY <1>1
  <2>2. a - e <= ToleranceStroops /\ e - a <= ToleranceStroops
        <=> a - e \in -ToleranceStroops..ToleranceStroops
    BY <1>1
  <2>3. ASSUME NEW d \in -ToleranceStroops..ToleranceStroops, a = e + d PROVE a - e = d
    BY <1>1, <2>3
  <2> QED BY <2>1, <2>2, <2>3, Zenon
<1> QED BY <1>2, <1>3, <1>4, Zenon DEF a, e

(* assetsMatch accepts the native asset for XLM without an issuer, and otherwise the same code of
   the same issuer, which both sides name. *)
LEMMA AssetsMatchSame ==
  ASSUME PaymentInput, NEW op \in tx.ops
  PROVE  AssetsMatch(ResolveInvoiceAsset(expected.asset), ResolvePaymentAsset(op.asset))
         <=> SameAsset(op)
<1> DEFINE a == expected.asset.code
           i == expected.asset.issuer
           p == op.asset
<1>1. expected.asset = [code |-> a, issuer |-> i]
  BY Zenon DEF PaymentInput
<1>2. SameAsset(op) <=> \/ p.type = "native" /\ a = "XLM" /\ i = None
                        \/ p.type # "native" /\ i # None /\ a = p.code /\ i = p.issuer
  BY <1>1 DEF SameAsset
<1> HIDE DEF p, a, i
<1>3. AssetsMatch(ResolveInvoiceAsset(expected.asset), ResolvePaymentAsset(p))
      <=> \/ p.type = "native" /\ a = "XLM" /\ i = None
          \/ p.type # "native" /\ i # None /\ a = p.code /\ i = p.issuer
  BY <1>1 DEF AssetsMatch, ResolveInvoiceAsset, ResolvePaymentAsset,
     Native, PinnedOrNot, None
<1> QED BY <1>2, <1>3, Zenon DEF p, a, i

(* Each check of verifyHorizonPayment leaves the operations that pass the checks so far. *)
LEMMA ChecksNarrow ==
  ASSUME PaymentInput
  PROVE  /\ RightAmount(tx, expected) = {op \in tx.ops : Reaches(op) /\ Within(op)}
         /\ RightAsset(tx, expected)
            = {op \in tx.ops : Reaches(op) /\ Within(op) /\ SameAsset(op)}
         /\ PaymentOps(tx) = {} => ToSeller(tx, expected) = {}
<1>1. RightAmount(tx, expected) = {op \in tx.ops : Reaches(op) /\ Within(op)}
  BY ToSellerIsReaching, AmountsMatchWithin, Zenon DEF RightAmount
<1>2. RightAsset(tx, expected)
      = {op \in tx.ops : Reaches(op) /\ Within(op) /\ SameAsset(op)}
  BY <1>1, AssetsMatchSame, Zenon DEF RightAsset
<1> QED BY <1>1, <1>2, Zenon DEF ToSeller

(* verifyHorizonPayment judges any transaction, of any number of operations, as the contract says: OK
   exactly when one operation matches the invoice in everything, and else the first failed check. *)
THEOREM AnyTransactionIsJudgedRight ==
  ASSUME PaymentInv
  PROVE  AcceptsExactlyOnePaymentThatMatches /\ NamesTheFirstFailure
<1> DEFINE R == {op \in tx.ops : Reaches(op)}
           W == {op \in tx.ops : Reaches(op) /\ Within(op)}
           S == {op \in tx.ops : Reaches(op) /\ Within(op) /\ SameAsset(op)}
<1>0. PaymentInput /\ verdict \in {"none", VerifyHorizonPayment(tx, network, expected)}
  BY Zenon DEF PaymentInv
<1>1. /\ S \subseteq W /\ W \subseteq R
      /\ PaymentOps(tx) = {} => R = {}
  BY <1>0, ToSellerIsReaching, ChecksNarrow, Zenon
<1>2. NetworkClash(network, expected) <=> network \notin {None, "testnet"}
  BY <1>0 DEF PaymentInput, NetworkClash, None
<1>3. MemoOf(tx) # expected.memo <=> ~ForThisInvoice
  BY <1>0 DEF PaymentInput, MemoOf, ForThisInvoice
<1>4. VerifyHorizonPayment(tx, network, expected) =
        IF network \notin {None, "testnet"} THEN "NETWORK_MISMATCH"
        ELSE IF PaymentOps(tx) = {} THEN "NO_PAYMENT_OPERATION"
        ELSE IF ~ForThisInvoice THEN "MEMO_MISMATCH"
        ELSE IF R = {} THEN "DESTINATION_MISMATCH"
        ELSE IF W = {} THEN "AMOUNT_MISMATCH"
        ELSE IF S = {} THEN "ASSET_MISMATCH"
        ELSE "OK"
  BY <1>0, <1>2, <1>3, ToSellerIsReaching, ChecksNarrow DEF VerifyHorizonPayment
<1>5. /\ R = {} <=> ~\E op \in tx.ops : Reaches(op)
      /\ W = {} <=> ~\E op \in tx.ops : Reaches(op) /\ Within(op)
      /\ S = {} <=> ~\E op \in tx.ops : Reaches(op) /\ Within(op) /\ SameAsset(op)
  BY Zenon
<1> HIDE DEF R, W, S
<1>6. AcceptsExactlyOnePaymentThatMatches
  BY <1>0, <1>1, <1>4, <1>5 DEF AcceptsExactlyOnePaymentThatMatches
<1>7. NamesTheFirstFailure
  BY <1>0, <1>1, <1>4, <1>5 DEF NamesTheFirstFailure
<1> QED BY <1>6, <1>7

(* What is proved of payment verification. *)
LEMMA PaymentFacts ==
  /\ VerifyInit => PaymentInv
  /\ PaymentInv /\ Verify => PaymentInv'
  /\ PaymentInv /\ UNCHANGED <<tx, network, expected, verdict>> => PaymentInv'
  /\ PaymentInv => AcceptsExactlyOnePaymentThatMatches /\ NamesTheFirstFailure
<1>1. ASSUME VerifyInit PROVE PaymentInv
  <2>1. \A op \in Operations : op.to = <<op.to[1], op.to[2]>> /\ op.amount \in Int
    BY DEF Operations, Accounts, None
  <2>2. tx.ops \subseteq Operations
    BY <1>1 DEF VerifyInit, Payments
  <2>3. /\ expected.memo = "m" /\ expected.network = "testnet" /\ expected.amount \in Int
        /\ expected.asset = [code |-> expected.asset.code, issuer |-> expected.asset.issuer]
    BY <1>1 DEF VerifyInit, Expectations
  <2> QED BY <1>1, <2>1, <2>2, <2>3, Zenon DEF PaymentInv, PaymentInput, VerifyInit
<1>2. PaymentInv /\ Verify => PaymentInv'
  BY Zenon DEF PaymentInv, PaymentInput, Verify
<1>3. PaymentInv /\ UNCHANGED <<tx, network, expected, verdict>> => PaymentInv'
  BY Zenon DEF PaymentInv, PaymentInput
<1> QED BY <1>1, <1>2, <1>3, AnyTransactionIsJudgedRight, Zenon
=============================================================================
