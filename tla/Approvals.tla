----------------------------- MODULE Approvals ------------------------------
(***************************************************************************)
(* High-impact actions of maintainers, and the risk score that may ask for *)
(* a second one.  Two machines that share no state.                        *)
(***************************************************************************)
EXTENDS Integers, Sequences, FiniteSets

(***************************************************************************)
(* ops/maintainer-approval.ts: intents for high-impact actions, approved by *)
(* a second maintainer where the action or its risk asks for one, executed  *)
(* once, and closed by one receipt in a hash chain.                         *)
(*                                                                         *)
(* A receipt names its intent, its outcome and the position of the receipt  *)
(* whose hash it carries.  Signatures verify (nothing outside the service   *)
(* writes the maps).  The risk level is any level here; RiskScoring models  *)
(* how it is computed.  ran counts the executor's completed side effects.   *)
(***************************************************************************)

CONSTANTS
    Maintainers,
    Actions,       \* the actions of HIGH_IMPACT_ACTIONS
    TwoPerson,     \* those with requiresSecondApprover
    MaxIntents,
    IntentTtl,     \* ttlMs
    MaxMinute

VARIABLES minute, intents, receipts, ran

intentVars == <<minute, intents, receipts, ran>>

Nobody == "nobody"

RiskLevels == {"low", "elevated", "high", "critical"}

Ended == {"succeeded", "failed", "rejected", "expired"}

IntentInit ==
    /\ minute = 0
    /\ intents = <<>>
    /\ receipts = <<>>
    /\ ran = <<>>

MinutePasses ==
    /\ minute < MaxMinute /\ minute' = minute + 1
    /\ UNCHANGED <<intents, receipts, ran>>

\* issueReceipt: linked to the last receipt of the chain.
IssueReceipt(n, outcome) ==
    receipts' = Append(receipts, [intent |-> n, outcome |-> outcome, prev |-> Len(receipts)])

SetStatus(n, status) ==
    intents' = [intents EXCEPT ![n].status = status]

\* A critical risk refuses the intent at once, with a receipt.
RequestIntent(m, a, risk) ==
    LET blocked == risk = "critical"
        n == Len(intents) + 1
    IN /\ n <= MaxIntents
       /\ intents' = Append(intents,
             [status |-> IF blocked THEN "rejected" ELSE "pending", by |-> m, approver |-> Nobody,
              action |-> a, risk |-> risk, exp |-> minute + IntentTtl])
       /\ IF blocked THEN IssueReceipt(n, "rejected") ELSE UNCHANGED receipts
       /\ ran' = Append(ran, 0)
       /\ UNCHANGED minute

Open(n) == intents[n].status \in {"pending", "approved"}

Expired(n) == minute >= intents[n].exp

\* load, on the way into approve, reject and execute.
LoadExpires(n) ==
    /\ Open(n) /\ Expired(n)
    /\ SetStatus(n, "expired")
    /\ IssueReceipt(n, "expired")
    /\ UNCHANGED <<minute, ran>>

\* Mutant: the requester may approve their own intent
BadApprove(n, m) ==
    /\ intents[n].status = "pending" /\ ~Expired(n)
    /\ intents' = [intents EXCEPT ![n].status = "approved", ![n].approver = m]
    /\ UNCHANGED <<minute, receipts, ran>>

Approve(n, m) ==
    /\ intents[n].status = "pending" /\ ~Expired(n)
    /\ m # intents[n].by
    /\ intents' = [intents EXCEPT ![n].status = "approved", ![n].approver = m]
    /\ UNCHANGED <<minute, receipts, ran>>

Reject(n) ==
    /\ Open(n) /\ ~Expired(n)
    /\ SetStatus(n, "rejected")
    /\ IssueReceipt(n, "rejected")
    /\ UNCHANGED <<minute, ran>>

NeedsSecondApprover(n) ==
    intents[n].action \in TwoPerson \/ intents[n].risk \in {"high", "critical"}

\* The status flips before the executor is awaited.
Execute(n) ==
    /\ intents[n].status \in (IF NeedsSecondApprover(n) THEN {"approved"} ELSE {"pending", "approved"})
    /\ ~Expired(n)
    /\ SetStatus(n, "executing")
    /\ UNCHANGED <<minute, receipts, ran>>

\* The executor answers.  The success receipt is written inside the same try:
\* a result that JSON cannot express is booked as a failure of the action.
ExecutorReturns(n) ==
    /\ intents[n].status = "executing"
    /\ ran' = [ran EXCEPT ![n] = @ + 1]
    /\ \E serializable \in BOOLEAN :
          LET outcome == IF serializable THEN "succeeded" ELSE "failed" IN
          SetStatus(n, outcome) /\ IssueReceipt(n, outcome)
    /\ UNCHANGED minute

ExecutorThrows(n) ==
    /\ intents[n].status = "executing"
    /\ SetStatus(n, "failed")
    /\ IssueReceipt(n, "failed")
    /\ UNCHANGED <<minute, ran>>

IntentNext ==
    \/ MinutePasses
    \/ \E m \in Maintainers, a \in Actions, risk \in RiskLevels : RequestIntent(m, a, risk)
    \/ \E n \in 1..Len(intents) :
          \/ LoadExpires(n) \/ Reject(n) \/ Execute(n) \/ ExecutorReturns(n) \/ ExecutorThrows(n)
          \/ \E m \in Maintainers : Approve(n, m)

-----------------------------------------------------------------------------
IntentTypeOK ==
    \A n \in 1..Len(intents) :
       /\ intents[n].status \in Ended \cup {"pending", "approved", "executing"}
       /\ intents[n].approver \in Maintainers \cup {Nobody}

\* The action of an intent runs at most once, and never before a different
\* maintainer approved it where the action or its risk demands two people.
RunsOnceWithConsent ==
    \A n \in 1..Len(intents) :
       /\ ran[n] <= 1
       /\ (ran[n] = 1 \/ intents[n].status = "executing") /\ NeedsSecondApprover(n)
             => intents[n].approver \notin {Nobody, intents[n].by}

\* The receipts tell the whole story: an ended intent has exactly one receipt,
\* an open one none, it carries the intent's outcome, each links to the one
\* before it, and only an action that ran is receipted as succeeded.
OneReceiptPerEnd ==
    /\ \A n \in 1..Len(intents) :
          LET own == {i \in 1..Len(receipts) : receipts[i].intent = n} IN
          /\ Cardinality(own) = IF intents[n].status \in Ended THEN 1 ELSE 0
          /\ \A i \in own : /\ receipts[i].outcome = intents[n].status
                            /\ receipts[i].outcome = "succeeded" => ran[n] = 1
    /\ \A i \in 1..Len(receipts) : receipts[i].prev = i - 1

-----------------------------------------------------------------------------
(***************************************************************************)
(* ops/risk-scoring.ts: three counters over a sliding window (intents by    *)
(* requester, intents by target, failures by requester), bounded per key,   *)
(* and the score computed from them, for one requester and one target.      *)
(* attempts and mishaps are the true histories the bounded queues stand for.*)
(***************************************************************************)

CONSTANTS
    RiskWindow,     \* windowMs
    MaxEvents,      \* maxEventsPerKey
    MaxHistory, MaxMishaps, MaxTick

VARIABLES tick, byTarget, failures, attempts, mishaps

riskVars == <<tick, byTarget, failures, attempts, mishaps>>

BASELINE == [singleApprover |-> 10, twoPerson |-> 25]
VELOCITY == [allowance |-> 5, perEvent |-> 10, cap |-> 40]
REPETITION == [allowance |-> 1, perEvent |-> 15, cap |-> 30]
FAILURES == [allowance |-> 0, perEvent |-> 10, cap |-> 30]

Least(a, b) == IF a < b THEN a ELSE b

WeightFor(observed, rule) ==
    IF observed <= rule.allowance THEN 0
    ELSE Least(rule.cap, (observed - rule.allowance) * rule.perEvent)

RiskLevelFor(score) ==
    IF score >= 80 THEN "critical"
    ELSE IF score >= 50 THEN "high"
    ELSE IF score >= 30 THEN "elevated"
    ELSE "low"

\* The score of an intent with so many earlier intents by its requester, on
\* its target, and failures of its requester.
Score(twoPerson, requester, target, failed) ==
    Least(100, (IF twoPerson THEN BASELINE.twoPerson ELSE BASELINE.singleApprover)
               + WeightFor(requester, VELOCITY) + WeightFor(target, REPETITION)
               + WeightFor(failed, FAILURES))

Assess(twoPerson, requester, target, failed) ==
    LET level == RiskLevelFor(Score(twoPerson, requester, target, failed)) IN
    [level |-> level,
     requiresSecondApprover |-> level \in {"high", "critical"},
     blocked |-> level = "critical"]

RiskInit ==
    /\ tick = 0
    /\ byTarget = <<>> /\ failures = <<>>
    /\ attempts = <<>> /\ mishaps = <<>>

TickPasses ==
    /\ tick < MaxTick /\ tick' = tick + 1
    /\ UNCHANGED <<byTarget, failures, attempts, mishaps>>

\* WindowedCounter.prune: while the first event is at or before the cutoff, it is
\* shifted out.
Prune(queue) ==
    LET old == {i \in 1..Len(queue) : \A j \in 1..i : queue[j] <= tick - RiskWindow}
    IN SubSeq(queue, Cardinality(old) + 1, Len(queue))

\* WindowedCounter.record: at the bound the oldest event goes.
Record(queue) ==
    LET longer == Append(Prune(queue), tick) IN
    IF Len(longer) > MaxEvents THEN Tail(longer) ELSE longer

\* recordIntent; byRequester holds the same times as byTarget here.
RecordIntent ==
    /\ Len(attempts) < MaxHistory
    /\ byTarget' = Record(byTarget) /\ attempts' = Append(attempts, tick)
    /\ UNCHANGED <<tick, failures, mishaps>>

RecordFailure ==
    /\ Len(mishaps) < Len(attempts) /\ Len(mishaps) < MaxMishaps
    /\ failures' = Record(failures) /\ mishaps' = Append(mishaps, tick)
    /\ UNCHANGED <<tick, byTarget, attempts>>

\* sweep prunes every key.
Sweep ==
    /\ <<Prune(byTarget), Prune(failures)>> # <<byTarget, failures>>
    /\ byTarget' = Prune(byTarget) /\ failures' = Prune(failures)
    /\ UNCHANGED <<tick, attempts, mishaps>>

RiskNext == TickPasses \/ RecordIntent \/ RecordFailure \/ Sweep

-----------------------------------------------------------------------------
RiskTypeOK == Len(byTarget) <= MaxEvents /\ Len(failures) <= MaxEvents

\* "Weights saturate long before the cap, so dropping the oldest is lossless
\* for scoring": what assess computes from the bounded queues is what the whole
\* history of the window would give.
DroppingIsLossless ==
    \A twoPerson \in BOOLEAN :
       Assess(twoPerson, Len(Prune(byTarget)), Len(Prune(byTarget)), Len(Prune(failures)))
       = Assess(twoPerson, Len(Prune(attempts)), Len(Prune(attempts)), Len(Prune(mishaps)))

\* The score of a two-person action now.
ScoreNow == Score(TRUE, Len(Prune(byTarget)), Len(Prune(byTarget)), Len(Prune(failures)))

\* A requester's score falls only because time passes: recording an event never
\* lowers it, also where a full queue drops its oldest, and sweeping changes nothing.
FallsOnlyWithTime ==
    tick' = tick => ScoreNow' >= ScoreNow

\* What a deployment configures.
RiskConstants == RiskWindow \in Nat \ {0} /\ MaxEvents \in Nat \ {0}

\* The inductive invariant behind it: events are queued in the order they happened.
Ordered(queue) ==
    /\ queue \in Seq(0..tick)
    /\ \A i, j \in 1..Len(queue) : i < j => queue[i] <= queue[j]

RiskInv == tick \in Nat /\ Ordered(byTarget) /\ Ordered(failures)
=============================================================================
