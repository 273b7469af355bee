-------------------------- MODULE ExternalReference --------------------------
(***************************************************************************)
(* ExternalReferenceVerificationService (services/                          *)
(* external-reference-verification.ts): concurrent calls of                 *)
(* verifyWithRetries for one reference id, each attempt racing its probe    *)
(* against a timer, around one shared record.                               *)
(*                                                                         *)
(* An attempt reads record.attempts before its probe and writes the record  *)
(* after it.  shared is history: a second call was made for the reference.  *)
(***************************************************************************)
EXTENDS Integers, FiniteSets

CONSTANTS
    Callers,
    Inputs,        \* ExternalReferenceInput: well formed, type, expected amount and asset
    MaxAttempts

VARIABLES ref, caller, shared

vars == <<ref, caller, shared>>

NoRef == [status |-> "PENDING", attempts |-> 0, code |-> "none", cause |-> "none",
          amount |-> "none", asset |-> "none", expected |-> "none"]

Init ==
    /\ ref = NoRef
    /\ caller = [c \in Callers |-> [pc |-> "idle", n |-> 0, input |-> CHOOSE i \in Inputs : TRUE, probes |-> 0]]
    /\ shared = FALSE

\* What a source may answer; "bad" is present and not valid.
Good == [object |-> TRUE, status |-> "verified", observed |-> "fresh", ledger |-> "good", amount |-> "a1", asset |-> "s1"]

Responses ==
    {[Good EXCEPT !.object = FALSE]}
    \cup {[Good EXCEPT !.status = s, !.observed = o] :
             s \in {"verified", "pending", "rejected", "bad"}, o \in {"bad", "future", "old", "fresh"}}
    \cup {[Good EXCEPT !.ledger = l, !.amount = a, !.asset = k] :
             l \in {"none", "bad", "good"}, a \in {"none", "bad", "a1", "a2"}, k \in {"none", "bad", "s1", "s2"}}

Malformed == "MALFORMED_SOURCE_RESPONSE"

Rejected == "REFERENCE_REJECTED_BY_SOURCE"

\* validateAndNormalizeProbeOutput: the payload and its time,
JudgeShape(r) ==
    IF ~r.object \/ r.status = "bad" \/ r.observed = "bad" THEN Malformed
    ELSE IF r.observed \in {"future", "old"} THEN "STALE_SOURCE_DATA"
    ELSE IF r.status = "pending" THEN "REFERENCE_PENDING_UPSTREAM"
    ELSE IF r.status = "rejected" THEN Rejected ELSE "ok"

\* then the ledger, the amount and the asset, where they are given.
JudgeSettlement(r, in) ==
    IF r.ledger = "bad" \/ (in.stellar /\ r.ledger = "none") THEN Malformed
    ELSE IF r.amount = "bad" THEN Malformed
    ELSE IF r.amount # "none" /\ in.amount \notin {"none", r.amount} THEN Rejected
    ELSE IF r.asset = "bad" THEN Malformed
    ELSE IF r.asset # "none" /\ in.asset \notin {"none", r.asset} THEN Rejected ELSE "ok"

Judge(r, in) == IF JudgeShape(r) # "ok" THEN JudgeShape(r) ELSE JudgeSettlement(r, in)

\* classifyThrownProbeError, by the code or the wording of what the probe threw.
Classify(thrown) ==
    CASE thrown = "timeout" -> "SOURCE_TIMEOUT"
      [] thrown = "invalid json" -> Malformed
      [] thrown \in {"STALE_SOURCE_DATA", Rejected} -> thrown
      [] OTHER -> "SOURCE_UNREACHABLE"

Transient == {"SOURCE_TIMEOUT", "SOURCE_UNREACHABLE", "REFERENCE_PENDING_UPSTREAM"}

-----------------------------------------------------------------------------
\* Mutant: one attempt more than the limit
BadFailed(n, code) ==
    LET retry == code \in Transient /\ n <= MaxAttempts
        final == IF code \in Transient /\ ~retry THEN "RETRY_EXHAUSTED" ELSE code
    IN [ref EXCEPT !.attempts = n, !.status = IF retry THEN "RETRY_SCHEDULED" ELSE "FAILED_TERMINAL",
                   !.code = final, !.cause = IF final = "RETRY_EXHAUSTED" THEN code ELSE "none"]

\* An attempt failed: scheduled again, or given up.
Failed(n, code) ==
    LET retry == code \in Transient /\ n < MaxAttempts
        final == IF code \in Transient /\ ~retry THEN "RETRY_EXHAUSTED" ELSE code
    IN [ref EXCEPT !.attempts = n, !.status = IF retry THEN "RETRY_SCHEDULED" ELSE "FAILED_TERMINAL",
                   !.code = final, !.cause = IF final = "RETRY_EXHAUSTED" THEN code ELSE "none"]

\* The caller's loop goes on while its attempt left a retry scheduled.
Settle(c, next) ==
    /\ ref' = next
    /\ caller' = [caller EXCEPT ![c].pc = IF next.status = "RETRY_SCHEDULED" THEN "sleeping" ELSE "done",
                                ![c].n = 0]

\* verifyWithRetries, and each round of its loop; the record is made by the
\* first input and kept, and a malformed input fails before any probe.
Attempt(c, in) ==
    LET n == ref.attempts + 1
        made == [ref EXCEPT !.expected = IF @ = "none" /\ ref = NoRef THEN in.amount ELSE @]
    IN /\ caller[c].pc = "idle" \/ (caller[c].pc = "sleeping" /\ in = caller[c].input)
       /\ IF ~in.valid
          THEN /\ ref' = [made EXCEPT !.attempts = n, !.status = "FAILED_TERMINAL",
                                      !.code = "REFERENCE_MALFORMED_INPUT", !.cause = "none"]
               /\ caller' = [caller EXCEPT ![c] = [pc |-> "done", n |-> 0, input |-> in, probes |-> @.probes]]
          ELSE /\ ref' = made
               /\ caller' = [caller EXCEPT ![c] = [pc |-> "probing", n |-> n, input |-> in, probes |-> @.probes + 1]]
       /\ shared' = (shared \/ \E d \in Callers \ {c} : caller[d].pc # "idle")

ProbeAnswers(c, r) ==
    LET in == caller[c].input
        code == Judge(r, in)
    IN /\ caller[c].pc = "probing"
       /\ Settle(c, IF code = "ok"
                    THEN [ref EXCEPT !.attempts = caller[c].n, !.status = "VERIFIED", !.code = "none",
                                     !.cause = "none", !.amount = r.amount, !.asset = r.asset]
                    ELSE Failed(caller[c].n, code))
       /\ UNCHANGED shared

\* The probe throws, or the timer of runWithTimeout fires first; a late answer
\* is dropped.
ProbeThrows(c, thrown) ==
    /\ caller[c].pc = "probing"
    /\ Settle(c, Failed(caller[c].n, Classify(thrown)))
    /\ UNCHANGED shared

Next ==
    \E c \in Callers :
        \/ \E in \in Inputs : Attempt(c, in)
        \/ \E r \in Responses : ProbeAnswers(c, r)
        \/ \E thrown \in {"timeout", "invalid json", "STALE_SOURCE_DATA", Rejected, "refused"} : ProbeThrows(c, thrown)

Spec == Init /\ [][Next]_vars

-----------------------------------------------------------------------------
TypeOK ==
    /\ ref.status \in {"PENDING", "RETRY_SCHEDULED", "VERIFIED", "FAILED_TERMINAL"}
    /\ ref.attempts \in 0..(MaxAttempts * Cardinality(Callers))
    /\ \A c \in Callers : caller[c].pc \in {"idle", "probing", "sleeping", "done"}

\* A record is given up only for a cause that cannot pass or after the last
\* attempt, and one that is scheduled again can still be retried, whatever calls overlap.
GivesUpForAReason ==
    /\ ref.status = "FAILED_TERMINAL"
         => /\ ref.code \notin Transient
            /\ (ref.code = "RETRY_EXHAUSTED" <=> ref.cause \in Transient)
            /\ (ref.code = "RETRY_EXHAUSTED" => ref.attempts >= MaxAttempts)
    /\ ref.status = "RETRY_SCHEDULED" => ref.code \in Transient /\ ref.attempts < MaxAttempts

\* A call that has the reference to itself probes the source at most maxAttempts
\* times; calls that overlap write each other's attempt number back and probe more
\* often, but never more than all of them may together.
RetriesBounded ==
    \A c \in Callers : caller[c].probes <= IF shared THEN MaxAttempts * Cardinality(Callers) ELSE MaxAttempts

\* What a VERIFIED record says was settled is what the record expected, as long
\* as no second call was made.
VerifiedAsExpected ==
    ref.status = "VERIFIED" /\ ~shared => ref.expected = "none" \/ ref.amount \in {"none", ref.expected}
=============================================================================
