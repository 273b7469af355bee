----------------------------- MODULE Deployment -----------------------------
(***************************************************************************)
(* Probes of a deployment: the synthetic journey, and the verification     *)
(* after a rollback.  Two machines that share no state.                    *)
(***************************************************************************)
EXTENDS Integers, Sequences, FiniteSets

(***************************************************************************)
(* ops/synthetic-journey-monitor.ts: a probe that walks a synthetic invoice *)
(* through its life on the live storage and names the first step that       *)
(* failed.  Any call may fail; journeys run beside each other.              *)
(*                                                                         *)
(* steps is the list of step results.  No storage has a deleteInvoice, so   *)
(* the clean-up at the end removes nothing.                                 *)
(***************************************************************************)

CONSTANTS Journeys

VARIABLES journey, synthetic

journeyVars == <<journey, synthetic>>

StepNames == <<"CREATE_INVOICE", "INSPECT_PAYMENT_DETAILS", "VERIFY_STELLAR_PAYMENT",
               "CONFIRM_SETTLEMENT", "DISPATCH_EVENT_AND_RECEIPT">>

Dependency(i) == <<"STORAGE_LAYER", "API_LAYER", "STELLAR_HORIZON", "SETTLEMENT_ENGINE", "EXPORT_ENGINE">>[i]

NoJourney == [pc |-> "idle", steps |-> <<>>, failedStep |-> "none", blamed |-> "none", success |-> FALSE]

JourneyInit ==
    /\ journey = [j \in Journeys |-> NoJourney]
    /\ synthetic = [j \in Journeys |-> "none"]

Begin(j) ==
    /\ journey[j].pc = "idle"
    /\ journey' = [journey EXCEPT ![j].pc = "running"]
    /\ UNCHANGED synthetic

At(j) == Len(journey[j].steps) + 1

\* What a step that passes does to the invoice it created.
Effect(j) ==
    IF At(j) = 1 THEN [synthetic EXCEPT ![j] = "PENDING"]
    ELSE IF At(j) = 4 /\ synthetic[j] = "PENDING" THEN [synthetic EXCEPT ![j] = "PAID"]
    ELSE synthetic

\* What a step checks of it: it is there and PENDING, and it can be settled.
Passes(j) ==
    /\ At(j) = 2 => synthetic[j] = "PENDING"
    /\ At(j) = 4 => synthetic[j] = "PENDING"

Pass(j) ==
    /\ journey[j].pc = "running" /\ Passes(j)
    /\ synthetic' = Effect(j)
    /\ journey' = [journey EXCEPT ![j].steps = Append(@, "PASS"),
                                  ![j].pc = IF At(j) = Len(StepNames) THEN "done" ELSE @,
                                  ![j].success = At(j) = Len(StepNames)]

\* buildReport.  A call may fail before it took effect, or after.
Fail(j) ==
    /\ journey[j].pc = "running"
    /\ synthetic' \in {synthetic} \cup (IF Passes(j) THEN {Effect(j)} ELSE {})
    /\ journey' = [journey EXCEPT ![j].steps = Append(@, "FAIL"), ![j].pc = "done",
                                  ![j].failedStep = StepNames[At(j)], ![j].blamed = Dependency(At(j))]

\* The expiry sweep takes a synthetic invoice for any other.
Expire(j) ==
    /\ synthetic[j] = "PENDING"
    /\ synthetic' = [synthetic EXCEPT ![j] = "EXPIRED"]
    /\ UNCHANGED journey

JourneyNext == \E j \in Journeys : Begin(j) \/ Pass(j) \/ Fail(j) \/ Expire(j)

-----------------------------------------------------------------------------
JourneyTypeOK == \A j \in Journeys : /\ Len(journey[j].steps) <= Len(StepNames)
                              /\ synthetic[j] \in {"none", "PENDING", "PAID", "EXPIRED"}

\* A finished journey tells the truth about the system: it succeeded exactly if
\* every step passed and left its invoice paid, and otherwise it blames the
\* dependency of the one step that failed, all earlier ones having passed.
BlamesFirstFailure ==
    \A j \in Journeys : journey[j].pc = "done" =>
       LET n == Len(journey[j].steps) IN
       /\ \A i \in 1..n - 1 : journey[j].steps[i] = "PASS"
       /\ journey[j].success <=> n = Len(StepNames) /\ journey[j].steps[n] = "PASS"
       /\ journey[j].success => synthetic[j] = "PAID" /\ journey[j].blamed = "none"
       /\ ~journey[j].success => /\ journey[j].steps[n] = "FAIL"
                                 /\ journey[j].failedStep = StepNames[n]
                                 /\ journey[j].blamed = Dependency(n)

-----------------------------------------------------------------------------
(***************************************************************************)
(* ops/rollback-verification.ts: after a rollback the schema is compared    *)
(* with its baseline and the deployment is probed with retries; the report  *)
(* lists the statements that would repair the schema.                       *)
(*                                                                         *)
(* The service may come up, go down or change its version between probes.   *)
(* observed is history: what each attempt met.                              *)
(***************************************************************************)

CONSTANTS
    MaxRetries,     \* options.maxRetries
    Versions, ExpectedVersion,
    TableNames, ColumnNames

VARIABLES schema, service, probe, observed, certificate

rollbackVars == <<schema, service, probe, observed, certificate>>

\* The baseline: its tables and the columns of those it describes.
Baseline == [tables |-> {t \in TableNames : t # "extra"},
             columns |-> (TableNames \ {"extra"}) \X {c \in ColumnNames : c # "new"},
             locked |-> FALSE]

Schemas == {s \in [tables : SUBSET TableNames, columns : SUBSET (TableNames \X ColumnNames), locked : BOOLEAN] :
               \A p \in s.columns : p[1] \in s.tables}

Up == [status : {200}, ready : {200, 503}, version : Versions]

Down == [status |-> 503, ready |-> 503, version |-> "none"]

NoProbe == [attempt |-> 0, at |-> "health", live |-> FALSE, ready |-> FALSE, version |-> "none"]

RollbackInit ==
    /\ schema \in Schemas
    /\ service = Down
    /\ probe = NoProbe
    /\ observed = {}
    /\ certificate = "none"

\* verifySchemaRollback: missing and extraneous tables (views go alike), the
\* columns of the tables that exist, and a lock left behind by a migration.
Missing(s) == [tables |-> Baseline.tables \ s.tables,
               columns |-> {p \in Baseline.columns : p[1] \in s.tables} \ s.columns]

Extraneous(s) == [tables |-> s.tables \ Baseline.tables,
                  columns |-> {p \in s.columns : p[1] \in Baseline.tables} \ Baseline.columns]

SchemaOk(s) ==
    /\ Missing(s).tables = {} /\ Missing(s).columns = {}
    /\ Extraneous(s).tables = {} /\ Extraneous(s).columns = {}
    /\ ~s.locked

\* remediationSql, applied: what is missing restored, the rest dropped, the
\* lock released.  A table restored from the backup has its baseline columns.
Remediated(s) ==
    LET tables == (s.tables \cup Missing(s).tables) \ Extraneous(s).tables
        restored == {p \in Baseline.columns : p[1] \in Missing(s).tables}
    IN [tables |-> tables,
        columns |-> {p \in (s.columns \cup Missing(s).columns \cup restored) \ Extraneous(s).columns : p[1] \in tables},
        locked |-> FALSE]

Remediate ==
    /\ probe.attempt = 0 /\ ~SchemaOk(schema)
    /\ schema' = Remediated(schema)
    /\ UNCHANGED <<service, probe, observed, certificate>>

ServiceChanges(s) ==
    /\ service # s /\ certificate = "none"
    /\ service' = s
    /\ UNCHANGED <<schema, probe, observed, certificate>>

\* verifyDeploymentRollback.  An attempt asks /health, then /ready.  What one
\* attempt found alive or ready stays so; a /ready that cannot be fetched at
\* all counts as 200.  A /health that cannot be fetched ends the attempt.
ProbeHealth(fetched) ==
    LET alive == fetched /\ service.status = 200 IN
    /\ certificate = "none" /\ probe.at = "health" /\ probe.attempt <= MaxRetries
    /\ ~(probe.live /\ probe.ready)
    /\ probe' = [probe EXCEPT !.live = @ \/ alive, !.version = IF alive THEN service.version ELSE @,
                              !.at = IF fetched THEN "ready" ELSE @,
                              !.attempt = IF fetched THEN @ ELSE @ + 1]
    /\ observed' = IF alive THEN {o \in observed : o[1] # "version"} \cup {<<"live", "yes">>, <<"version", service.version>>}
                   ELSE observed
    /\ UNCHANGED <<schema, service, certificate>>

ProbeReady(fetched) ==
    /\ probe.at = "ready"
    /\ probe' = [probe EXCEPT !.ready = @ \/ ~fetched \/ service.ready = 200, !.at = "health", !.attempt = @ + 1]
    /\ observed' = IF ~fetched \/ service.ready = 200 THEN observed \cup {<<"ready", "yes">>} ELSE observed
    /\ UNCHANGED <<schema, service, certificate>>

\* runFullRollbackVerification puts both checks together.
Certify ==
    /\ certificate = "none" /\ probe.at = "health"
    /\ probe.attempt > MaxRetries \/ (probe.live /\ probe.ready)
    /\ certificate' = IF SchemaOk(schema) /\ probe.live /\ probe.ready /\ probe.version = ExpectedVersion
                      THEN "ok" ELSE "failed"
    /\ UNCHANGED <<schema, service, probe, observed>>

RollbackNext ==
    \/ Remediate \/ Certify
    \/ \E s \in Up \cup {Down} : ServiceChanges(s)
    \/ \E fetched \in BOOLEAN : ProbeHealth(fetched) \/ ProbeReady(fetched)

-----------------------------------------------------------------------------
RollbackTypeOK ==
    /\ schema \in Schemas
    /\ probe.attempt \in 0..MaxRetries + 1 /\ probe.at \in {"health", "ready"}
    /\ certificate \in {"none", "ok", "failed"}

\* A certificate is earned: the schema is the baseline's and unlocked, some
\* attempt found the service alive, some attempt ready, and the last answer of
\* /health, not an earlier one, named the version rolled back to.
CertificateIsEarned ==
    certificate = "ok" => /\ schema = Baseline
                          /\ {<<"live", "yes">>, <<"ready", "yes">>, <<"version", ExpectedVersion>>} \subseteq observed

\* The remediation a report proposes is enough: a schema it was applied to once
\* passes the same verification.
RemediationConverges ==
    schema' # schema => SchemaOk(schema')
=============================================================================
