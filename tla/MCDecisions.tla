---------------------------- MODULE MCDecisions -----------------------------
(***************************************************************************)
(* Small instances of the components that decide: whether a transaction    *)
(* pays an invoice, what the queue admits, what an import file and a row   *)
(* of it may be and what a run of it changes, what the checks of a         *)
(* restored database conclude, what a schema migration has to do, how      *)
(* edits merge, how events replay, what a change of policy or of           *)
(* permissions would do, which change of state is lawful, when a workflow  *)
(* is late, how an error is answered and what becomes of an external       *)
(* reference. They share no state: `part` picks the one a behaviour        *)
(* exercises, and the others stay idle.                                    *)
(***************************************************************************)
EXTENDS Backpressure, PaymentVerification, TLC

CONSTANTS TextLength, CellLength, MaxCells, Keys, Values, Events, NoKey, PolicyIds, DaysCap,
          Granted, Taken, DiffAmounts, DiffAssets, Holders, People, Reserve, Opening, Flows,
          MaxTime, Clients, MaxAttempts, Jobs, MaxId, MaxDay, MaxVersion, Bills, BillLife,
          RestoreTime, Runners

VARIABLES part, tx, network, expected, verdict, row, rowVerdict, source, text, parsed,
          header, widths, outcome, base, server, client, options, merge, batch, resource,
          seen, trace, stored, workflow, current, proposal, pages, dry, sim, error, answer,
          ask, report, balance, fees, owner, nominee, signer, role, lifecycle, domain, sla,
          time, sink, ref, caller, shared, importStored, evidence, importJob, day, alone,
          lastId, billRows, txs, events, queueJob, restoreIndex, tables, restoreTime,
          damage, restoreVerdict, snapshot, unproved, cols, indexes, views, nulls, twins,
          runner, before

\* The events of a replay: every action, with and without a key and a version, and a
\* settlement that is dropped or not authorised.
EventKinds ==
{k \in [action : {"SETTLE_PAYMENT", "CANCEL_INVOICE", "UPDATE_FIELD"}, key : {NoKey, "k"}, expects : {0, 1},
role : {"OWNER", "UNAUTHORIZED"}, dropped : BOOLEAN] :
k.dropped \/ k.role = "UNAUTHORIZED"
=> k.action = "SETTLE_PAYMENT" /\ k.key = "k" /\ (k.dropped => k.role = "OWNER")}

Policy(a, b, c, d, e) ==
[minAmount |-> a, maxAmount |-> b, minDays |-> c, maxDays |-> d, default |-> e, assets |-> {}]

CurrentPolicies ==
{Policy(1, 3, 1, 3, 2), Policy(1, 3, 1, 2, 2), [Policy(1, 3, 1, 3, 2) EXCEPT !.assets = {"XLM", "USDC"}]}

Unchanged == [minAmount |-> -1, maxAmount |-> -1, minDays |-> -1, maxDays |-> -1, default |-> -1,
assets |-> {"unset"}, retries |-> -1, perSeller |-> -1]

\* One field at a time, legal and not, and two together.
Proposals ==
{Unchanged, [Unchanged EXCEPT !.minAmount = 2], [Unchanged EXCEPT !.minAmount = 4],
[Unchanged EXCEPT !.minAmount = 0], [Unchanged EXCEPT !.maxAmount = 2], [Unchanged EXCEPT !.maxDays = 2],
[Unchanged EXCEPT !.minDays = 2], [Unchanged EXCEPT !.default = 3], [Unchanged EXCEPT !.maxDays = 5],
[Unchanged EXCEPT !.assets = {"XLM"}], [Unchanged EXCEPT !.assets = {}], [Unchanged EXCEPT !.retries = 2],
[Unchanged EXCEPT !.perSeller = 1], [Unchanged EXCEPT !.maxAmount = 2, !.retries = 2]}

Shape(a, c, d, s, w) == [amount |-> a, asset |-> c, days |-> d, status |-> s, seller |-> w]

Shapes == {Shape(1, "XLM", 1, "PENDING", "s"), Shape(3, "USDC", 3, "PENDING", "s"),
Shape(3, "XLM", 2, "PENDING", "t"), Shape(1, "USDC", 3, "PAID", "t"), Shape(3, "USDC", 1, "PENDING", "s")}

Tenant == [ann |-> "t1", bob |-> "t1", eve |-> "t2"]

FirstRole == [ann |-> "OWNER", bob |-> "VIEWER", eve |-> "ADMIN"]

Policies == [PENDING_PAYMENT |-> [due |-> 2, step |-> 1, max |-> 3],
PENDING_ESCALATION_REVIEW |-> [due |-> 1, step |-> 2, max |-> 1]]

Input(v, s, a, k) == [valid |-> v, stellar |-> s, amount |-> a, asset |-> k]

Inputs == {Input(TRUE, TRUE, "a1", "s1"), Input(TRUE, FALSE, "a2", "none"), Input(FALSE, FALSE, "none", "none")}

FileRow(k, t, n, e, v) == [key |-> k, terms |-> t, note |-> n, expiry |-> e, valid |-> v]

\* Import files: creates, updates of both fields, other terms, a repeated key, no
\* key, an expiry counted from today and a row that does not validate.
Files == {<<FileRow("a", 1, "n1", "fixed", TRUE), FileRow("b", 1, "n1", "omitted", TRUE)>>,
<<FileRow("b", 1, "n2", "fixed", TRUE), FileRow("a", 1, "n2", "omitted", TRUE)>>,
<<FileRow("a", 2, "omitted", "omitted", TRUE)>>,
<<FileRow("a", 1, "n1", "days", TRUE), FileRow("a", 1, "n2", "omitted", TRUE)>>,
<<FileRow("a", 1, "omitted", "days", TRUE), FileRow(NoKey, 1, "n1", "fixed", TRUE)>>,
<<FileRow("b", 1, "n1", "fixed", FALSE)>>}

paymentVars == <<tx, network, expected, verdict>>
rowVars == <<row, rowVerdict>>
csvVars == <<source, text, parsed>>
fileVars == <<header, widths, outcome>>
mergingVars == <<base, server, client, options, merge>>
replayVars == <<batch, resource, seen, trace>>
previewVars == <<stored, workflow, current, proposal, pages, dry, sim>>
errorsVars == <<error, answer>>
diffVars == <<ask, report>>
gateVars == <<balance, fees, owner, nominee, signer, role, lifecycle, domain>>
deadlineVars == <<sla, time, sink>>
referenceVars == <<ref, caller, shared>>
importVars == <<importStored, evidence, importJob, day, alone, lastId>>
restoreVars == <<billRows, txs, events, queueJob, restoreIndex, tables, restoreTime, damage, restoreVerdict, snapshot, unproved>>
schemaVars == <<cols, indexes, views, nulls, twins, runner, before>>

Payment == INSTANCE MCPaymentVerification
ImportFormat == INSTANCE ImportFormat WITH verdict <- rowVerdict
Edits == INSTANCE Edits WITH Kinds <- EventKinds
Previews == INSTANCE Previews WITH Ids <- PolicyIds, Assets <- DiffAssets
Errors == INSTANCE ErrorCatalog
DomainRules == INSTANCE DomainRules WITH Accounts <- Holders
Reference == INSTANCE ExternalReference WITH Callers <- Clients
Import == INSTANCE ImportRun WITH job <- importJob, stored <- importStored
Database == INSTANCE Database WITH verdict <- restoreVerdict, time <- restoreTime, index <-
            restoreIndex, MaxTime <- RestoreTime, Life <- BillLife, rows <- billRows, job <-
            queueJob

Idle == "idle"

decisionsVars == <<part, vars, paymentVars, rowVars, csvVars, fileVars, mergingVars,
        replayVars, previewVars, errorsVars, diffVars, gateVars, deadlineVars,
        referenceVars, importVars, restoreVars, schemaVars>>

DecisionsInit ==
    /\ part \in {"admission", "payment", "row", "csv", "file", "merging", "replay", "preview",
        "errors", "diff", "gate", "deadline", "reference", "import", "restore", "schema"}
    /\ Init
    /\ IF part = "payment" THEN Payment!VerifyInit
       ELSE tx = Idle /\ network = Idle /\ expected = Idle /\ verdict = Idle
    /\ IF part = "row" THEN ImportFormat!RowInit
       ELSE row = Idle /\ rowVerdict = Idle
    /\ IF part = "csv" THEN ImportFormat!CsvInit
       ELSE source = Idle /\ text = Idle /\ parsed = Idle
    /\ IF part = "file" THEN ImportFormat!FileInit
       ELSE header = Idle /\ widths = Idle /\ outcome = Idle
    /\ IF part = "merging" THEN Edits!MergeInit
       ELSE base = Idle /\ server = Idle /\ client = Idle /\ options = Idle /\ merge = Idle
    /\ IF part = "replay" THEN Edits!EventInit
       ELSE batch = Idle /\ resource = Idle /\ seen = Idle /\ trace = Idle
    /\ IF part = "preview" THEN Previews!PolicyInit
       ELSE stored = Idle /\ workflow = Idle /\ current = Idle /\ proposal = Idle /\ pages = Idle /\ dry
            = Idle /\ sim = Idle
    /\ IF part = "errors" THEN Errors!Init
       ELSE error = Idle /\ answer = Idle
    /\ IF part = "diff" THEN Previews!DiffInit
       ELSE ask = Idle /\ report = Idle
    /\ IF part = "gate" THEN DomainRules!GateInit
       ELSE balance = Idle /\ fees = Idle /\ owner = Idle /\ nominee = Idle /\ signer = Idle /\ role =
            Idle /\ lifecycle = Idle /\ domain = Idle
    /\ IF part = "deadline" THEN DomainRules!SlaInit
       ELSE sla = Idle /\ time = Idle /\ sink = Idle
    /\ IF part = "reference" THEN Reference!Init
       ELSE ref = Idle /\ caller = Idle /\ shared = Idle
    /\ IF part = "import" THEN Import!Init
       ELSE importStored = Idle /\ evidence = Idle /\ importJob = Idle /\ day = Idle /\ alone = Idle /\
            lastId = Idle
    /\ IF part = "restore" THEN Database!RestoreInit
       ELSE billRows = Idle /\ txs = Idle /\ events = Idle /\ queueJob = Idle /\ restoreIndex = Idle /\
            tables = Idle /\ restoreTime = Idle /\ damage = Idle /\ restoreVerdict = Idle /\
            snapshot = Idle /\ unproved = Idle
    /\ IF part = "schema" THEN Database!SchemaInit
       ELSE cols = Idle /\ indexes = Idle /\ views = Idle /\ nulls = Idle /\ twins = Idle /\ runner =
            Idle /\ before = Idle

DecisionsNext ==
    /\ UNCHANGED part
    /\ part # "admission" => UNCHANGED vars
    /\ part # "payment" => UNCHANGED paymentVars
    /\ part # "row" => UNCHANGED rowVars
    /\ part # "csv" => UNCHANGED csvVars
    /\ part # "file" => UNCHANGED fileVars
    /\ part # "merging" => UNCHANGED mergingVars
    /\ part # "replay" => UNCHANGED replayVars
    /\ part # "preview" => UNCHANGED previewVars
    /\ part # "errors" => UNCHANGED errorsVars
    /\ part # "diff" => UNCHANGED diffVars
    /\ part # "gate" => UNCHANGED gateVars
    /\ part # "deadline" => UNCHANGED deadlineVars
    /\ part # "reference" => UNCHANGED referenceVars
    /\ part # "import" => UNCHANGED importVars
    /\ part # "restore" => UNCHANGED restoreVars
    /\ part # "schema" => UNCHANGED schemaVars
    /\ \/ part = "admission" /\ Next
       \/ part = "payment" /\ Payment!Verify
       \/ part = "row" /\ ImportFormat!RowNext
       \/ part = "csv" /\ ImportFormat!CsvNext
       \/ part = "file" /\ ImportFormat!FileNext
       \/ part = "merging" /\ Edits!MergeNext
       \/ part = "replay" /\ Edits!EventNext
       \/ part = "preview" /\ Previews!PolicyNext
       \/ part = "errors" /\ Errors!Next
       \/ part = "diff" /\ Previews!DiffNext
       \/ part = "gate" /\ DomainRules!GateNext
       \/ part = "deadline" /\ DomainRules!SlaNext
       \/ part = "reference" /\ Reference!Next
       \/ part = "import" /\ Import!Next
       \/ part = "restore" /\ Database!RestoreNext
       \/ part = "schema" /\ Database!SchemaNext

DecisionsSpec == DecisionsInit /\ [][DecisionsNext]_decisionsVars

-----------------------------------------------------------------------------
\* Every component's state has its type.
TypesOK ==
    /\ TypeOK
    /\ part = "row" => ImportFormat!RowTypeOK
    /\ part = "csv" => ImportFormat!CsvTypeOK
    /\ part = "file" => ImportFormat!FileTypeOK
    /\ part = "merging" => Edits!MergeTypeOK
    /\ part = "replay" => Edits!EventTypeOK
    /\ part = "preview" => Previews!PolicyTypeOK
    /\ part = "errors" => Errors!TypeOK
    /\ part = "diff" => Previews!DiffTypeOK
    /\ part = "gate" => DomainRules!GateTypeOK
    /\ part = "deadline" => DomainRules!SlaTypeOK
    /\ part = "reference" => Reference!TypeOK
    /\ part = "import" => Import!TypeOK
    /\ part = "restore" => Database!RestoreTypeOK
    /\ part = "schema" => Database!SchemaTypeOK

\* A transaction is accepted exactly when one payment operation of it has the
\* invoice's destination, amount and asset and its memo and network are right;
\* a refused one is answered with the first check that failed.
VerdictIsRight == part = "payment" => Payment!AcceptsExactlyOnePaymentThatMatches /\ Payment!NamesTheFirstFailure

\* An import is judged by what it says, however it is written: exported cells
\* read back, every record counts, both encodings are judged alike, what is
\* valid the API would accept too; and a second import of a file changes
\* nothing, a rollback deletes no invoice with evidence of payment.
ImportsAreSafe ==
    /\ part = "row" => ImportFormat!ValidIsApiValid /\ ImportFormat!AbsentMeansEmpty
    /\ part = "csv" => ImportFormat!ExportReadsBack /\ ImportFormat!BreaksSeparate
    /\ part = "file" => ImportFormat!NothingSlipsIn /\ ImportFormat!EncodingsAgree
    /\ part = "import" => Import!ReimportIsNoOp /\ Import!EvidenceKeepsItsInvoice

\* A step never takes back what was settled: an import leaves the terms of
\* payment, a rollback restores, a migration does what its preview listed,
\* ownership passes by consent, terminal states are funded and stay, and
\* escalations only rise until the workflow starts over.
StepsKeepFaith ==
    [][/\ part = "import" => Import!TermsStand /\ Import!RollbackRestores
       /\ part = "schema" => Database!PreviewIsExact
       /\ part = "gate" => DomainRules!HandoffIsConsented /\ DomainRules!TerminalIsFunded
       /\ part = "deadline" => DomainRules!LevelsOnlyRise /\ DomainRules!ResolvedStays]_decisionsVars

\* Concurrent edits lose nothing: a merge keeps every edit of one side and
\* commutes where the edits are disjoint, STRICT refuses exactly the
\* collisions, and of events with one key or one base version at most one takes
\* effect in any order.
EditsSurvive ==
    /\ part = "merging" => Edits!NoEditLost /\ Edits!StrictRefusesCollisions /\ Edits!DisjointEditsCommute
    /\ part = "replay" => Edits!OnceForEachKey /\ Edits!OneWriterPerVersion /\ Edits!LockedClientsSettleOnce

\* A preview tells all that a change would do: it lists every affected invoice
\* once, both previews of a policy agree where today's rules are kept, and no
\* high grant or breaking change goes unnamed.
PreviewsTellAll ==
    /\ part = "preview" => Previews!PreviewListsAllAffected /\ Previews!PreviewsAgree /\ Previews!ValidatorsAgree
    /\ part = "diff" => Previews!HighGrantsNeedQuorum /\ Previews!NoOneGrantsMoreThanTheyHold /\ Previews!UnbreakingKeepsInvoices

\* A database that passes its verification is whole and one the backend wrote
\* passes it, what could not be checked is not called healthy, the two
\* verifications agree, and a migration that reports success has converged.
VerificationVouches ==
    /\ part = "restore" => Database!BackendDataPasses /\ Database!PassVouchesForSettlements /\ Database!UnknownIsNotHealthy /\ Database!VerificationsAgree /\ Database!VerifiedViewsMatch
    /\ part = "schema" => Database!SuccessMeansConverged

\* An error's answer and its explanation agree and refusals name permission,
\* accepted transfers conserve value and no chain of grants lifts anyone above
\* the ceiling, the trail of a workflow tells its state, and a reference is
\* given up for a reason, within its attempts.
RulesAnswerTruly ==
    /\ part = "errors" => Errors!BothViewsAgree /\ Errors!RefusalsNamePermission /\ Errors!UnforeseenIsOpaque
    /\ part = "gate" => DomainRules!ValueConserved /\ DomainRules!NoOneAboveTheCeiling
    /\ part = "deadline" => DomainRules!TrailTellsTheState
    /\ part = "reference" => Reference!GivesUpForAReason /\ Reference!RetriesBounded /\ Reference!VerifiedAsExpected
=============================================================================
