------------------------------- MODULE MCOps --------------------------------
(***************************************************************************)
(* Small instances of what operations rest on: the audit store, the search *)
(* projection, its cache and its repairs, degraded mode, retention,        *)
(* resumable repair, retries of failed jobs, the synthetic journey,        *)
(* rollback verification and the health summary; and of the data the       *)
(* backend keeps and gives out: the in-memory store under its cache, the   *)
(* exports and their artifacts, and the listings that are read page by     *)
(* page. They share no state: `part` picks the one a behaviour exercises,  *)
(* and the others stay idle.                                               *)
(***************************************************************************)
EXTENDS TLC

CONSTANTS Entities, Actors, AuditCapacity, MaxRecorded, PageLimit, InvoiceIds, Visibilities,
          Repairers, CacheKeys, Loads, MaxEntries, MaxVersions, StatusCalls, CacheTtl,
          MaxSecond, Watched, ProbeStates, Bills, OldJobs, BatchSize, TableSets, Executors,
          BatchRows, FailedJobs, RetryKeys, RetryCalls, RetryWindow, MaxTick, Journeys,
          MaxRetries, Versions, ExpectedVersion, TableNames, ColumnNames, QueueJobs,
          ScanCap, HeldIds, Memos, Hashes, NoHash, NoId, MaxHeld, CacheEntries, Ttl, Life,
          MaxClock, RowIds, Times, Sellers, PageSize, MaxRecords, Wallets, ExportIds,
          RetentionTime, MaxArtifacts, MaxTombstones, MaxHour, ItemIds, SortKeys,
          CursorScopes, Limit, Width, Moments, EventIds, EventTimes

VARIABLES part, audit, entityIndex, actorIndex, recorded, reader, stored, logged, flawed,
          index, repair, replay, previous, wish, upset, source, entries, load, second,
          override, cache, call, served, rows, sweep, swept, table, saved, exec, broken,
          touched, fault, shared, work, seenKeys, inFlight, retry, requeues, tick, journey,
          synthetic, schema, service, probe, observed, certificate, jobState, overdue,
          errors, check, held, byMemo, memoryCache, clock, made, exportRows, walk,
          artifacts, expiredIds, making, hour, answer, ended, items, hidden, cursor, got,
          steady, reply, records, request, artifact, feed, barred, viewer, place, shown,
          first

\* Each phase of a repair with the rows that may be broken for it.
Scopes == {[rows |-> {1, 2}, phases |-> {"detached_transactions"}],
[rows |-> {1}, phases |-> {"detached_transactions", "orphaned_transactions"}],
[rows |-> {3}, phases |-> {"orphaned_payment_events"}],
[rows |-> {4}, phases |-> {"inconsistent_invoices"}],
[rows |-> {5}, phases |-> {"inconsistent_jobs"}]}

MaxOf == [invoices |-> 1, ops |-> 1, jobs |-> 2]

auditVars == <<audit, entityIndex, actorIndex, recorded, reader>>
searchVars == <<stored, logged, flawed, index, repair, replay, previous, wish, upset>>
cachedVars == <<source, entries, load>>
degradedVars == <<second, override, cache, call, served>>
retentionVars == <<rows, sweep, swept>>
repairsVars == <<table, saved, exec, broken, touched, fault, shared>>
retriesVars == <<work, seenKeys, inFlight, retry, requeues, tick>>
walkVars == <<journey, synthetic>>
rollbackVars == <<schema, service, probe, observed, certificate>>
healthVars == <<jobState, overdue, errors, check>>
memoryVars == <<held, byMemo, memoryCache, clock, made>>
exportVars == <<exportRows, walk>>
downloadVars == <<artifacts, expiredIds, making, hour, answer, ended>>
listingVars == <<items, hidden, cursor, got, steady, reply>>
trendVars == <<records, request, artifact>>
timelineVars == <<feed, barred, viewer, place, shown, first>>

Audit == INSTANCE AuditStore
Projections == INSTANCE Projections
OpsConsole == INSTANCE OpsConsole
Retention == INSTANCE Retention
Repairs == INSTANCE RepairRun
Deployment == INSTANCE Deployment
Memory == INSTANCE MemoryInvoices WITH cache <- memoryCache, Ids <- HeldIds, MaxEntries <-
          MaxHeld
Exports == INSTANCE Exports WITH rows <- exportRows, source <- records
Listings == INSTANCE Listings WITH Scopes <- CursorScopes

Idle == "idle"

vars == <<part, auditVars, searchVars, cachedVars, degradedVars, retentionVars, repairsVars,
        retriesVars, walkVars, rollbackVars, healthVars, memoryVars, exportVars,
        downloadVars, listingVars, trendVars, timelineVars>>

Init ==
    /\ part \in {"audit", "search", "cached", "degraded", "retention", "repairs", "retries",
        "walk", "rollback", "health", "memory", "export", "download", "listing", "trend",
        "timeline"}
    /\ IF part = "audit" THEN Audit!Init
       ELSE audit = Idle /\ entityIndex = Idle /\ actorIndex = Idle /\ recorded = Idle /\ reader = Idle
    /\ IF part = "search" THEN Projections!SearchInit
       ELSE stored = Idle /\ logged = Idle /\ flawed = Idle /\ index = Idle /\ repair = Idle /\ replay =
            Idle /\ previous = Idle /\ wish = Idle /\ upset = Idle
    /\ IF part = "cached" THEN Projections!CacheInit
       ELSE source = Idle /\ entries = Idle /\ load = Idle
    /\ IF part = "degraded" THEN OpsConsole!ModeInit
       ELSE second = Idle /\ override = Idle /\ cache = Idle /\ call = Idle /\ served = Idle
    /\ IF part = "retention" THEN Retention!Init
       ELSE rows = Idle /\ sweep = Idle /\ swept = Idle
    /\ IF part = "repairs" THEN Repairs!Init
       ELSE table = Idle /\ saved = Idle /\ exec = Idle /\ broken = Idle /\ touched = Idle /\ fault =
            Idle /\ shared = Idle
    /\ IF part = "retries" THEN OpsConsole!RetryInit
       ELSE work = Idle /\ seenKeys = Idle /\ inFlight = Idle /\ retry = Idle /\ requeues = Idle /\ tick
            = Idle
    /\ IF part = "walk" THEN Deployment!JourneyInit
       ELSE journey = Idle /\ synthetic = Idle
    /\ IF part = "rollback" THEN Deployment!RollbackInit
       ELSE schema = Idle /\ service = Idle /\ probe = Idle /\ observed = Idle /\ certificate = Idle
    /\ IF part = "health" THEN OpsConsole!HealthInit
       ELSE jobState = Idle /\ overdue = Idle /\ errors = Idle /\ check = Idle
    /\ IF part = "memory" THEN Memory!Init
       ELSE held = Idle /\ byMemo = Idle /\ memoryCache = Idle /\ clock = Idle /\ made = Idle
    /\ IF part = "export" THEN Exports!ExportInit
       ELSE exportRows = Idle /\ walk = Idle
    /\ IF part = "download" THEN Exports!DownloadInit
       ELSE artifacts = Idle /\ expiredIds = Idle /\ making = Idle /\ hour = Idle /\ answer = Idle /\
            ended = Idle
    /\ IF part = "listing" THEN Listings!ListingInit
       ELSE items = Idle /\ hidden = Idle /\ cursor = Idle /\ got = Idle /\ steady = Idle /\ reply =
            Idle
    /\ IF part = "trend" THEN Exports!TrendInit
       ELSE records = Idle /\ request = Idle /\ artifact = Idle
    /\ IF part = "timeline" THEN Listings!TimelineInit
       ELSE feed = Idle /\ barred = Idle /\ viewer = Idle /\ place = Idle /\ shown = Idle /\ first =
            Idle

Next ==
    /\ UNCHANGED part
    /\ part # "audit" => UNCHANGED auditVars
    /\ part # "search" => UNCHANGED searchVars
    /\ part # "cached" => UNCHANGED cachedVars
    /\ part # "degraded" => UNCHANGED degradedVars
    /\ part # "retention" => UNCHANGED retentionVars
    /\ part # "repairs" => UNCHANGED repairsVars
    /\ part # "retries" => UNCHANGED retriesVars
    /\ part # "walk" => UNCHANGED walkVars
    /\ part # "rollback" => UNCHANGED rollbackVars
    /\ part # "health" => UNCHANGED healthVars
    /\ part # "memory" => UNCHANGED memoryVars
    /\ part # "export" => UNCHANGED exportVars
    /\ part # "download" => UNCHANGED downloadVars
    /\ part # "listing" => UNCHANGED listingVars
    /\ part # "trend" => UNCHANGED trendVars
    /\ part # "timeline" => UNCHANGED timelineVars
    /\ \/ part = "audit" /\ Audit!Next
       \/ part = "search" /\ Projections!SearchNext
       \/ part = "cached" /\ Projections!CacheNext
       \/ part = "degraded" /\ OpsConsole!ModeNext
       \/ part = "retention" /\ Retention!Next
       \/ part = "repairs" /\ Repairs!Next
       \/ part = "retries" /\ OpsConsole!RetryNext
       \/ part = "walk" /\ Deployment!JourneyNext
       \/ part = "rollback" /\ Deployment!RollbackNext
       \/ part = "health" /\ OpsConsole!HealthNext
       \/ part = "memory" /\ Memory!Next
       \/ part = "export" /\ Exports!ExportNext
       \/ part = "download" /\ Exports!DownloadNext
       \/ part = "listing" /\ Listings!ListingNext
       \/ part = "trend" /\ Exports!TrendNext
       \/ part = "timeline" /\ Listings!TimelineNext

Spec == Init /\ [][Next]_vars

-----------------------------------------------------------------------------
\* Every component's state has its type.
TypeOK ==
    /\ part = "audit" => Audit!TypeOK
    /\ part = "search" => Projections!SearchTypeOK
    /\ part = "cached" => Projections!CacheTypeOK
    /\ part = "degraded" => OpsConsole!ModeTypeOK
    /\ part = "retention" => Retention!TypeOK
    /\ part = "repairs" => Repairs!TypeOK
    /\ part = "retries" => OpsConsole!RetryTypeOK
    /\ part = "walk" => Deployment!JourneyTypeOK
    /\ part = "rollback" => Deployment!RollbackTypeOK
    /\ part = "health" => OpsConsole!HealthTypeOK
    /\ part = "memory" => Memory!TypeOK
    /\ part = "export" => Exports!ExportTypeOK
    /\ part = "download" => Exports!DownloadTypeOK
    /\ part = "listing" => Listings!ListingTypeOK
    /\ part = "trend" => Exports!TrendTypeOK
    /\ part = "timeline" => Listings!TimelineTypeOK

\* What is kept beside the stored records says the same as they do: the indexes
\* and the hash chain of the audit store, the search index, the cache of
\* projections, and the memo index and read cache of the in-memory store,
\* through evictions, repairs and late loads.
DerivedDataAgrees ==
    /\ part = "audit" => Audit!IndexesAgree /\ Audit!ChainSurvivesEviction /\ Audit!PagingMissesNothing
    /\ part = "search" => Projections!RevokedStaysHidden
    /\ part = "cached" => Projections!NeverOlder /\ Projections!WithinBound
    /\ part = "memory" => Memory!CacheIsStorage /\ Memory!MemoIndexExact /\ Memory!OneInvoicePerHash

\* A step that repairs, remedies, evicts or pages does what it is for and
\* nothing else: a repair converges and keeps the evidence of payments, an
\* eviction takes the oldest, a cursor stays in its scope and a page among what
\* its viewer may see.
RepairsDoNoHarm ==
    [][/\ part = "search" => Projections!SwapIsFaithful /\ Projections!RepairConverges
       /\ part = "repairs" => Repairs!KeepsEvidence
       /\ part = "rollback" => Deployment!RemediationConverges
       /\ part = "memory" => Memory!LeavesPendingOnce
       /\ part = "download" => Exports!QuotaKeepsNewest
       /\ part = "listing" => Listings!OneScopePerListing
       /\ part = "timeline" => Listings!OnlyOwnPublicEvents]_vars

\* Whoever reads an export, a listing or a timeline to its end has all of it,
\* once and in order, or is told that it was cut, though rows come and go
\* between the pages and artifacts expire.
ReadersMissNothing ==
    /\ part = "export" => Exports!NothingCut /\ Exports!TruncatedIsFull /\ Exports!OneOrder
    /\ part = "download" => Exports!OnlyTheOwnerIsTold /\ Exports!AnswerMatchesFate
    /\ part = "listing" => Listings!ListingIsWhole /\ Listings!PageIsAllowed
    /\ part = "timeline" => Listings!TimelineIsWhole
    /\ part = "trend" => Exports!WindowsAddUp /\ Exports!PeriodIsCovered /\ Exports!NoSilentCut

\* What operators are told is so, and what they set off stays in bounds: a
\* completed repair left nothing broken but what it reports, a journey blames
\* its first failure, a rollback is certified only for what was seen, dead jobs
\* are listed and requeued once per key, ok means quiet, a degraded mode is
\* neither old nor wrong, and retention spares what is protected.
OperatorsCanTrust ==
    /\ part = "repairs" => Repairs!CompletedMeansRepaired /\ Repairs!ReportIsHonest
    /\ part = "walk" => Deployment!BlamesFirstFailure
    /\ part = "rollback" => Deployment!CertificateIsEarned
    /\ part = "retries" => OpsConsole!DeadIsListed /\ OpsConsole!OneRequeuePerKey /\ OpsConsole!LockMatchesCalls
    /\ part = "health" => OpsConsole!OkMeansQuiet
    /\ part = "degraded" => OpsConsole!CachedIsRecent /\ OpsConsole!OverridesInForce /\ OpsConsole!NoFalsePositive
    /\ part = "retention" => Retention!ProtectionWins /\ Retention!BlastRadius
=============================================================================
