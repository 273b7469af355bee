------------------------------ MODULE Exports -------------------------------
(***************************************************************************)
(* What the backend gives out: the pages of an invoice export, the         *)
(* artifacts of finished ones, and trend exports.  Three machines that     *)
(* share no state.                                                         *)
(***************************************************************************)
EXTENDS Integers, Sequences, FiniteSets, Bags, BagsExt, SequencesExt

(***************************************************************************)
(* The page loop of an invoice export (exports/export-service.ts) and the   *)
(* keyset order it walks (storage/invoice-cursor.ts, getInvoicesBySeller),   *)
(* while invoices are created, imported with an older date, settled and     *)
(* deleted between two pages.                                               *)
(*                                                                         *)
(* Ids stand for uuids in their order.  walk.steady is history: the ids of  *)
(* the requester's invoices that matched the filter from the first page on. *)
(***************************************************************************)

CONSTANTS
    RowIds,          \* naturals
    Times,           \* createdAt, naturals
    Sellers,
    PageSize, MaxRecords

VARIABLES rows, walk

exportVars == <<rows, walk>>

NoCursor == [at |-> -1, id |-> -1]

Idle == [pc |-> "idle", seller |-> "", status |-> "any", from |-> 0, after |-> NoCursor,
         seen |-> {}, records |-> <<>>, truncated |-> FALSE, steady |-> {}]

ExportInit ==
    /\ rows = {}
    /\ walk = Idle

\* compareNewestFirst(a, b) < 0.
Before(a, b) == a.at > b.at \/ (a.at = b.at /\ a.id > b.id)

IsAfterCursor(row, cursor) == cursor = NoCursor \/ Before(cursor, row)

\* The first PageSize rows past the cursor, newest first.
GetInvoicesBySeller(seller, status, after) ==
    LET found == {r \in rows : r.seller = seller /\ status \in {"any", r.status} /\ IsAfterCursor(r, after)}
        ordered == SetToSortSeq(found, Before)
    IN SubSeq(ordered, 1, Min({PageSize, Len(ordered)}))

Wanted(r, w) == r.seller = w.seller /\ w.status \in {"any", r.status} /\ r.at >= w.from

-----------------------------------------------------------------------------
\* create: another wallet's scope was refused before.
Start(seller, status, from) ==
    /\ walk.pc = "idle"
    /\ walk' = [Idle EXCEPT !.pc = "paging", !.seller = seller, !.status = status, !.from = from,
                  !.steady = {r.id : r \in {x \in rows : Wanted(x, [seller |-> seller, status |-> status, from |-> from])}}]
    /\ UNCHANGED rows

\* The for loop over a page: seen ids and rows out of range are passed over, the
\* first row beyond MaxRecords marks the export truncated and ends it.
Take(w, row) ==
    IF w.truncated \/ row.id \in w.seen THEN w
    ELSE LET s == [w EXCEPT !.seen = @ \cup {row.id}]
         IN IF row.seller # w.seller \/ row.at < w.from THEN s
            ELSE IF Len(w.records) >= MaxRecords THEN [s EXCEPT !.truncated = TRUE]
            ELSE [s EXCEPT !.records = Append(@, row)]

\* One page: the abort signal is read before and after it.
Page ==
    LET page == GetInvoicesBySeller(walk.seller, walk.status, walk.after)
        next == FoldLeft(Take, walk, page)
        cursor == IF page = <<>> THEN walk.after ELSE [at |-> Last(page).at, id |-> Last(page).id]
        over == next.truncated \/ Len(page) < PageSize \/ next.seen = walk.seen
    IN /\ walk.pc = "paging"
       /\ walk' = [next EXCEPT !.after = cursor, !.pc = IF over THEN "stored" ELSE "paging"]
       /\ UNCHANGED rows

\* A disconnect or the deadline: ExportCancelledError, nothing is stored.
Abort ==
    /\ walk.pc = "paging"
    /\ walk' = Idle
    /\ UNCHANGED rows

Answered ==
    /\ walk.pc = "stored"
    /\ walk' = Idle
    /\ UNCHANGED rows

-----------------------------------------------------------------------------
\* The invoices change beside the export.
Steady(next) == [walk EXCEPT !.steady = @ \cap {r.id : r \in {x \in next : Wanted(x, walk)}}]

Insert(i, at, seller) ==
    /\ walk.pc # "stored" /\ i \notin {r.id : r \in rows} \cup walk.seen
    /\ rows' = rows \cup {[id |-> i, at |-> at, seller |-> seller, status |-> "PENDING"]}
    /\ UNCHANGED walk

Settle(i) ==
    /\ walk.pc # "stored"
    /\ \E r \in rows : /\ r.id = i /\ r.status = "PENDING"
                       /\ rows' = (rows \ {r}) \cup {[r EXCEPT !.status = "PAID"]}
    /\ walk' = Steady(rows')

Delete(i) ==
    /\ walk.pc # "stored"
    /\ \E r \in rows : r.id = i /\ rows' = rows \ {r}
    /\ walk' = Steady(rows')

ExportNext ==
    \/ \E s \in Sellers, status \in {"any", "PENDING"}, from \in Times : Start(s, status, from)
    \/ Page \/ Abort \/ Answered
    \/ \E i \in RowIds : Settle(i) \/ Delete(i) \/ \E at \in Times, s \in Sellers : Insert(i, at, s)

-----------------------------------------------------------------------------
ExportTypeOK ==
    /\ \A r \in rows : r.id \in RowIds /\ r.at \in Times
    /\ walk.pc \in {"idle", "paging", "stored"}
    /\ Len(walk.records) <= MaxRecords

Recorded == {walk.records[k].id : k \in 1..Len(walk.records)}

\* "nothing is silently cut": an export that does not say truncated holds every
\* invoice of the requester that matched the filters during the whole run, even
\* though others were inserted, settled and deleted between its pages.
NothingCut ==
    walk.pc = "stored" /\ ~walk.truncated => walk.steady \subseteq Recorded

\* A truncated export is full, and it holds the newest of those invoices.
TruncatedIsFull ==
    walk.pc = "stored" /\ walk.truncated =>
       /\ Len(walk.records) = MaxRecords
       /\ \A i \in walk.steady \ Recorded : \A r \in rows : r.id = i => Before(Last(walk.records), r)

\* The file is in one order, newest first, without an invoice twice or of
\* another wallet, although every page was read at another time.
OneOrder ==
    \A k \in 1..Len(walk.records) :
        /\ walk.records[k].seller = walk.seller
        /\ k > 1 => Before(walk.records[k - 1], walk.records[k])

-----------------------------------------------------------------------------
(***************************************************************************)
(* The generated exports of ExportService (exports/export-service.ts) and   *)
(* their routes (routes/export.routes.ts): retention, the quota of each     *)
(* requester, and what a download is answered.  Several exports are made at *)
(* once; each purges when it starts and is stored when its pages are read.  *)
(*                                                                         *)
(* artifacts and expiredIds are the Maps in insertion order.  answer is the *)
(* last download; ended says whose each export was and what became of it.   *)
(***************************************************************************)

CONSTANTS
    Wallets, ExportIds,
    RetentionTime, MaxArtifacts, MaxTombstones,
    MaxHour          \* bound on the clock

VARIABLES artifacts, expiredIds, making, hour, answer, ended

downloadVars == <<artifacts, expiredIds, making, hour, answer, ended>>

NoAnswer == [state |-> "none", who |-> "", id |-> ""]

DownloadInit ==
    /\ artifacts = <<>> /\ expiredIds = <<>>
    /\ making = [w \in Wallets |-> {}]
    /\ hour = 0
    /\ answer = NoAnswer
    /\ ended = [e \in ExportIds |-> [fate |-> "unused", owner |-> ""]]

Expired(a) == a.expiresAt <= hour

\* The tombstones of the newest deletions are kept.
PurgeExpired ==
    LET gone == SelectSeq(artifacts, Expired)
        tombs == expiredIds \o gone
    IN [left |-> SelectSeq(artifacts, LAMBDA a : ~Expired(a)),
        tombs |-> SubSeq(tombs, 1 + (IF Len(tombs) > MaxTombstones THEN Len(tombs) - MaxTombstones ELSE 0), Len(tombs)),
        gone |-> {gone[k].id : k \in 1..Len(gone)}]

Fated(ids, fate) == [e \in ExportIds |-> IF e \in ids THEN [ended[e] EXCEPT !.fate = fate] ELSE ended[e]]

\* POST /exports: create purges, then reads its pages.
Begin(w, e) ==
    LET p == PurgeExpired
    IN /\ ended[e].fate = "unused"
       /\ making' = [making EXCEPT ![w] = @ \cup {e}]
       /\ artifacts' = p.left /\ expiredIds' = p.tombs
       /\ ended' = [Fated(p.gone, "expired") EXCEPT ![e] = [fate |-> "making", owner |-> w]]
       /\ answer' = NoAnswer
       /\ UNCHANGED hour

\* enforceQuota deletes the owner's oldest artifacts and leaves no tombstone.
EnforceQuota(all, w) ==
    LET mine == SelectSeq(all, LAMBDA a : a.owner = w)
        extra == IF Len(mine) > MaxArtifacts THEN Len(mine) - MaxArtifacts ELSE 0
        old == {mine[k].id : k \in 1..extra}
    IN [left |-> SelectSeq(all, LAMBDA a : a.id \notin old), old |-> old]

Finish(w, e) ==
    LET q == EnforceQuota(Append(artifacts, [id |-> e, owner |-> w, expiresAt |-> hour + RetentionTime]), w)
    IN /\ e \in making[w]
       /\ making' = [making EXCEPT ![w] = @ \ {e}]
       /\ artifacts' = q.left
       /\ ended' = [Fated(q.old, "dropped") EXCEPT ![e].fate = "stored"]
       /\ answer' = NoAnswer
       /\ UNCHANGED <<expiredIds, hour>>

\* The deadline passed or the client went: nothing was stored.
Cancel(w, e) ==
    /\ e \in making[w]
    /\ making' = [making EXCEPT ![w] = @ \ {e}]
    /\ ended' = [ended EXCEPT ![e].fate = "cancelled"]
    /\ answer' = NoAnswer
    /\ UNCHANGED <<artifacts, expiredIds, hour>>

\* GET /exports/:id: 200, 410 or 404.
Get(w, e) ==
    LET p == PurgeExpired
        has(s, x) == \E k \in 1..Len(s) : s[k].id = e /\ (x => s[k].owner = w)
    IN /\ ended[e].fate # "unused"
       /\ artifacts' = p.left /\ expiredIds' = p.tombs /\ ended' = Fated(p.gone, "expired")
       /\ answer' = [who |-> w, id |-> e,
             state |-> IF has(p.left, TRUE) THEN "ok"
                       ELSE IF ~has(p.left, FALSE) /\ has(p.tombs, TRUE) THEN "expired"
                       ELSE "not_found"]
       /\ UNCHANGED <<making, hour>>

Tick ==
    /\ hour < MaxHour /\ hour' = hour + 1
    /\ answer' = NoAnswer
    /\ UNCHANGED <<artifacts, expiredIds, making, ended>>

DownloadNext ==
    \/ \E w \in Wallets, e \in ExportIds : Begin(w, e) \/ Finish(w, e) \/ Cancel(w, e) \/ Get(w, e)
    \/ Tick

-----------------------------------------------------------------------------
DownloadTypeOK ==
    /\ Len(expiredIds) <= MaxTombstones
    /\ answer.state \in {"none", "ok", "expired", "not_found"}
    /\ \A w \in Wallets : making[w] \subseteq ExportIds

\* "another wallet's artifact id looks like it does not exist": a wallet is told
\* of an export, or of its expiry, only when the export is its own.
OnlyTheOwnerIsTold ==
    answer.state \in {"ok", "expired"} => answer.who = ended[answer.id].owner

\* A download never gets an export past its retention, a partial one or one that
\* was cancelled, and 410 is said only of exports that reached their expiry.
AnswerMatchesFate ==
    /\ answer.state = "ok" => /\ ended[answer.id].fate = "stored"
                              /\ \E k \in 1..Len(artifacts) : artifacts[k].id = answer.id /\ ~Expired(artifacts[k])
    /\ answer.state = "expired" => ended[answer.id].fate = "expired"

\* However many exports of a wallet run at once, it keeps at most MaxArtifacts,
\* and one is dropped before its time only while the ones that stay are no older.
QuotaKeepsNewest ==
    \A w \in Wallets :
       LET mine == SelectSeq(artifacts', LAMBDA a : a.owner = w)
       IN /\ Len(mine) <= MaxArtifacts
          /\ \A k \in 1..Len(artifacts) :
                artifacts[k].owner = w /\ ended'[artifacts[k].id].fate = "dropped"
                  => \A n \in 1..Len(mine) : mine[n].expiresAt >= artifacts[k].expiresAt

-----------------------------------------------------------------------------
(***************************************************************************)
(* The historical trend export (exports/trend-export.ts): invoices, logged  *)
(* operations and jobs of a period are counted into windows and totals,     *)
(* with a cap on the records read and one on the windows returned.          *)
(*                                                                         *)
(* Time is an integer, a window Width long.  A source record is its time    *)
(* and its kind; what it adds to an accumulator is a bag of metrics.  A     *)
(* flaw is the first thing wrong with the request, if any.                  *)
(***************************************************************************)

CONSTANTS
    Width,       \* of a window
    Moments,     \* times of records and bounds
    MaxOf        \* longest list of each source

VARIABLES source, request, artifact

trendVars == <<source, request, artifact>>

Unbounded == -1

Kinds == [invoices |-> {"PAID", "overdue"}, ops |-> {"success", "failure"}, jobs |-> {"succeeded", "dead"}]

Lists(of) == UNION {[1..n -> [at : Moments, kind : Kinds[of]]] : n \in 0..MaxOf[of]}

Flaws == {"none", "no actor", "role", "granularity", "format", "range", "dimension", "caps"}

\* JobStore.list answers newest first.
NewestFirst(jobs) == \A i, j \in DOMAIN jobs : i < j => jobs[i].at >= jobs[j].at

NoArtifact == [state |-> "none", error |-> "none", totals |-> EmptyBag, buckets |-> <<>>, reasons |-> {}]

TrendInit ==
    /\ \E inv \in Lists("invoices"), ops \in Lists("ops"), jobs \in {j \in Lists("jobs") : NewestFirst(j)} :
          source = [invoices |-> inv, ops |-> ops, jobs |-> jobs]
    /\ \E from, to \in Moments \cup {Unbounded}, fill \in BOOLEAN, maxBuckets, maxRecords \in 1..2, flaw \in Flaws :
          /\ from = Unbounded \/ to = Unbounded \/ from <= to
          /\ flaw # "none" => Len(source.invoices) = 0 /\ Len(source.ops) = 0 /\ from = Unbounded
          /\ request = [from |-> from, to |-> to, fill |-> fill, maxBuckets |-> maxBuckets,
                        maxRecords |-> maxRecords, flaw |-> flaw]
    /\ artifact = NoArtifact

\* floorToWindowStart.
Floor(t) == (t \div Width) * Width

\* toStroops, the status and latency counters, failures, retries and breaches.
Metrics(kind) ==
    CASE kind = "PAID" -> SetToBag({"created", "paid", "settled volume"})
      [] kind = "overdue" -> SetToBag({"created", "pending", "breach"})
      [] kind = "success" -> SetToBag({"operation", "operation succeeded"})
      [] kind = "failure" -> SetToBag({"operation", "operation failed"})
      [] kind = "succeeded" -> SetToBag({"job succeeded"})
      [] kind = "dead" -> SetToBag({"job dead", "breach"})

InRange(t) == (request.from # Unbounded => t >= request.from) /\ (request.to # Unbounded => t <= request.to)

\* validateAndAuthorizeRequest: nothing is read for a request that is refused.
Refuse ==
    /\ artifact.state = "none" /\ request.flaw # "none"
    /\ artifact' = [NoArtifact EXCEPT !.state = "refused",
          !.error = IF request.flaw \in {"no actor", "role"} THEN "TREND_EXPORT_FORBIDDEN"
                    ELSE IF request.flaw = "dimension" THEN "SENSITIVE_DIMENSION_FORBIDDEN"
                    ELSE "INVALID_TREND_EXPORT_REQUEST"]
    /\ UNCHANGED <<source, request>>

\* exportTrends asks the job store for no more jobs than it may count.
Read(of) ==
    IF of = "jobs" THEN SubSeq(source.jobs, 1, IF Len(source.jobs) < request.maxRecords
                                               THEN Len(source.jobs) ELSE request.maxRecords)
    ELSE source[of]

\* One source after another: a record in range is counted until the cap, and the
\* first one beyond it sets the flag and ends its list.
Counted(room, list) ==
    LET fit == SelectSeq(list, LAMBDA r : InRange(r.at)) IN
    [records |-> SubSeq(fit, 1, IF Len(fit) < room THEN Len(fit) ELSE room), cut |-> Len(fit) > room]

Aggregate ==
    LET inv == Counted(request.maxRecords, Read("invoices"))
        ops == Counted(request.maxRecords - Len(inv.records), Read("ops"))
        jobs == Counted(request.maxRecords - Len(inv.records) - Len(ops.records), Read("jobs"))
    IN [records |-> inv.records \o ops.records \o jobs.records, cut |-> inv.cut \/ ops.cut \/ jobs.cut]

\* fillEmptyBuckets walks from the first window, at most maxBuckets + 1 times.
Filled ==
    IF ~request.fill \/ request.from = Unbounded \/ request.to = Unbounded THEN {}
    ELSE {w \in {Floor(request.from) + i * Width : i \in 0..request.maxBuckets} : w <= request.to}

SumOf(records) == FoldLeft(LAMBDA b, r : b (+) Metrics(r.kind), EmptyBag, records)

\* generateHistoricalTrendExport.
Generate ==
    LET all == Aggregate
        starts == SetToSortSeq({Floor(all.records[i].at) : i \in DOMAIN all.records} \cup Filled, <)
        kept == SubSeq(starts, 1, IF Len(starts) < request.maxBuckets THEN Len(starts) ELSE request.maxBuckets)
    IN /\ artifact.state = "none" /\ request.flaw = "none"
       /\ artifact' = [state |-> "made", error |-> "none", totals |-> SumOf(all.records),
             buckets |-> [i \in DOMAIN kept |->
                [start |-> kept[i],
                 metrics |-> SumOf(SelectSeq(all.records, LAMBDA r : Floor(r.at) = kept[i]))]],
             reasons |-> (IF all.cut THEN {"MAX_SOURCE_RECORDS_REACHED"} ELSE {})
                         \cup (IF Len(starts) > request.maxBuckets THEN {"MAX_BUCKETS_REACHED"} ELSE {})]
       /\ UNCHANGED <<source, request>>

TrendNext == Generate \/ Refuse

-----------------------------------------------------------------------------
TrendTypeOK == artifact.state \in {"none", "refused", "made"} /\ Len(artifact.buckets) <= request.maxBuckets

Made == artifact.state = "made"

\* The windows add up to the totals unless windows were cut and that is said, and
\* they come in order, none twice.
WindowsAddUp ==
    Made =>
       /\ "MAX_BUCKETS_REACHED" \notin artifact.reasons =>
             FoldLeft(LAMBDA b, w : b (+) w.metrics, EmptyBag, artifact.buckets) = artifact.totals
       /\ \A i, j \in DOMAIN artifact.buckets : i < j => artifact.buckets[i].start < artifact.buckets[j].start

\* A filled export has a window for every moment of its period, or says it was cut.
PeriodIsCovered ==
    Made /\ request.fill /\ Unbounded \notin {request.from, request.to}
         /\ "MAX_BUCKETS_REACHED" \notin artifact.reasons =>
       \A t \in request.from..request.to : \E i \in DOMAIN artifact.buckets : artifact.buckets[i].start = Floor(t)

All == source.invoices \o source.ops \o source.jobs

\* An export that does not say it stopped early counts every record of its
\* period, as long as the job store held no more jobs than were asked for.
NoSilentCut ==
    Made /\ Len(source.jobs) <= request.maxRecords /\ "MAX_SOURCE_RECORDS_REACHED" \notin artifact.reasons =>
       artifact.totals = SumOf(SelectSeq(All, LAMBDA r : InRange(r.at)))
=============================================================================
