---------------------------- MODULE Projections -----------------------------
(***************************************************************************)
(* What is derived from stored invoices: the search index with its repair  *)
(* and replay, and the cache of projections.  Two machines that share no   *)
(* state.                                                                  *)
(***************************************************************************)
EXTENDS Integers, Sequences, FiniteSets, SequencesExt

(***************************************************************************)
(* The search index (services/search-index.service.ts), the detector and    *)
(* repair of stale projections (ops/stale-projections.service.ts) and the   *)
(* rebuild from the audit trail (ops/projection-replay.ts), beside the      *)
(* invoice storage they are derived from.                                   *)
(*                                                                         *)
(* logged is the status of an invoice's last audit event, which replay      *)
(* folds to; flawed says the trail was truncated or cannot be projected.    *)
(* A record's amount and asset never change, so only its status drifts.     *)
(* Reading the storage is a step of its own: what it returned may be old    *)
(* when it is used.  wish is history, the visibility an operator last set;  *)
(* upset holds the ids whose wish an overlapping run may have thrown away.  *)
(***************************************************************************)

CONSTANTS
    InvoiceIds,
    Visibilities,    \* VisibilityLevel, with "INTERNAL" and "REVOKED"
    Repairers        \* concurrent calls of repair

VARIABLES stored, logged, flawed, index, repair, replay, previous, wish, upset

searchVars == <<stored, logged, flawed, index, repair, replay, previous, wish, upset>>

Absent == "absent"

NoRecord == [status |-> Absent, vis |-> "INTERNAL", deleted |-> FALSE]

NoIndex == [i \in InvoiceIds |-> NoRecord]

Nothing == [i \in InvoiceIds |-> Absent]

IdleReplay == [pc |-> "idle", shadow |-> NoIndex, live |-> NoIndex, read |-> Nothing,
               flawed |-> FALSE]

SearchInit ==
    /\ stored = Nothing /\ logged = Nothing /\ flawed = FALSE
    /\ index = NoIndex
    /\ repair = [r \in Repairers |-> [pc |-> "idle", read |-> Nothing]]
    /\ replay = IdleReplay
    /\ previous = [set |-> FALSE, records |-> NoIndex]
    /\ wish = [i \in InvoiceIds |-> "INTERNAL"]
    /\ upset = {}

In(ix, i) == ix[i].status # Absent

\* search as ADMIN with an empty query.
Visible(ix) == {i \in InvoiceIds : In(ix, i) /\ ~ix[i].deleted /\ ix[i].vis # "REVOKED"}

\* indexInvoice keeps the visibility of a record it replaces.
IndexInvoice(ix, i, status) ==
    [ix EXCEPT ![i] = [status |-> status, vis |-> IF In(ix, i) THEN ix[i].vis ELSE "INTERNAL",
                       deleted |-> FALSE]]

-----------------------------------------------------------------------------
\* The storage and its audit trail.  An event follows its write; expiry has none.
Write(i, from, to) ==
    /\ stored[i] = from
    /\ stored' = [stored EXCEPT ![i] = to]
    /\ UNCHANGED <<logged, flawed, index, repair, replay, previous, wish, upset>>

LogEvent(i) ==
    /\ stored[i] \notin {Absent, "EXPIRED"} /\ logged[i] # stored[i]
    /\ logged' = [logged EXCEPT ![i] = stored[i]]
    /\ UNCHANGED <<stored, flawed, index, repair, replay, previous, wish, upset>>

EventLost ==
    /\ ~flawed /\ flawed' = TRUE
    /\ UNCHANGED <<stored, logged, index, repair, replay, previous, wish, upset>>

-----------------------------------------------------------------------------
\* Operators.
SetVisibility(i, v) ==
    /\ In(index, i) /\ index[i].vis # v
    /\ index' = [index EXCEPT ![i].vis = v]
    /\ wish' = [wish EXCEPT ![i] = v]
    /\ upset' = IF replay.pc # "idle" \/ previous.set THEN upset \cup {i} ELSE upset \ {i}
    /\ UNCHANGED <<stored, logged, flawed, repair, replay, previous>>

RemoveIndexRecord(i) ==
    /\ In(index, i) /\ ~index[i].deleted
    /\ index' = [index EXCEPT ![i].deleted = TRUE]
    /\ UNCHANGED <<stored, logged, flawed, repair, replay, previous, wish, upset>>

\* detect: orphans, drift and missing records, among what is visible.
Anomalies(ix, truth) ==
    {i \in Visible(ix) : truth[i] # ix[i].status} \cup {i \in InvoiceIds \ Visible(ix) : truth[i] # Absent}

-----------------------------------------------------------------------------
RepairRead(r) ==
    /\ repair[r].pc = "idle"
    /\ repair' = [repair EXCEPT ![r] = [pc |-> "read", read |-> stored]]
    /\ UNCHANGED <<stored, logged, flawed, index, replay, previous, wish, upset>>

\* Mutant: orphans stay in the index
BadRepaired(ix, truth) ==
    [i \in InvoiceIds |->
        IF truth[i] = Absent THEN ix[i]
        ELSE IF In(ix, i) THEN ix[i]
        ELSE IndexInvoice(ix, i, truth[i])[i]]

\* repairStaleIndex: orphans go, statuses follow, what is missing comes in.
Repaired(ix, truth) ==
    [i \in InvoiceIds |->
        IF truth[i] = Absent THEN NoRecord
        ELSE IF In(ix, i) THEN [ix[i] EXCEPT !.status = truth[i]]
        ELSE IndexInvoice(ix, i, truth[i])[i]]

RepairApply(r) ==
    LET next == Repaired(index, repair[r].read) IN
    /\ repair[r].pc = "read"
    /\ index' = next
    /\ upset' = upset \cup {i \in InvoiceIds : In(index, i) /\ ~In(next, i)}
    /\ repair' = [repair EXCEPT ![r] = [pc |-> "idle", read |-> Nothing]]
    /\ UNCHANGED <<stored, logged, flawed, replay, previous, wish>>

-----------------------------------------------------------------------------
\* replay: events and live visibilities are read at once, the storage twice after.
ReplayStart ==
    /\ replay.pc = "idle"
    /\ replay' = [pc |-> "started", live |-> index, read |-> Nothing, flawed |-> flawed,
          shadow |-> [i \in InvoiceIds |-> IF logged[i] = Absent THEN NoRecord
             ELSE [status |-> logged[i], deleted |-> FALSE,
                   vis |-> IF In(index, i) THEN index[i].vis ELSE "INTERNAL"]]]
    /\ UNCHANGED <<stored, logged, flawed, index, repair, previous, wish, upset>>

\* The expiries that no event tells.
ReplayExpiries ==
    /\ replay.pc = "started"
    /\ replay' = [replay EXCEPT !.pc = "expired", !.shadow = [i \in InvoiceIds |->
          IF stored[i] = "EXPIRED" /\ replay.shadow[i].status = "PENDING"
          THEN IndexInvoice(replay.shadow, i, "EXPIRED")[i] ELSE replay.shadow[i]]]
    /\ UNCHANGED <<stored, logged, flawed, index, repair, previous, wish, upset>>

ReplayVerify ==
    /\ replay.pc = "expired"
    /\ replay' = [replay EXCEPT !.pc = "verified", !.read = stored]
    /\ UNCHANGED <<stored, logged, flawed, index, repair, previous, wish, upset>>

Refused == replay.flawed \/ Anomalies(replay.shadow, replay.read) # {}

ReplayFinish(dryRun) ==
    /\ replay.pc = "verified"
    /\ IF dryRun \/ Refused THEN UNCHANGED <<index, previous>>
       ELSE /\ index' = replay.shadow
            /\ previous' = [set |-> TRUE, records |-> replay.live]
    /\ replay' = IdleReplay
    /\ UNCHANGED <<stored, logged, flawed, repair, wish, upset>>

Rollback ==
    /\ previous.set
    /\ index' = previous.records
    /\ previous' = [set |-> FALSE, records |-> NoIndex]
    /\ UNCHANGED <<stored, logged, flawed, repair, replay, wish, upset>>

SearchNext ==
    \/ \E i \in InvoiceIds :
          \/ Write(i, Absent, "PENDING") \/ Write(i, "PENDING", "PAID") \/ Write(i, "PENDING", "EXPIRED")
          \/ LogEvent(i) \/ RemoveIndexRecord(i)
          \/ \E v \in Visibilities : SetVisibility(i, v)
    \/ EventLost
    \/ \E r \in Repairers : RepairRead(r) \/ RepairApply(r)
    \/ \E dryRun \in BOOLEAN : ReplayFinish(dryRun)
    \/ ReplayStart \/ ReplayExpiries \/ ReplayVerify \/ Rollback

-----------------------------------------------------------------------------
SearchTypeOK ==
    /\ \A i \in InvoiceIds : index[i].vis \in Visibilities
    /\ replay.pc \in {"idle", "started", "expired", "verified"}
    /\ upset \subseteq InvoiceIds

\* A record an operator revoked stays out of every search, through repairs and
\* replays, unless it was dropped by a repair that worked from an older read, or
\* its visibility was set while a replay ran or one could still be rolled back.
RevokedStaysHidden ==
    \A i \in InvoiceIds \ upset : wish[i] = "REVOKED" => i \notin Visible(index)

\* "A log that cannot reproduce the projection is reported, never swapped in":
\* the index a replay leaves says of every invoice what the storage said when it
\* was verified, and hides none.
SwapIsFaithful ==
    replay.pc = "verified" /\ index' # index /\ replay'.pc = "idle"
      => ~replay.flawed /\ \A i \in InvoiceIds : index'[i].status = replay.read[i]

\* A repair that worked from the current storage leaves no orphan, no drift and
\* no gap; what detect still reports are records hidden on purpose.
RepairConverges ==
    \A r \in Repairers : repair[r].pc = "read" /\ repair'[r].pc = "idle" /\ repair[r].read = stored
      => /\ \A i \in InvoiceIds : index'[i].status = stored[i]
         /\ Anomalies(index', stored)
              = {i \in InvoiceIds : In(index, i) /\ stored[i] # Absent
                                    /\ (index[i].deleted \/ index[i].vis = "REVOKED")}

-----------------------------------------------------------------------------
(***************************************************************************)
(* BoundedProjectionCache (ops/stale-projections.service.ts): entries are   *)
(* valid for one version of their source, the least recently used goes      *)
(* first, and getOrLoad waits for a loader while the source moves on.       *)
(*                                                                         *)
(* entries is the Map in insertion order.  A value is the version of the    *)
(* source the loader read.  got is history: a call's answer.                *)
(***************************************************************************)

CONSTANTS
    CacheKeys, Loads,
    MaxEntries,     \* maxEntries
    MaxVersions

VARIABLES source, entries, load

cacheVars == <<source, entries, load>>

IdleLoad == [pc |-> "idle", key |-> "none", asked |-> 0, value |-> 0, got |-> 0]

CacheInit ==
    /\ source = [k \in CacheKeys |-> 1]
    /\ entries = <<>>
    /\ load = [l \in Loads |-> IdleLoad]

Without(k) == SelectSeq(entries, LAMBDA e : e.key # k)

Holds(k) == \E i \in 1..Len(entries) : entries[i].key = k

EntryOf(k) == CHOOSE e \in ToSet(entries) : e.key = k

SourceChanges(k) ==
    /\ source[k] < MaxVersions
    /\ source' = [source EXCEPT ![k] = @ + 1]
    /\ UNCHANGED <<entries, load>>

\* get at the version the caller holds: a hit moves to the end, a mismatch goes.
Get(l, k) ==
    LET hit == Holds(k) /\ EntryOf(k).version = source[k] IN
    /\ load[l].pc = "idle"
    /\ entries' = IF hit THEN Append(Without(k), EntryOf(k)) ELSE Without(k)
    /\ load' = [load EXCEPT ![l] =
                  IF hit THEN [IdleLoad EXCEPT !.asked = source[k], !.got = EntryOf(k).value]
                  ELSE [pc |-> "load", key |-> k, asked |-> source[k], value |-> 0, got |-> 0]]
    /\ UNCHANGED source

LoaderReads(l) ==
    /\ load[l].pc = "load"
    /\ load' = [load EXCEPT ![l].pc = "set", ![l].value = source[load[l].key]]
    /\ UNCHANGED <<source, entries>>

\* set: under the version asked for, which may be older than the value.
Set(l) ==
    LET k == load[l].key
        room == IF Holds(k) \/ Len(entries) < MaxEntries THEN Without(k) ELSE Tail(entries)
    IN /\ load[l].pc = "set"
       /\ entries' = Append(room, [key |-> k, version |-> load[l].asked, value |-> load[l].value])
       /\ load' = [load EXCEPT ![l] = [IdleLoad EXCEPT !.asked = load[l].asked, !.got = load[l].value]]
       /\ UNCHANGED source

Invalidate(k) ==
    /\ Holds(k) /\ entries' = Without(k)
    /\ UNCHANGED <<source, load>>

CacheNext ==
    \/ \E k \in CacheKeys : SourceChanges(k) \/ Invalidate(k) \/ \E l \in Loads : Get(l, k)
    \/ \E l \in Loads : LoaderReads(l) \/ Set(l)

-----------------------------------------------------------------------------
CacheTypeOK == \A l \in Loads : load[l].pc \in {"idle", "load", "set"}

\* A stale entry is never served: whoever asks at a version gets a value at
\* least that new, although slow loaders overwrite the entries of faster ones.
NeverOlder ==
    \A l \in Loads : load[l].pc = "idle" => load[l].got >= load[l].asked

\* The cache keeps to its bound and holds a key once.
WithinBound ==
    /\ Len(entries) <= MaxEntries
    /\ \A i, j \in 1..Len(entries) : entries[i].key = entries[j].key => i = j
=============================================================================
