------------------------------ MODULE OnceOnly ------------------------------
(***************************************************************************)
(* What keeps an effect from happening twice: checkpoints of side effects, *)
(* the replay store in front of the webhooks, and the idempotent handling  *)
(* of a webhook.  Three machines that share no state.                      *)
(***************************************************************************)
EXTENDS Integers, Sequences, FiniteSets

(***************************************************************************)
(* runWithCheckpoint (recovery/side-effect-checkpoint.ts): runs of one      *)
(* side effect under one key, the retries and restarts of a caller,         *)
(* against the checkpoint row of that key.  A run reads its clock, claims   *)
(* the row, performs the effect and records how it ended; it may be slow at *)
(* every step and may die at every step.                                    *)
(*                                                                         *)
(* row[by] is the stored result: the run whose result a retry gets back.    *)
(* The error text, the effect's name and createdAt decide nothing and are   *)
(* left out.  effects and slow are history: the runs whose perform()        *)
(* succeeded, and the runs that outlived StaleAfter unnoticed: they claimed  *)
(* that long after the clock reading their claim is stamped with, or their   *)
(* claim was taken over and they were still to perform when reconcile, their *)
(* own or another run's, found nothing.                                      *)
(***************************************************************************)

CONSTANTS
    Runs,        \* calls of runWithCheckpoint for the key
    Prints,      \* request fingerprints
    Asks,        \* the runs whose options carry a reconcile function
    StaleAfter,  \* staleAfterMs, in ticks
    MaxClock     \* bound on the clock

VARIABLES clock, store, row, run, effects, slow

checkpointVars == <<clock, store, row, run, effects, slow>>

Nobody == "nobody"

NoRow == [state |-> "none", fp |-> Nobody, attempt |-> 0, at |-> 0, by |-> Nobody]

Idle == [pc |-> "idle", fp |-> Nobody, now |-> 0, attempt |-> 0, prior |-> "none"]

Ended == {"returned", "replayed", "key_reused", "in_doubt", "in_progress",
          "failed", "crashed"}

CheckpointInit ==
    /\ clock = 0
    /\ store \in {"memory", "postgres"}
    /\ row = NoRow
    /\ run = [r \in Runs |-> Idle]
    /\ effects = {}
    /\ slow = {}

CheckpointTick ==
    /\ clock < MaxClock
    /\ clock' = clock + 1
    /\ UNCHANGED <<store, row, run, effects, slow>>

Goto(r, pc) == run' = [run EXCEPT ![r].pc = pc]

\* A run that is over keeps only its outcome.
End(r, out) == run' = [run EXCEPT ![r] = [Idle EXCEPT !.pc = out]]

\* The clock is read before the claim is sent: it dates the claim and decides
\* which other claims are stale.
Start(r) ==
    /\ run[r].pc = "idle"
    /\ \E fp \in Prints :
          run' = [run EXCEPT ![r] = [Idle EXCEPT !.pc = "claim", !.fp = fp, !.now = clock]]
    /\ UNCHANGED <<clock, store, row, effects, slow>>

Stale(r) == row.state = "started" /\ row.at < run[r].now - StaleAfter

\* Mutant: a succeeded row may be claimed again
BadMayClaim(r) ==
    \/ row.state = "none"
    \/ row.fp = run[r].fp /\ (row.state \in {"failed", "succeeded"} \/ Stale(r))

MayClaim(r) ==
    \/ row.state = "none"
    \/ row.fp = run[r].fp /\ (row.state = "failed" \/ Stale(r))

\* The claimed row, and the run that now holds it: a claim taken over from a
\* `started` row asks reconcile first or ends in doubt, any other performs.
TakeRow(r, recovered) ==
    /\ row' = [state |-> "started", fp |-> run[r].fp, attempt |-> row.attempt + 1,
               at |-> run[r].now, by |-> Nobody]
    /\ run' = [run EXCEPT ![r].attempt = row.attempt + 1, ![r].prior = "none",
                          ![r].pc = IF ~recovered THEN "perform"
                                    ELSE IF r \in Asks THEN "reconcile" ELSE "doubt"]
    /\ slow' = IF clock > run[r].now + StaleAfter THEN slow \cup {r} ELSE slow

\* What a caller is told about the row it could not claim.
Answer(r) ==
    IF row.fp # run[r].fp THEN "key_reused"
    ELSE IF row.state = "succeeded" THEN "replayed"
    ELSE IF row.state = "in_doubt" THEN "in_doubt"
    ELSE "in_progress"

\* MemoryCheckpointStore.claim: one uninterrupted step.
ClaimMemory(r) ==
    /\ store = "memory"
    /\ run[r].pc = "claim"
    /\ \/ MayClaim(r) /\ TakeRow(r, row.state = "started")
       \/ ~MayClaim(r) /\ End(r, Answer(r)) /\ UNCHANGED <<row, slow>>
    /\ UNCHANGED <<clock, store, effects>>

\* PostgresCheckpointStore.claim: the statement's snapshot (what `prior`
\* reads), then the upsert on the latest version of the row, then, when the
\* upsert touched nothing, a second statement that reads the row.
ClaimSnapshot(r) ==
    /\ store = "postgres"
    /\ run[r].pc = "claim"
    /\ run' = [run EXCEPT ![r].pc = "upsert", ![r].prior = row.state]
    /\ UNCHANGED <<clock, store, row, effects, slow>>

ClaimUpsert(r) ==
    /\ run[r].pc = "upsert"
    /\ \/ MayClaim(r) /\ TakeRow(r, run[r].prior = "started")
       \/ /\ ~MayClaim(r)
          /\ run' = [run EXCEPT ![r].pc = "reread", ![r].prior = "none"]
          /\ UNCHANGED <<row, slow>>
    /\ UNCHANGED <<clock, store, effects>>

ClaimReread(r) ==
    /\ run[r].pc = "reread"
    /\ End(r, Answer(r))
    /\ UNCHANGED <<clock, store, row, effects, slow>>

\* settle writes only for the attempt that holds the row, while it is started.
Settled(r, state) ==
    IF row.attempt = run[r].attempt /\ row.state = "started"
    THEN [row EXCEPT !.state = state, !.at = clock,
                     !.by = IF state = "succeeded" THEN r ELSE Nobody]
    ELSE row

\* No reconcile: the taken-over claim is put in doubt and the call throws.
PutInDoubt(r) ==
    /\ run[r].pc = "doubt"
    /\ row' = Settled(r, "in_doubt")
    /\ End(r, "in_doubt")
    /\ UNCHANGED <<clock, store, effects, slow>>

\* The runs whose claim was taken over before they performed.
Overtaken == {s \in Runs : run[s].pc \in {"reconcile", "perform"} /\ run[s].attempt < row.attempt}

\* reconcile looks the effect up: it may find it, find nothing, or throw.
Reconcile(r) ==
    /\ run[r].pc = "reconcile"
    /\ \/ effects # {} /\ Goto(r, "found")
          /\ slow' = slow
       \/ effects = {} /\ Goto(r, "perform")
          /\ slow' = slow \cup Overtaken
       \/ End(r, "failed") /\ slow' = slow
    /\ UNCHANGED <<clock, store, row, effects>>

RecordFound(r) ==
    /\ run[r].pc = "found"
    /\ row' = Settled(r, "succeeded")
    /\ End(r, "returned")
    /\ UNCHANGED <<clock, store, effects, slow>>

\* The effect itself: it happens, or perform() throws.
Perform(r) ==
    /\ run[r].pc = "perform"
    /\ \/ effects' = effects \cup {r} /\ Goto(r, "succeed")
       \/ effects' = effects /\ Goto(r, "fail")
    /\ UNCHANGED <<clock, store, row, slow>>

\* The outcome is recorded; a store error here is logged and swallowed.
Record(r) ==
    /\ run[r].pc \in {"succeed", "fail"}
    /\ row' \in {row, Settled(r, IF run[r].pc = "succeed" THEN "succeeded" ELSE "failed")}
    /\ End(r, IF run[r].pc = "succeed" THEN "returned" ELSE "failed")
    /\ UNCHANGED <<clock, store, effects, slow>>

\* The process of a run dies; what it had written stays.
Crash(r) ==
    /\ run[r].pc \notin Ended \cup {"idle"}
    /\ End(r, "crashed")
    /\ UNCHANGED <<clock, store, row, effects, slow>>

CheckpointNext ==
    \/ CheckpointTick
    \/ \E r \in Runs :
          \/ Start(r) \/ ClaimMemory(r)
          \/ ClaimSnapshot(r) \/ ClaimUpsert(r) \/ ClaimReread(r)
          \/ PutInDoubt(r) \/ Reconcile(r) \/ RecordFound(r)
          \/ Perform(r) \/ Record(r) \/ Crash(r)

-----------------------------------------------------------------------------
CheckpointTypeOK ==
    /\ clock \in 0..MaxClock
    /\ store \in {"memory", "postgres"}
    /\ row \in [state : {"none", "started", "succeeded", "failed", "in_doubt"},
                fp : Prints \cup {Nobody}, attempt : 0..Cardinality(Runs),
                at : 0..MaxClock, by : Runs \cup {Nobody}]
    /\ run \in [Runs -> [pc : Ended \cup {"idle", "claim", "upsert", "reread", "doubt",
                                          "reconcile", "found", "perform", "succeed", "fail"},
                         fp : Prints \cup {Nobody}, now : 0..MaxClock,
                         attempt : 0..Cardinality(Runs),
                         prior : {"none", "started", "succeeded", "failed", "in_doubt"}]]
    /\ effects \subseteq Runs /\ slow \subseteq Runs

\* The header's promise, "at most once per key across retries and restarts",
\* in the form the code keeps: the effect succeeds twice only when a run
\* outlived StaleAfter, either between its clock reading and its claim, or
\* between its claim and its perform(), so that reconcile found nothing yet.
EffectAtMostOnce == Cardinality(effects) <= 1 \/ slow # {}

\* What a retry is handed back really happened: a succeeded row stands for a
\* perform() that succeeded, of the run it names or found by its reconcile.
ReplayIsReal ==
    row.state = "succeeded" => effects # {} /\ row.by \in effects \cup Asks

\* A settled outcome is final: neither a late settle of an overtaken attempt
\* nor a new claim changes a succeeded or in-doubt row.
OutcomeIsFinal == row.state \in {"succeeded", "in_doubt"} => row' = row

\* What a deployment configures.
CheckpointConstants == StaleAfter \in Nat /\ Nobody \notin Runs \cup Prints

\* The inductive invariant behind the three.  A run that claimed has an attempt of
\* its own, below the row's once it was overtaken or the row is settled; and while
\* no run was slow, at most one has performed or is about to, and none where a new
\* claim performs without asking.
Claimed(r) == run[r].pc \in {"doubt", "reconcile", "found", "perform", "succeed", "fail"}

Holder(r) == Claimed(r) /\ row.state = "started" /\ run[r].attempt = row.attempt

Performers == effects \cup {r \in Runs : run[r].pc = "perform"}

RowType ==
    [state : {"none", "started", "succeeded", "failed", "in_doubt"},
     fp : Prints \cup {Nobody}, attempt : Nat, at : Nat, by : Runs \cup {Nobody}]

RunType ==
    [pc : Ended \cup {"idle", "claim", "upsert", "reread", "doubt", "reconcile", "found",
                      "perform", "succeed", "fail"},
     fp : Prints \cup {Nobody}, now : Nat, attempt : Nat,
     prior : {"none", "started", "succeeded", "failed", "in_doubt"}]

CheckpointTyped ==
    /\ clock \in Nat /\ row \in RowType /\ run \in [Runs -> RunType]
    /\ effects \subseteq Runs /\ slow \subseteq Runs

RunInv(r) ==
    /\ run[r].now <= clock
    /\ Claimed(r) => /\ run[r].attempt <= row.attempt
                     /\ row.state # "started" => run[r].attempt < row.attempt
                     /\ \A s \in Runs : Claimed(s) /\ run[s].attempt = run[r].attempt => r = s
    /\ run[r].pc \in {"reconcile", "found"} => r \in Asks
    /\ run[r].pc = "found" => effects # {}
    /\ run[r].pc = "succeed" => r \in effects
    /\ run[r].pc \notin Ended \cup {"succeed"} => r \notin effects

NoneSlowInv ==
    /\ \A a, b \in Performers : a = b
    /\ row.state = "failed" => Performers = {}
    /\ \A r \in Runs : run[r].pc = "fail" /\ Holder(r) => Performers = {}
    /\ \A r \in Runs : run[r].pc = "upsert" /\ run[r].prior # "started" /\ row.state = "started"
                          => run[r].now <= row.at + StaleAfter

CheckpointInv ==
    /\ CheckpointTyped
    /\ \A r \in Runs : RunInv(r)
    /\ row.state = "none" => effects = {} /\ \A r \in Runs : ~Claimed(r)
    /\ ReplayIsReal
    /\ slow = {} => NoneSlowInv

-----------------------------------------------------------------------------
(***************************************************************************)
(* createWebhookMiddleware over MemoryReplayStore                           *)
(* (webhooks/webhook-middleware.ts, replay-store.ts): a provider sends an   *)
(* event, and sends it again when it hears no answer.                       *)
(*                                                                         *)
(* entries is the insertion-ordered Map of the replay store.  passed is     *)
(* history: the times at which the middleware let an event through.         *)
(***************************************************************************)

CONSTANTS
    Events,      \* event ids
    Capacity,    \* maxCapacity
    Window,      \* replayWindowMs, in ticks; also the timestamp tolerance
    MaxNow       \* bound on the clock

VARIABLES now, entries, passed

replayVars == <<now, entries, passed>>

ReplayInit ==
    /\ now = 0
    /\ entries = <<>>
    /\ passed = {}

ReplayTick ==
    /\ now < MaxNow
    /\ now' = now + 1
    /\ UNCHANGED <<entries, passed>>

\* cleanup drops from the front until it meets a fresh entry.
Cleanup(es) ==
    LET stale == {i \in 1..Len(es) : \A j \in 1..i : es[j].at < now - Window}
    IN SubSeq(es, Cardinality(stale) + 1, Len(es))

Has(es, e) == \E i \in 1..Len(es) : es[i].id = e

\* isTimestampStale: too old or too far ahead.
FreshTimestamp(t) == t - now <= Window /\ now - t <= Window

\* verifyWebhookSignature: over the raw body, or over its canonical JSON form.
Verified(signature) == signature \in {"of the raw body", "of the canonical body"}

\* A request whose headers are complete: timestamp, signature, replay, add.
Receive(e) ==
    /\ \E t \in 0..MaxNow, signature \in {"of the raw body", "of the canonical body", "other"} :
          /\ FreshTimestamp(t) /\ Verified(signature)
          /\ LET kept == Cleanup(entries)
                 room == IF Len(kept) >= Capacity THEN Tail(kept) ELSE kept
             IN IF Has(kept, e)
                THEN entries' = kept /\ UNCHANGED passed
                ELSE /\ entries' = Append(room, [id |-> e, at |-> now])
                     /\ passed' = passed \cup {[id |-> e, at |-> now]}
    /\ UNCHANGED <<now>>

ReplayNext ==
    \/ ReplayTick
    \/ \E e \in Events : Receive(e)

-----------------------------------------------------------------------------
ReplayTypeOK ==
    /\ now \in 0..MaxNow
    /\ Len(entries) <= Capacity
    /\ \A i \in 1..Len(entries) : entries[i] \in [id : Events, at : 0..MaxNow]

\* The deliveries of other events from the time of delivery p on.
Others(p, until) == {x \in passed : x.id # p.id /\ p.at <= x.at /\ x.at <= until}

\* An event passes the middleware twice only when more than the window lies
\* between, or when at least Capacity other deliveries came in the meantime:
\* eviction and clean-up never forget an event earlier.
DuplicateStopped ==
    \A p, q \in passed :
        p.id = q.id /\ p.at < q.at =>
            q.at - p.at > Window \/ Cardinality(Others(p, q.at)) >= Capacity

\* What a deployment configures.
ReplayConstants == Capacity \in Nat \ {0} /\ Window \in Nat

\* The inductive invariant behind it: the store holds, in order of arrival, the events
\* that passed, except those that are old or were followed by Capacity others.
Stored(es) ==
    /\ es \in Seq(passed)
    /\ \A i, j \in 1..Len(es) : i < j => es[i].at <= es[j].at
    /\ \A i, j \in 1..Len(es) : es[i].id = es[j].id => i = j
    /\ \A p \in passed : \/ \E i \in 1..Len(es) : es[i] = p
                         \/ now - p.at > Window
                         \/ Cardinality(Others(p, now)) >= Capacity

ReplayInv ==
    /\ now \in Nat /\ IsFiniteSet(passed)
    /\ passed \subseteq [id : Events, at : 0..now]
    /\ Stored(entries)
    /\ DuplicateStopped

-----------------------------------------------------------------------------
(***************************************************************************)
(* processWebhook (webhooks/process-webhook.ts) over the idempotency store, *)
(* which is outside the source tree: concurrent and repeated deliveries of  *)
(* one event id.                                                            *)
(*                                                                         *)
(* record is the idempotency record of the id, call[c] a call of            *)
(* processWebhook.  handled and outlived are history: the calls whose       *)
(* handler succeeded, and those whose lock ran out under them or whose      *)
(* completion could not be stored.                                          *)
(***************************************************************************)

CONSTANTS
    Calls,       \* deliveries of the event
    Bodies       \* fingerprints of the raw body

VARIABLES record, call, handled, outlived

processVars == <<record, call, handled, outlived>>

NoRecord == [kind |-> "none", body |-> "none"]

ProcessInit ==
    /\ record = NoRecord
    /\ call = [c \in Calls |-> [pc |-> "idle", body |-> "none"]]
    /\ handled = {}
    /\ outlived = {}

At(c, pc) == call' = [call EXCEPT ![c].pc = pc]

\* An event id that is blank or too long, or a bad signature, ends the call
\* before the store is asked.
Deliver(c) ==
    /\ call[c].pc = "idle"
    /\ \/ \E b \in Bodies : call' = [call EXCEPT ![c] = [pc |-> "begin", body |-> b]]
       \/ \E code \in {"400", "401"} : call' = [call EXCEPT ![c].pc = code]
    /\ UNCHANGED <<record, handled, outlived>>

\* store.begin: a new or abandoned key is locked for this call; a lock that
\* ran out (lockMs) may be taken over while its holder still runs.
BeginResult(c) ==
    IF record.kind = "none" THEN "handle"
    ELSE IF record.body # call[c].body THEN "422"
    ELSE IF record.kind = "done" THEN "replay"
    ELSE IF record.kind = "expired" THEN "410"
    ELSE "409"

Begin(c) ==
    /\ call[c].pc = "begin"
    /\ \/ /\ BeginResult(c) = "handle"
          /\ record' = [kind |-> "locked", body |-> call[c].body]
          /\ At(c, "handle")
          /\ UNCHANGED outlived
       \/ /\ BeginResult(c) = "409"       \* the lock has run out
          /\ At(c, "handle")
          /\ outlived' = outlived \cup {d \in Calls : call[d].pc \in {"handle", "complete", "release"}}
          /\ UNCHANGED record
       \/ /\ BeginResult(c) # "handle"
          /\ At(c, BeginResult(c))
          /\ UNCHANGED <<record, outlived>>
       \/ At(c, "503") /\ UNCHANGED <<record, outlived>>
    /\ UNCHANGED <<handled>>

\* Mutant: the key is completed although the handler failed
BadHandle(c) ==
    /\ call[c].pc = "handle"
    /\ At(c, "complete")
    /\ handled' \in {handled, handled \cup {c}}
    /\ UNCHANGED <<record, outlived>>

Handle(c) ==
    /\ call[c].pc = "handle"
    /\ \/ At(c, "complete") /\ handled' = handled \cup {c}
       \/ At(c, "release") /\ UNCHANGED handled
    /\ UNCHANGED <<record, outlived>>

\* store.complete; its error is treated like one of the handler.
Complete(c) ==
    /\ call[c].pc = "complete"
    /\ \/ /\ record' = [kind |-> "done", body |-> call[c].body]
          /\ At(c, "200")
          /\ UNCHANGED outlived
       \/ /\ At(c, "release")
          /\ outlived' = outlived \cup {c}
          /\ UNCHANGED record
    /\ UNCHANGED <<handled>>

\* store.release gives the key back, unless the call fails: it names the
\* key and no holder.
Release(c) ==
    /\ call[c].pc = "release"
    /\ record' \in {record, IF record.kind = "locked" THEN NoRecord ELSE record}
    /\ At(c, "threw")
    /\ UNCHANGED <<handled, outlived>>

\* The time to live of a completed key passes.
Expire ==
    /\ record.kind = "done"
    /\ record' = [record EXCEPT !.kind = "expired"]
    /\ UNCHANGED <<call, handled, outlived>>

ProcessNext ==
    \/ \E c \in Calls : Deliver(c) \/ Begin(c) \/ Handle(c) \/ Complete(c) \/ Release(c)
    \/ Expire

-----------------------------------------------------------------------------
ProcessTypeOK ==
    /\ record \in [kind : {"none", "locked", "done", "expired"}, body : Bodies \cup {"none"}]
    /\ \A c \in Calls : call[c].body \in Bodies \cup {"none"}
    /\ handled \subseteq Calls /\ outlived \subseteq Calls

\* "Called once for each successfully accepted event ID": two calls answer
\* 200 for one event, or two handlers succeed, only when a lock ran out under
\* a slow handler or a completion could not be stored.
HandledOnce ==
    outlived = {} =>
        /\ Cardinality(handled) <= 1
        /\ Cardinality({c \in Calls : call[c].pc = "200"}) <= 1

\* A duplicate is acknowledged only for an event whose handler succeeded.
ReplayedWasHandled == \A c \in Calls : call[c].pc = "replay" => handled # {}

\* The inductive invariant behind both: while no lock ran out under its call, one
\* call holds the lock, and an event whose handler succeeded is locked until it is
\* done.
Busy == {c \in Calls : call[c].pc \in {"handle", "complete", "release"}}

OneHolder ==
    /\ \A c, d \in Busy : c = d
    /\ Busy # {} => record.kind = "locked"
    /\ \A c, d \in handled : c = d
    /\ \A c \in handled : call[c].pc = "complete" \/ record.kind \in {"done", "expired"}
    /\ \A c \in Calls : call[c].pc = "200" => record.kind \in {"done", "expired"}
    /\ \A c, d \in Calls : call[c].pc = "200" /\ call[d].pc = "200" => c = d

CallPcs == {"idle", "begin", "handle", "complete", "release", "threw", "replay",
            "200", "400", "401", "409", "410", "422", "503"}

ProcessInv ==
    /\ record \in [kind : {"none", "locked", "done", "expired"}, body : Bodies \cup {"none"}]
    /\ call \in [Calls -> [pc : CallPcs, body : Bodies \cup {"none"}]]
    /\ handled \subseteq Calls /\ outlived \subseteq Calls
    /\ \A c \in Calls : call[c].pc = "complete" => c \in handled
    /\ record.kind \in {"done", "expired"} => handled # {}
    /\ ReplayedWasHandled
    /\ outlived = {} => OneHolder
=============================================================================
