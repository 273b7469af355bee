------------------------------- MODULE Edits --------------------------------
(***************************************************************************)
(* Edits of several clients: the three-way merge, and the replay of events *)
(* in any order.  Two machines that share no state.                        *)
(***************************************************************************)
EXTENDS Integers, Sequences, FiniteSets, FiniteSetsExt, TLC

(***************************************************************************)
(* resolveMultiClientConflict (concurrency/conflict-resolver.ts): the       *)
(* three-way merge of a client's edit into an invoice that changed since    *)
(* the client read it.                                                      *)
(*                                                                         *)
(* An invoice is its amount (for the immutable fields), a note (for the     *)
(* editable scalars) and a metadata object with the keys Keys; 0 is an      *)
(* absent value.  Every value is a natural number; an object inside the     *)
(* metadata, which is merged key by key the same way, is left out.          *)
(***************************************************************************)

CONSTANTS Keys, Values

Strategies == {"AUTO_MERGE", "SERVER_WINS", "CLIENT_WINS", "STRICT"}

VARIABLES base, server, client, options, merge

mergeVars == <<base, server, client, options, merge>>

Invoices == [amount : {1}, note : Values, meta : [Keys -> Values]]

Unmerged == [outcome |-> "none", invoice |-> [amount |-> 0, note |-> 0, meta |-> [k \in Keys |-> 0]],
             conflicts |-> FALSE, version |-> 0]

\* client.note = -1 and client.amount = 0: the update leaves the field out.
MergeInit ==
    /\ base \in {[i \in {"amount", "note"} |-> 1] @@ [meta |-> [k \in Keys |-> v]] : v \in {0, 1}}
    /\ server \in Invoices
    /\ client \in [amount : {0, 1, 2}, note : Values \cup {-1}, meta : [Keys -> Values]]
    /\ options \in [strategy : Strategies, newer : BOOLEAN, role : {"VIEWER", "OWNER"}, status : {"PENDING", "PAID"}]
    /\ options.role = "VIEWER" \/ options.status = "PAID" \/ client.amount = 2
         => client.note = 1 /\ server = base
    /\ merge = Unmerged

ClientWins == options.strategy = "CLIENT_WINS" \/ (options.strategy = "AUTO_MERGE" /\ options.newer)

\* A field or a metadata key that both sides changed apart collides; TRUE only
\* when both changed.
Collides(b, s, c) == b # c /\ b # s /\ s # c

\* One value: unchanged by the client, by the server, the same, or a collision.
MergeValue(b, s, c) ==
    IF b = c THEN s
    ELSE IF b = s \/ s = c THEN c
    ELSE IF ClientWins THEN c ELSE s

\* mergeMetadataObjects, reached only when both objects changed apart.
MergeMetadata(b, s, c) == [k \in Keys |-> MergeValue(b[k], s[k], c[k])]

MetaCollisions(b, s, c) == {k \in Keys : Collides(b[k], s[k], c[k])}

Refuse(why) == [Unmerged EXCEPT !.outcome = why]

Resolve(b, s, c) ==
    LET note == IF c.note = -1 THEN b.note ELSE c.note
        meta == IF Collides(b.meta, s.meta, c.meta) THEN MergeMetadata(b.meta, s.meta, c.meta)
                ELSE MergeValue(b.meta, s.meta, c.meta)
        unresolved == /\ options.strategy = "STRICT"
                      /\ \/ Collides(b.note, s.note, note)
                         \/ Collides(b.meta, s.meta, c.meta) /\ MetaCollisions(b.meta, s.meta, c.meta) # {}
    IN IF options.status = "PAID" THEN Refuse("terminal")
       ELSE IF options.role = "VIEWER" THEN Refuse("unauthorized")
       ELSE IF c.amount \notin {0, b.amount} THEN Refuse("immutable")
       ELSE IF unresolved THEN [Refuse("unresolved") EXCEPT !.conflicts = TRUE]
       ELSE [outcome |-> "merged", version |-> 1,
             conflicts |-> Collides(b.note, s.note, note) \/ Collides(b.meta, s.meta, c.meta),
             invoice |-> [amount |-> s.amount, note |-> MergeValue(b.note, s.note, note), meta |-> meta]]

Evaluate ==
    /\ merge = Unmerged
    /\ merge' = Resolve(base, server, client)
    /\ UNCHANGED <<base, server, client, options>>

MergeNext == Evaluate

-----------------------------------------------------------------------------
MergeTypeOK ==
    /\ merge.outcome \in {"none", "merged", "terminal", "unauthorized", "immutable", "unresolved"}
    /\ merge.outcome = "merged" => merge.invoice \in Invoices

\* The leaves of an invoice: the note and every metadata key.
Leaf(inv, l) == IF l = "note" THEN inv.note ELSE inv.meta[l]

Edited == [client EXCEPT !.note = IF @ = -1 THEN base.note ELSE @]

\* A merge loses no edit it did not have to: every value that only one side changed
\* is that side's, deletions of metadata keys included, and a value is contested
\* only when the same value was changed apart on both sides.
NoEditLost ==
    merge.outcome = "merged" => \A l \in Keys \cup {"note"} :
       LET b == Leaf(base, l)
           s == Leaf(server, l)
           c == Leaf(Edited, l)
           m == Leaf(merge.invoice, l)
       IN /\ b = c => m = s
          /\ b = s => m = c
          /\ m \in {s, c}

\* STRICT asks for a human exactly when two sessions changed the same value apart;
\* the other strategies always merge, and the amount is never the client's.
StrictRefusesCollisions ==
    merge.outcome \in {"merged", "unresolved"} =>
       /\ (merge.outcome = "unresolved") <=>
             /\ options.strategy = "STRICT"
             /\ \E l \in Keys \cup {"note"} : Collides(Leaf(base, l), Leaf(server, l), Leaf(Edited, l))
       /\ merge.outcome = "merged" => merge.invoice.amount = base.amount

\* Two sessions that edited different values from one base reach the same invoice
\* in either order of arrival.
DisjointEditsCommute ==
    LET other == [amount |-> 0, note |-> server.note, meta |-> server.meta]
        first == Resolve(base, base, other).invoice
        mine == Resolve(base, base, client).invoice
    IN /\ merge.outcome = "merged"
       /\ \A l \in Keys \cup {"note"} : Leaf(base, l) \in {Leaf(server, l), Leaf(Edited, l)}
       => Resolve(base, first, client).invoice = Resolve(base, mine, other).invoice

-----------------------------------------------------------------------------
(***************************************************************************)
(* DeterministicReplayEngine (concurrency/deterministic-replay-engine.ts):  *)
(* the events of several clients against one versioned resource, in the     *)
(* order a seeded shuffle gives them.  Every order is some seed's.          *)
(*                                                                         *)
(* An event's key is its idempotency key or NoKey, its expects the version  *)
(* it was based on or 0.  A dropped event never arrives; its retry is       *)
(* another event with the same key.                                         *)
(***************************************************************************)

CONSTANTS
    Events,          \* event ids
    NoKey,
    Kinds            \* [action, key, expects, role, dropped]: what an event may be

VARIABLES batch, resource, seen, trace

eventVars == <<batch, resource, seen, trace>>

EventInit ==
    /\ batch \in [Events -> Kinds]
    /\ resource = [version |-> 1, status |-> "PENDING", settled |-> 0, edits |-> 0]
    /\ seen = {}
    /\ trace = <<>>

\* idempotencyCache: the keys that took effect, each with the version it made.
Cached(e) == {s \in seen : s.key = batch[e].key}

Done(e) == \E k \in 1..Len(trace) : trace[k].event = e

\* Mutant: a stale version is refused only if it is older than the first
BadOutcome(e) ==
    IF batch[e].dropped THEN "NETWORK_ERROR"
    ELSE IF Cached(e) # {} THEN "IDEMPOTENT_HIT"
    ELSE IF batch[e].role = "UNAUTHORIZED" THEN "UNAUTHORIZED" ELSE "SUCCESS"

\* The first of the checks that applies decides.
Outcome(e) ==
    IF batch[e].dropped THEN "NETWORK_ERROR"
    ELSE IF Cached(e) # {} THEN "IDEMPOTENT_HIT"
    ELSE IF batch[e].role = "UNAUTHORIZED" THEN "UNAUTHORIZED"
    ELSE IF batch[e].expects \notin {0, resource.version} THEN "CONFLICT"
    ELSE "SUCCESS"

Applied(action) ==
    LET next == [resource EXCEPT !.version = @ + 1]
    IN IF action = "UPDATE_FIELD" THEN [next EXCEPT !.edits = @ + 1]
       ELSE IF action = "SETTLE_PAYMENT" THEN [next EXCEPT !.status = "PAID", !.settled = @ + 1]
       ELSE [next EXCEPT !.status = "CANCELLED"]

Remember(key, version) == IF key = NoKey THEN seen ELSE seen \cup {[key |-> key, version |-> version]}

Execute(e) ==
    /\ ~Done(e)
    /\ IF Outcome(e) = "SUCCESS"
       THEN /\ resource' = Applied(batch[e].action)
            /\ seen' = Remember(batch[e].key, resource'.version)
       ELSE UNCHANGED <<resource, seen>>
    /\ trace' = Append(trace, [event |-> e, status |-> Outcome(e),
          version |-> IF Outcome(e) = "IDEMPOTENT_HIT" THEN (CHOOSE s \in Cached(e) : TRUE).version ELSE resource'.version])
    /\ UNCHANGED batch

EventNext == \E e \in Events : Execute(e)

-----------------------------------------------------------------------------
EventTypeOK ==
    /\ resource.version \in 1..(1 + Cardinality(Events))
    /\ resource.status \in {"PENDING", "PAID", "CANCELLED"}
    /\ {s.key : s \in seen} \subseteq {batch[e].key : e \in Events}

Succeeded == {e \in Events : \E k \in 1..Len(trace) : trace[k].event = e /\ trace[k].status = "SUCCESS"}

\* "requests using identical idempotency keys never create side-effect drift": of
\* the events with one key at most one takes effect, drops and retries included, and
\* a retry is answered with the version that the first one made.
OnceForEachKey ==
    /\ \A e, f \in Succeeded : e # f /\ batch[e].key # NoKey => batch[e].key # batch[f].key
    /\ \A k \in 1..Len(trace) : trace[k].status = "IDEMPOTENT_HIT" =>
          \E n \in 1..(k - 1) : /\ trace[n].status = "SUCCESS" /\ trace[n].version = trace[k].version
                              /\ batch[trace[n].event].key = batch[trace[k].event].key

\* Optimistic locking under any interleaving: of the events based on one version
\* at most one takes effect, and the version counts the effects.
OneWriterPerVersion ==
    /\ \A e, f \in Succeeded : e # f /\ batch[e].expects # 0 => batch[e].expects # batch[f].expects
    /\ resource.version = 1 + Cardinality(Succeeded)
    /\ resource.settled + resource.edits <= Cardinality(Succeeded)

\* Clients that all state the version they saw settle an invoice at most once, and
\* never one that another of them cancelled.
LockedClientsSettleOnce ==
    (\A e \in Events : batch[e].expects = 1) =>
       /\ resource.settled <= 1
       /\ resource.status = "CANCELLED" => resource.settled = 0
=============================================================================
