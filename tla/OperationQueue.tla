--------------------------- MODULE OperationQueue ---------------------------
(***************************************************************************)
(* The browser's queue of offline mutations (frontend/lib/                  *)
(* operation-queue.js) in several tabs.  They share localStorage; each has  *)
(* its own Map of operations, which it writes whole and reads whole.        *)
(*                                                                         *)
(* opTold holds the tabs with an undelivered QUEUE_MUTATED message.  tabRun *)
(* is one processOperation: it keeps the operation object it started with,  *)
(* which a reload from storage replaces in the Map (attached = FALSE).      *)
(* entity is the invoice every operation changes, kept by the backend.      *)
(* air holds operations whose request outlived the page that sent it.       *)
(* made, done, shared and released are history: operations enqueued, their  *)
(* executions, those whose executions overlapped or that a person sent      *)
(* again, and those carried out, discarded, or written over by a tab that   *)
(* had not heard of them.                                                   *)
(***************************************************************************)
EXTENDS Integers, FiniteSets

CONSTANTS
    Tabs, Ops,
    MaxRetries,   \* maxRetries
    MaxVersion    \* bound on the versions of the entity

VARIABLES storage, map, opTold, tabRun, air, entity, made, done, shared, released

vars == <<storage, map, opTold, tabRun, air, entity, made, done, shared, released>>

Gone == [status |-> "none", attempts |-> 0, version |-> 0, base |-> "none"]

IdleTab == [pc |-> "idle", op |-> "none", attached |-> FALSE, held |-> Gone]

Init ==
    /\ storage = [o \in Ops |-> Gone]
    /\ map = [t \in Tabs |-> storage]
    /\ opTold = {}
    /\ tabRun = [t \in Tabs |-> IdleTab]
    /\ entity = [version |-> 1, status |-> "PENDING"]
    /\ made = {} /\ done = [o \in Ops |-> 0] /\ shared = {} /\ released = {}
    /\ air = {}

\* persistToStorage: the whole Map is written, and the other tabs are told.
Persist(t, ops, freed) ==
    /\ storage' = ops
    /\ opTold' = opTold \cup (Tabs \ {t})
    /\ released' = released \cup freed \cup {o \in Ops : map[t][o].status = "none" /\ ops[o].status = "none"
                                                         /\ storage[o].status # "none"}

\* loadFromStorage: what was in flight, in whatever tab, is queued again.
Loaded ==
    [o \in Ops |-> IF storage[o].status = "IN_FLIGHT" THEN [storage[o] EXCEPT !.status = "QUEUED"]
                   ELSE storage[o]]

Enqueue(t, o) ==
    LET ops == [map[t] EXCEPT ![o] = [status |-> "QUEUED", attempts |-> 0,
                                      version |-> entity.version, base |-> entity.status]]
    IN /\ o \notin made /\ made' = made \cup {o}
       /\ map' = [map EXCEPT ![t] = ops] /\ Persist(t, ops, {})
       /\ UNCHANGED <<tabRun, air, entity, done, shared>>

\* The channel handler.
RemoteSync(t) ==
    /\ t \in opTold /\ opTold' = opTold \ {t}
    /\ map' = [map EXCEPT ![t] = Loaded]
    /\ tabRun' = [tabRun EXCEPT ![t].attached = FALSE]
    /\ UNCHANGED <<storage, air, entity, made, done, shared, released>>

\* A refresh: the tab's runs end, and the constructor reads and writes back.
Refresh(t) ==
    /\ tabRun' = [tabRun EXCEPT ![t] = IdleTab]
    /\ air' = IF tabRun[t].pc = "execute" THEN air \cup {tabRun[t].op} ELSE air
    /\ map' = [map EXCEPT ![t] = Loaded]
    /\ storage' = Loaded /\ opTold' = Tabs \ {t}
    /\ UNCHANGED <<entity, made, done, shared, released>>

EvaluateConflict(op) ==
    IF entity.status # op.base /\ entity.status \in {"PAID", "CANCELLED", "EXPIRED"}
    THEN "TERMINAL_STATUS_CONFLICT"
    ELSE IF entity.version # op.version THEN "VERSION_MISMATCH" ELSE "none"

-----------------------------------------------------------------------------
\* processOperation, between its awaits.  The bound on attempts is the model's: a
\* FAILED operation may be processed again and again.
ProcessOperation(t, o) ==
    LET op == [map[t][o] EXCEPT !.status = "IN_FLIGHT", !.attempts = @ + 1]
        ops == [map[t] EXCEPT ![o] = op]
    IN /\ tabRun[t].pc = "idle"
       /\ map[t][o].status \in {"QUEUED", "FAILED"}
       /\ map[t][o].attempts <= MaxRetries
       /\ tabRun' = [tabRun EXCEPT ![t] = [pc |-> "fetch", op |-> o, attached |-> TRUE, held |-> op]]
       /\ map' = [map EXCEPT ![t] = ops] /\ Persist(t, ops, {})
       /\ UNCHANGED <<air, entity, made, done, shared>>

\* The run writes to its own object; the Map it persists may hold another.
Leave(t, status) ==
    LET o == tabRun[t].op
        ops == IF tabRun[t].attached
               THEN [map[t] EXCEPT ![o] = [tabRun[t].held EXCEPT !.status = status]] ELSE map[t]
    IN /\ map' = [map EXCEPT ![t] = ops] /\ Persist(t, ops, {})
       /\ tabRun' = [tabRun EXCEPT ![t] = IdleTab]

CurrentState(t) ==
    /\ tabRun[t].pc = "fetch"
    /\ IF EvaluateConflict(tabRun[t].held) # "none"
       THEN Leave(t, "CONFLICT") /\ UNCHANGED shared
       ELSE /\ tabRun' = [tabRun EXCEPT ![t].pc = "execute"]
            /\ shared' = shared \cup {o \in {tabRun[t].op} :
                            o \in air \/ \E u \in Tabs \ {t} : tabRun[u].pc = "execute" /\ tabRun[u].op = o}
            /\ UNCHANGED <<storage, map, opTold, released>>
    /\ UNCHANGED <<air, entity, made, done>>

\* The backend carries out the operation.
Apply(o) ==
    /\ entity.version < MaxVersion
    /\ entity' = [entity EXCEPT !.version = @ + 1]
    /\ done' = [done EXCEPT ![o] = @ + 1]
    /\ released' = released \cup {o}
    /\ UNCHANGED <<storage, map, opTold, made, shared>>

\* The executor's answer may be lost.
Execute(t) ==
    /\ tabRun[t].pc = "execute" /\ Apply(tabRun[t].op)
    /\ \/ tabRun' = [tabRun EXCEPT ![t].pc = "executed"]
       \/ tabRun' = [tabRun EXCEPT ![t].pc = "lost"]
    /\ UNCHANGED air

\* A refresh does not call a request back.
ArriveLate(o) ==
    /\ o \in air /\ air' = air \ {o}
    /\ Apply(o)
    /\ UNCHANGED tabRun

Commit(t) ==
    /\ tabRun[t].pc = "executed" /\ Leave(t, "COMMITTED")
    /\ UNCHANGED <<air, entity, made, done, shared>>

\* The catch block, after the fetcher or the executor threw.
Caught(t) ==
    /\ tabRun[t].pc \in {"fetch", "execute", "lost"}
    /\ Leave(t, IF tabRun[t].held.attempts >= MaxRetries THEN "FAILED" ELSE "QUEUED")
    /\ UNCHANGED <<air, entity, made, done, shared>>

-----------------------------------------------------------------------------
\* resolveConflict, with the state the caller just read.
Resolved(op, action) ==
    IF action = "DISCARD" THEN [op EXCEPT !.status = "DISCARDED"]
    ELSE IF action = "RETRY_WITH_LATEST"
    THEN [op EXCEPT !.status = "QUEUED", !.version = entity.version, !.base = entity.status]
    ELSE [op EXCEPT !.status = "QUEUED", !.version = entity.version]

ResolveConflict(t, o, action) ==
    LET ops == [map[t] EXCEPT ![o] = Resolved(map[t][o], action)] IN
    /\ map[t][o].status = "CONFLICT"
    /\ map' = [map EXCEPT ![t] = ops]
    /\ Persist(t, ops, {p \in {o} : action = "DISCARD"})
    /\ shared' = shared \cup {p \in {o} : action # "DISCARD"}
    /\ UNCHANGED <<tabRun, air, entity, made, done>>

Completed(t) == {o \in Ops : map[t][o].status \in {"COMMITTED", "DISCARDED"}}

ClearCompleted(t) ==
    LET ops == [o \in Ops |-> IF o \in Completed(t) THEN Gone ELSE map[t][o]] IN
    /\ Completed(t) # {}
    /\ map' = [map EXCEPT ![t] = ops] /\ Persist(t, ops, {})
    /\ UNCHANGED <<tabRun, air, entity, made, done, shared>>

\* A payer settles the invoice.
Settle ==
    /\ entity.status = "PENDING" /\ entity.version < MaxVersion
    /\ entity' = [version |-> entity.version + 1, status |-> "PAID"]
    /\ UNCHANGED <<storage, map, opTold, tabRun, air, made, done, shared, released>>

Next ==
    \/ \E t \in Tabs :
          \/ RemoteSync(t) \/ Refresh(t) \/ CurrentState(t) \/ Execute(t) \/ Commit(t) \/ Caught(t)
          \/ ClearCompleted(t)
          \/ \E o \in Ops : Enqueue(t, o) \/ ProcessOperation(t, o)
          \/ \E o \in Ops, a \in {"DISCARD", "RETRY_WITH_LATEST", "FORCE_APPLY"} : ResolveConflict(t, o, a)
    \/ \E o \in Ops : ArriveLate(o)
    \/ Settle

Spec == Init /\ [][Next]_vars

-----------------------------------------------------------------------------
Statuses == {"none", "QUEUED", "IN_FLIGHT", "COMMITTED", "CONFLICT", "DISCARDED", "FAILED"}

TypeOK ==
    /\ \A o \in Ops : storage[o].status \in Statuses
    /\ \A t \in Tabs : /\ tabRun[t].pc \in {"idle", "fetch", "execute", "executed", "lost"}
                       /\ \A o \in Ops : map[t][o].status \in Statuses
    /\ opTold \subseteq Tabs
    /\ entity.version \in 1..MaxVersion

\* An operation reaches the backend at most once, through refreshes, lost answers,
\* retries and a tab that queues again what another has in flight: the second
\* run finds a newer version and stops at a conflict.  The exceptions are an
\* operation two tabs execute at once, and one a person sends again.
AppliedOnce == \A o \in Ops \ shared : done[o] <= 1

\* An operation leaves storage only after it was carried out or discarded, or when
\* a tab wrote its Map over an enqueue it had not heard of: no failed attempt,
\* reload, late commit or clean-up drops what is still to be done.
NotDropped ==
    \A o \in Ops : storage[o].status # "none" /\ storage'[o].status = "none" => o \in released'

\* The inductive invariant behind NotDropped: what a Map or storage calls completed was
\* carried out or discarded.
OpType == [status : Statuses, attempts : Nat, version : Nat, base : {"none", "PENDING", "PAID"}]

OfflineInv ==
    /\ entity \in [version : Nat, status : {"PENDING", "PAID"}]
    /\ storage \in [Ops -> OpType] /\ map \in [Tabs -> [Ops -> OpType]]
    /\ tabRun \in [Tabs -> [pc : {"idle", "fetch", "execute", "executed", "lost"}, op : Ops \cup {"none"},
                         attached : BOOLEAN, held : OpType]]
    /\ \A t \in Tabs : /\ tabRun[t].pc # "idle" => tabRun[t].op \in Ops
                       /\ tabRun[t].pc = "executed" => tabRun[t].op \in released
    /\ \A o \in Ops : /\ storage[o].status \in {"COMMITTED", "DISCARDED"} => o \in released
                      /\ \A t \in Tabs : map[t][o].status \in {"COMMITTED", "DISCARDED"} => o \in released
=============================================================================
