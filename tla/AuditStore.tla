----------------------------- MODULE AuditStore -----------------------------
(***************************************************************************)
(* audit/audit-service.ts: the bounded audit store with its hash chain and  *)
(* its two indexes, and a client that reads it page by page while events    *)
(* keep coming (GET /audit).  An event's hash stands for the event, so it   *)
(* is its id; prev is the id whose hash it carries, 0 for null.             *)
(***************************************************************************)
EXTENDS Integers, Sequences, SequencesExt

CONSTANTS
    Entities, Actors,
    AuditCapacity,   \* maxCapacity
    MaxRecorded,
    PageLimit        \* the limit a client asks for

VARIABLES audit, entityIndex, actorIndex, recorded, reader

vars == <<audit, entityIndex, actorIndex, recorded, reader>>

IdleReader == [pc |-> "idle", entity |-> "any", offset |-> 0, due |-> {}, got |-> {}]

Init ==
    /\ audit = <<>>
    /\ entityIndex = [e \in Entities |-> <<>>]
    /\ actorIndex = [a \in Actors |-> <<>>]
    /\ recorded = 0
    /\ reader = IdleReader

Ids(events) == {events[i].id : i \in 1..Len(events)}

Without(list, id) == SelectSeq(list, LAMBDA x : x # id)

\* Mutant: the previous hash is taken from the oldest event
BadRecordEvent(e, a) ==
    LET event == [id |-> recorded + 1, entity |-> e, actor |-> a,
                  prev |-> IF audit = <<>> THEN 0 ELSE Head(audit).id]
        full == Len(audit) >= AuditCapacity
        kept == IF full THEN Tail(audit) ELSE audit
        gone == IF full THEN Head(audit).id ELSE 0
    IN /\ recorded < MaxRecorded
       /\ recorded' = recorded + 1
       /\ audit' = Append(kept, event)
       /\ entityIndex' = [x \in Entities |->
             LET list == Without(entityIndex[x], gone) IN IF x = e THEN Append(list, event.id) ELSE list]
       /\ actorIndex' = [x \in Actors |->
             LET list == Without(actorIndex[x], gone) IN IF x = a THEN Append(list, event.id) ELSE list]
       /\ UNCHANGED reader

\* Mutant: nothing is evicted at capacity
BadRecordEvent2(e, a) ==
    LET event == [id |-> recorded + 1, entity |-> e, actor |-> a,
                  prev |-> IF audit = <<>> THEN 0 ELSE Last(audit).id]
    IN /\ recorded < MaxRecorded
       /\ recorded' = recorded + 1
       /\ audit' = Append(audit, event)
       /\ entityIndex' = [entityIndex EXCEPT ![e] = Append(@, event.id)]
       /\ actorIndex' = [actorIndex EXCEPT ![a] = Append(@, event.id)]
       /\ UNCHANGED reader

\* At capacity the oldest event leaves the list and both indexes.
RecordEvent(e, a) ==
    LET event == [id |-> recorded + 1, entity |-> e, actor |-> a,
                  prev |-> IF audit = <<>> THEN 0 ELSE Last(audit).id]
        full == Len(audit) >= AuditCapacity
        kept == IF full THEN Tail(audit) ELSE audit
        gone == IF full THEN Head(audit).id ELSE 0
    IN /\ recorded < MaxRecorded
       /\ recorded' = recorded + 1
       /\ audit' = Append(kept, event)
       /\ entityIndex' = [x \in Entities |->
             LET list == Without(entityIndex[x], gone) IN IF x = e THEN Append(list, event.id) ELSE list]
       /\ actorIndex' = [x \in Actors |->
             LET list == Without(actorIndex[x], gone) IN IF x = a THEN Append(list, event.id) ELSE list]
       /\ UNCHANGED reader

Clear ==
    /\ audit # <<>>
    /\ audit' = <<>>
    /\ entityIndex' = [e \in Entities |-> <<>>]
    /\ actorIndex' = [a \in Actors |-> <<>>]
    /\ UNCHANGED <<recorded, reader>>

\* queryEvents: newest first, filtered, one page.
Matching(e) == SelectSeq(Reverse(audit), LAMBDA x : e \in {"any", x.entity})

QueryEvents(e, limit, offset) ==
    SubSeq(Matching(e), offset + 1, IF offset + limit < Len(Matching(e)) THEN offset + limit ELSE Len(Matching(e)))

StartReading(e) ==
    /\ reader.pc = "idle"
    /\ reader' = [IdleReader EXCEPT !.pc = "reading", !.entity = e, !.due = Ids(Matching(e))]
    /\ UNCHANGED <<audit, entityIndex, actorIndex, recorded>>

\* The client asks for pages until one comes back short.
ReadPage ==
    LET page == QueryEvents(reader.entity, PageLimit, reader.offset) IN
    /\ reader.pc = "reading"
    /\ reader' = [reader EXCEPT !.got = @ \cup Ids(page), !.offset = @ + PageLimit,
                                !.pc = IF Len(page) < PageLimit THEN "done" ELSE "reading"]
    /\ UNCHANGED <<audit, entityIndex, actorIndex, recorded>>

Next ==
    \/ \E e \in Entities, a \in Actors : RecordEvent(e, a)
    \/ Clear
    \/ \E e \in Entities \cup {"any"} : StartReading(e)
    \/ ReadPage

Spec == Init /\ [][Next]_vars

\* verifyChain walks from null, verifyEventChain (ops/projection-replay.ts)
\* from wherever the first event points.
Linked == \A i \in 2..Len(audit) : audit[i].prev = audit[i - 1].id

VerifyChain == Linked /\ (audit # <<>> => audit[1].prev = 0)

VerifyEventChain == [valid |-> Linked, truncated |-> audit # <<>> /\ audit[1].prev # 0]

-----------------------------------------------------------------------------
TypeOK ==
    /\ Len(audit) <= AuditCapacity
    /\ reader.pc \in {"idle", "reading", "done"}

\* The two indexes list exactly the retained events, in order, through any
\* number of evictions.
IndexesAgree ==
    /\ \A e \in Entities : entityIndex[e] =
          [i \in 1..Len(SelectSeq(audit, LAMBDA x : x.entity = e)) |->
             SelectSeq(audit, LAMBDA x : x.entity = e)[i].id]
    /\ \A a \in Actors : actorIndex[a] =
          [i \in 1..Len(SelectSeq(audit, LAMBDA x : x.actor = a)) |->
             SelectSeq(audit, LAMBDA x : x.actor = a)[i].id]

\* The retained events are always one unbroken chain, whose missing beginning
\* verifyEventChain reports; verifyChain calls the same chain broken from the
\* first eviction on.
ChainSurvivesEviction ==
    /\ VerifyEventChain.valid
    /\ VerifyChain <=> ~VerifyEventChain.truncated

\* A client that reads page after page misses no event that was there when it
\* started and still is when it ends, whatever is recorded and evicted between.
PagingMissesNothing ==
    reader.pc = "done" => reader.due \cap Ids(audit) \subseteq reader.got
=============================================================================
