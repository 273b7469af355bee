------------------------------ MODULE Listings ------------------------------
(***************************************************************************)
(* Pages of rows that change while they are read: signed keyset cursors,   *)
(* and the activity timeline.  Two machines that share no state.           *)
(***************************************************************************)
EXTENDS Integers, Sequences, FiniteSets, SequencesExt

(***************************************************************************)
(* paginateStable (domain/stable-cursor.ts): keyset pages over rows that    *)
(* are inserted, deleted, hidden and shown again while a viewer pages, with *)
(* cursors signed together with the scope they were issued for.             *)
(*                                                                         *)
(* A cursor is its position, its scope and whether its signature is the     *)
(* server's.  got and steady are history: the rows a listing returned, and  *)
(* the rows that were there and visible since it began.                     *)
(***************************************************************************)

CONSTANTS
    ItemIds, SortKeys,   \* naturals
    Scopes,              \* viewer and filters of a request
    Limit

VARIABLES items, hidden, cursor, got, steady, reply

listingVars == <<items, hidden, cursor, got, steady, reply>>

First == [at |-> -1, id |-> -1, scope |-> "", signed |-> TRUE]

NoReply == [state |-> "none", items |-> <<>>, hasMore |-> FALSE]

ListingInit ==
    /\ items = {} /\ hidden = {}
    /\ cursor = First
    /\ got = <<>> /\ steady = {}
    /\ reply = NoReply

\* compareStable(a, b) < 0.
Precedes(a, b) == a.at > b.at \/ (a.at = b.at /\ a.id > b.id)

\* decodeStableCursor: the signature is checked before the scope.
Decode(c, scope) ==
    IF c = First THEN "first" ELSE IF ~c.signed THEN "signature" ELSE IF c.scope # scope THEN "scope" ELSE "ok"

\* Mutant: the cursor is the sort key alone
BadVisible(c) ==
    {r \in items : r.id \notin hidden /\ (c = First \/ r.at < c.at)}

\* canView is asked for every row of every request, against the present.
Visible(c) == {r \in items : r.id \notin hidden /\ (c = First \/ Precedes(c, r))}

Paginate(c, scope) ==
    LET unique == SetToSortSeq(Visible(c), Precedes)
        page == SubSeq(unique, 1, Min({Limit, Len(unique)}))
    IN [state |-> "page", items |-> page, hasMore |-> Len(unique) > Limit]

\* The viewer sends the cursor it holds under some scope.
Request(scope) ==
    LET verdict == Decode(cursor, scope)
        page == Paginate(cursor, scope)
        sofar == IF verdict = "first" THEN <<>> ELSE got
    IN IF verdict \in {"signature", "scope"}
       THEN /\ reply' = [NoReply EXCEPT !.state = verdict]
            /\ cursor' = First /\ got' = <<>> /\ steady' = {}
            /\ UNCHANGED <<items, hidden>>
       ELSE /\ reply' = page
            /\ got' = sofar \o page.items
            /\ steady' = IF verdict = "first" THEN Visible(First) ELSE steady
            /\ cursor' = IF page.hasMore
                         THEN [at |-> Last(page.items).at, id |-> Last(page.items).id, scope |-> scope, signed |-> TRUE]
                         ELSE First
            /\ UNCHANGED <<items, hidden>>

\* A damaged cursor.
Damage ==
    /\ cursor # First /\ cursor' = [cursor EXCEPT !.signed = FALSE]
    /\ reply' = NoReply
    /\ UNCHANGED <<items, hidden, got, steady>>

Settled(next) == {r \in steady : r \in items' /\ r.id \notin next}

Insert(i, at) ==
    /\ i \notin {r.id : r \in items} /\ i \notin {got[k].id : k \in 1..Len(got)}
    /\ items' = items \cup {[id |-> i, at |-> at]}
    /\ reply' = NoReply
    /\ UNCHANGED <<hidden, cursor, got, steady>>

Delete(i) ==
    /\ \E r \in items : r.id = i /\ items' = items \ {r}
    /\ steady' = Settled(hidden)
    /\ reply' = NoReply
    /\ UNCHANGED <<hidden, cursor, got>>

Permit(i) ==
    /\ hidden' = IF i \in hidden THEN hidden \ {i} ELSE hidden \cup {i}
    /\ steady' = {r \in steady : r.id \notin hidden'}
    /\ reply' = NoReply
    /\ UNCHANGED <<items, cursor, got>>

ListingNext ==
    \/ \E scope \in Scopes : Request(scope)
    \/ Damage
    \/ \E i \in ItemIds : Delete(i) \/ Permit(i) \/ \E at \in SortKeys : Insert(i, at)

-----------------------------------------------------------------------------
ListingTypeOK ==
    /\ \A r \in items : r.id \in ItemIds /\ r.at \in SortKeys
    /\ hidden \subseteq ItemIds
    /\ Len(reply.items) <= Limit

\* Guarantees 2 and 3: a listing read to its end returned every row that was
\* there and visible throughout, and it returned no row twice and none out of
\* order, whatever was inserted and deleted between its pages.
ListingIsWhole ==
    /\ \A k \in 2..Len(got) : Precedes(got[k - 1], got[k])
    /\ reply.state = "page" /\ ~reply.hasMore => steady \subseteq {got[k] : k \in 1..Len(got)}

\* Guarantee 4: a page holds no row the viewer may not see now, and it promises
\* more exactly when a visible row follows it.
PageIsAllowed ==
    reply.state = "page" =>
       /\ \A k \in 1..Len(reply.items) : reply.items[k].id \notin hidden
       /\ reply.hasMore <=> \E r \in items : /\ r.id \notin hidden /\ reply.items # <<>>
                                             /\ Precedes(Last(reply.items), r)

\* Guarantee 5: every page of a listing was asked under the scope of its first
\* page; any other request is answered INVALID_CURSOR and starts over.
OneScopePerListing ==
    cursor # First /\ reply' # NoReply /\ reply'.state = "page"
      => cursor.signed /\ (cursor' # First => cursor'.scope = cursor.scope)

-----------------------------------------------------------------------------
(***************************************************************************)
(* buildActivityTimeline (domain/activity-timeline.ts): a seller pages      *)
(* through the public events of their invoices while new events arrive and  *)
(* an invoice may be restricted.  Larger ids and times are newer events.    *)
(***************************************************************************)

CONSTANTS
    EventIds,      \* numbers, ordered as the event ids
    EventTimes,
    PageLimit      \* MAX_TIMELINE_LIMIT

VARIABLES feed, barred, viewer, place, shown, first

timelineVars == <<feed, barred, viewer, place, shown, first>>

\* TIMELINE_EVENT_RULES: what is public; an unknown type is the maintainer's.
Public == {"INVOICE_CREATED", "PAYMENT_CONFIRMED", "INVOICE_CANCELLED", "INVOICE_EXPIRED",
           "PAYMENT_RECEIVED_AFTER_CANCEL", "PAYMENT_RECEIVED_AFTER_EXPIRY"}

Types == {"INVOICE_CREATED", "PAYMENT_REJECTED"}

Absent == [type |-> "none", at |-> 0, of |-> "none"]

Start == [set |-> FALSE, at |-> 0, id |-> 0]

TimelineInit ==
    /\ feed = [e \in EventIds |-> Absent]
    /\ barred = {}
    /\ viewer \in {"seller", "other", "nobody"}
    /\ place = Start /\ shown = <<>> /\ first = {}

\* canSee
CanSee(e) ==
    /\ feed[e].type \in Public
    /\ feed[e].of \notin barred \cup {"none"}
    /\ viewer # "nobody" /\ viewer = feed[e].of

\* compare: newest first, then by id
Before(a, b) == feed[a].at > feed[b].at \/ (feed[a].at = feed[b].at /\ a < b)

AfterCursor(e) == place.set => feed[e].at < place.at \/ (feed[e].at = place.at /\ e > place.id)

Record(e, type, at, of) ==
    /\ feed[e] = Absent
    /\ feed' = [feed EXCEPT ![e] = [type |-> type, at |-> at, of |-> of]]
    /\ UNCHANGED <<barred, viewer, place, shown, first>>

Bar(of) ==
    /\ of \notin barred
    /\ barred' = barred \cup {of}
    /\ UNCHANGED <<feed, viewer, place, shown, first>>

\* One page: the cursor is the place of its last entry, if there is more.
Page ==
    LET visible == SetToSortSeq({e \in EventIds : CanSee(e) /\ AfterCursor(e)}, Before)
        page == SubSeq(visible, 1, IF Len(visible) < PageLimit THEN Len(visible) ELSE PageLimit)
    IN /\ page # <<>> /\ (place.set \/ shown = <<>>)
       /\ shown' = shown \o page
       /\ first' = IF shown = <<>> THEN {e \in EventIds : CanSee(e)} ELSE first
       /\ place' = IF Len(visible) > PageLimit
                   THEN [set |-> TRUE, at |-> feed[Last(page)].at, id |-> Last(page)] ELSE Start
       /\ UNCHANGED <<feed, barred, viewer>>

TimelineNext ==
    \/ \E e \in EventIds, t \in Types, at \in EventTimes, of \in {"seller", "other"} : Record(e, t, at, of)
    \/ \E of \in {"seller", "other"} : Bar(of)
    \/ Page

-----------------------------------------------------------------------------
TimelineTypeOK ==
    /\ \A e \in EventIds : feed[e].at \in EventTimes \cup {0}
    /\ Len(shown) <= 2 * Cardinality(EventIds)

\* A timeline read to its end lists, newest first and each once, all events the
\* viewer could see when it was begun, whatever was recorded meanwhile.
TimelineIsWhole ==
    /\ \A i, j \in 1..Len(shown) : i < j => Before(shown[i], shown[j])
    /\ shown # <<>> /\ ~place.set /\ barred = {} => first \subseteq {shown[i] : i \in 1..Len(shown)}

\* Nobody is shown an operator's event or one of another's invoices, and a page
\* made after an invoice was restricted holds nothing of it.
OnlyOwnPublicEvents ==
    \A i \in (Len(shown) + 1)..Len(shown') :
       feed[shown'[i]].type \in Public /\ feed[shown'[i]].of = viewer /\ viewer \notin barred
=============================================================================
