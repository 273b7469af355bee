--------------------------- MODULE MemoryInvoices ---------------------------
(***************************************************************************)
(* The in-memory deployment: the bounded store (storage/memory-storage.ts)  *)
(* under the read cache of InvoiceMemoryService (services/                  *)
(* invoice-memory.service.ts).                                              *)
(*                                                                         *)
(* held is the Map of invoices in insertion order, byMemo its index, cache  *)
(* the BoundedCache in order of use.  The cache holds references: expiry    *)
(* changes the stored object in place, so a cached entry of the same id and *)
(* version changes with it; every other write stores a new object with the  *)
(* next version.  The store evicts, so an invoice can leave held while the  *)
(* cache still has it.                                                      *)
(***************************************************************************)
EXTENDS Integers, Sequences, SequencesExt

CONSTANTS
    Ids, Memos, Hashes, NoHash, NoId,
    MaxEntries,      \* maxEntries of the store
    CacheEntries,    \* maxEntries of the cache
    Ttl,             \* ttlMs of the cache
    Life,            \* an invoice's time to its deadline
    MaxClock         \* bound on the clock

VARIABLES held, byMemo, cache, clock, made

vars == <<held, byMemo, cache, clock, made>>

Statuses == {"PENDING", "PAID", "CANCELLED", "EXPIRED"}

Init ==
    /\ held = <<>> /\ cache = <<>>
    /\ byMemo = [m \in Memos |-> NoId]
    /\ clock = 0
    /\ made = {}

Without(s, i) == SelectSeq(s, LAMBDA e : e.id # i)

Find(s, i) == {s[k] : k \in {n \in 1..Len(s) : s[n].id = i}}

-----------------------------------------------------------------------------
\* MemoryStorage.  Each operation is a pure step on a store [held, byMemo].
Store == [held |-> held, byMemo |-> byMemo]

RemoveEntry(st, inv) ==
    [held |-> Without(st.held, inv.id),
     byMemo |-> IF st.byMemo[inv.memo] = inv.id THEN [st.byMemo EXCEPT ![inv.memo] = NoId] ELSE st.byMemo]

\* The store holds at most MaxEntries invoices, so one eviction makes room.
EvictIfFull(st) == IF Len(st.held) >= MaxEntries THEN RemoveEntry(st, Head(st.held)) ELSE st

SetEntry(st, inv) ==
    LET room == IF Find(st.held, inv.id) = {} THEN EvictIfFull(st)
                ELSE [st EXCEPT !.held = Without(@, inv.id)]
    IN [held |-> Append(room.held, inv), byMemo |-> [room.byMemo EXCEPT ![inv.memo] = inv.id]]

IsPendingInvoiceExpired(inv, now) == inv.status = "PENDING" /\ inv.due <= now

\* In place: the version stays, and so does the identity of the object.
MarkExpired(st) ==
    [st EXCEPT !.held = [k \in 1..Len(@) |->
        IF IsPendingInvoiceExpired(@[k], clock) THEN [@[k] EXCEPT !.status = "EXPIRED"] ELSE @[k]]]

UpdateInvoice(st, inv, status, hash) ==
    SetEntry(st, [inv EXCEPT !.status = status, !.hash = hash, !.version = @ + 1])

\* Loop over all the stored invoices.
HashTaken(st, i, hash) == \E k \in 1..Len(st.held) : st.held[k].id # i /\ st.held[k].hash = hash

-----------------------------------------------------------------------------
\* BoundedCache.
CacheSet(c, inv) ==
    LET longer == Append(Without(c, inv.id), [id |-> inv.id, inv |-> inv, storedAt |-> clock])
    IN IF Len(longer) > CacheEntries THEN Tail(longer) ELSE longer

IsStale(entry) == clock - entry.storedAt >= Ttl

\* What a cached reference shows once the store became st: the object itself.
Shared(c, st) ==
    [k \in 1..Len(c) |->
        IF \E inv \in Find(st.held, c[k].id) : inv.version = c[k].inv.version
        THEN [c[k] EXCEPT !.inv = CHOOSE inv \in Find(st.held, c[k].id) : TRUE] ELSE c[k]]

Become(st, c) ==
    /\ held' = st.held /\ byMemo' = st.byMemo
    /\ cache' = Shared(c, st)

-----------------------------------------------------------------------------
\* InvoiceMemoryService.  The memo is drawn at random; a taken one throws.
CreateInvoice(i, m) ==
    LET inv == [id |-> i, memo |-> m, status |-> "PENDING", version |-> 1, hash |-> NoHash,
                due |-> clock + Life]
    IN /\ i \notin made /\ byMemo[m] = NoId
       /\ Become(SetEntry(Store, inv), CacheSet(cache, inv))
       /\ made' = made \cup {i}
       /\ UNCHANGED clock

\* A fresh entry answers without the store; it moves to the end of the cache.
GetInvoiceById(i) ==
    LET swept == MarkExpired(Store)
        stored == Find(swept.held, i)
    IN /\ i \in made
       /\ \/ /\ \E e \in Find(cache, i) : ~IsStale(e) /\ cache' = Append(Without(cache, i), e)
             /\ UNCHANGED <<held, byMemo>>
          \/ /\ \A e \in Find(cache, i) : IsStale(e)
             /\ \/ stored = {} /\ Become(swept, Without(cache, i))
                \/ \E inv \in stored : Become(swept, CacheSet(cache, inv))
       /\ UNCHANGED <<clock, made>>

\* expected is the caller's version, 0 for none: a wrong one throws before the
\* cache is touched, everything else that fails after it was invalidated.
MarkAsPaid(i, hash, expected) ==
    LET swept == MarkExpired(Store)
        found == Find(swept.held, i)
    IN /\ i \in made
       /\ IF \E inv \in found : expected \notin {0, inv.version}
          THEN Become(swept, cache)
          ELSE IF \E inv \in found : inv.status = "PENDING" /\ ~HashTaken(swept, i, hash)
          THEN \E inv \in found :
                  LET done == UpdateInvoice(swept, inv, "PAID", hash)
                  IN Become(done, CacheSet(Without(cache, i), Last(done.held)))
          ELSE Become(swept, Without(cache, i))
       /\ UNCHANGED <<clock, made>>

CancelInvoice(i, expected) ==
    LET swept == MarkExpired(Store)
        found == {inv \in Find(swept.held, i) : inv.status = "PENDING" /\ expected \in {0, inv.version}}
    IN /\ i \in made
       /\ \/ found = {} /\ Become(swept, cache)
          \/ \E inv \in found :
                LET done == UpdateInvoice(swept, inv, "CANCELLED", NoHash)
                IN Become(done, CacheSet(Without(cache, i), Last(done.held)))
       /\ UNCHANGED <<clock, made>>

\* The sweep of the service drops the whole cache when it expired anything.
MarkExpiredInvoices ==
    LET swept == MarkExpired(Store)
    IN /\ Become(swept, IF swept.held # held THEN <<>> ELSE cache)
       /\ UNCHANGED <<clock, made>>

\* getInvoiceByMemo, getAllInvoices, getInvoicesBySeller and getStats sweep the
\* store, go past the cache and change nothing else.
ReadStore ==
    /\ Become(MarkExpired(Store), cache)
    /\ UNCHANGED <<clock, made>>

InvalidateInvoiceCache(i) ==
    /\ cache' = Without(cache, i)
    /\ UNCHANGED <<held, byMemo, clock, made>>

Tick ==
    /\ clock < MaxClock /\ clock' = clock + 1
    /\ UNCHANGED <<held, byMemo, cache, made>>

\* A new id is like any other: the next unused one stands for them all.
FreshId == IF made = Ids THEN {} ELSE {CHOOSE i \in Ids : i \notin made}

Next ==
    \/ \E i \in FreshId, m \in Memos : CreateInvoice(i, m)
    \/ \E i \in Ids : GetInvoiceById(i) \/ InvalidateInvoiceCache(i)
    \/ \E i \in Ids, expected \in 0..1 : CancelInvoice(i, expected) \/ \E h \in Hashes : MarkAsPaid(i, h, expected)
    \/ MarkExpiredInvoices \/ ReadStore \/ Tick

Spec == Init /\ [][Next]_vars

-----------------------------------------------------------------------------
TypeOK ==
    /\ Len(held) <= MaxEntries /\ Len(cache) <= CacheEntries
    /\ \A k \in 1..Len(held) : held[k].status \in Statuses /\ held[k].version \in 1..2
    /\ \A m \in Memos : byMemo[m] \in Ids \cup {NoId}

\* The read cache never contradicts the store: whatever writes, expiries,
\* failed writes and evictions came between, a cached invoice that is still
\* stored is the stored one, and one that is not was evicted.
CacheIsStorage ==
    \A k \in 1..Len(cache) : Find(held, cache[k].id) \subseteq {cache[k].inv}

\* A payment memo finds exactly the invoice that carries it: the memo index is
\* the inverse of the store, also after evictions and rewrites of an entry.
MemoIndexExact ==
    \A m \in Memos : {held[k].id : k \in {n \in 1..Len(held) : held[n].memo = m}}
                        = IF byMemo[m] = NoId THEN {} ELSE {byMemo[m]}

\* One transaction settles one invoice: among the invoices the store retains, no
\* hash occurs twice, and exactly the PAID ones carry one.
OneInvoicePerHash ==
    \A k, n \in 1..Len(held) :
        /\ (held[k].hash # NoHash) <=> (held[k].status = "PAID")
        /\ k # n /\ held[k].hash # NoHash => held[k].hash # held[n].hash

\* An invoice that stays in the store leaves PENDING once and for good, it is
\* paid only before its deadline and expires only after it.
LeavesPendingOnce ==
    \A i \in made : \A old \in Find(held, i) : \A new \in Find(held', i) :
       new.status # old.status =>
          /\ old.status = "PENDING"
          /\ (new.status = "EXPIRED") <=> (old.due <= clock)
=============================================================================
