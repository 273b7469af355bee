---------------------------- MODULE MessageProofs ---------------------------
(***************************************************************************)
(* Proofs about the e-mail queue (EmailQueue), the notification feed and   *)
(* the delivery log (Notifications), the risk score (Approvals) and the    *)
(* capability tokens (AccessGrants), each for any number of actors and any *)
(* limits.                                                                 *)
(***************************************************************************)
EXTENDS EmailQueue, Notifications, Approvals, AccessGrants, FiniteSetTheorems, SequenceTheorems, TLAPS

(* A downward closed set of positions is an interval. *)
LEMMA Prefix ==
  ASSUME NEW n \in Nat, NEW S \in SUBSET (1..n), \A i \in S : \A j \in 1..i : j \in S
  PROVE  Cardinality(S) \in 0..n /\ S = 1..Cardinality(S)
<1>1. IsFiniteSet(1..n) /\ Cardinality(1..n) = n
  BY FS_Interval
<1>2. IsFiniteSet(S) /\ Cardinality(S) <= n
  <2>1. S \in SUBSET (1..n)
    OBVIOUS
  <2> HIDE DEF Cardinality, IsFiniteSet
  <2> QED BY <1>1, <2>1, FS_Subset
<1>3. Cardinality(S) \in Nat
  BY <1>2, FS_CardinalityType, Zenon
<1> DEFINE c == Cardinality(S)
<1>4. \A i \in S : i <= c
  <2> SUFFICES ASSUME NEW i \in S PROVE i <= c
    BY Zenon
  <2>1. 1..i \in SUBSET S /\ i \in Nat /\ i >= 1
    OBVIOUS
  <2>2. Cardinality(1..i) <= Cardinality(S)
    BY <1>2, <2>1, FS_Subset, Zenon
  <2>3. Cardinality(1..i) = i
    BY <2>1, FS_Interval
  <2> QED BY <2>2, <2>3, Zenon
<1>5. S \in SUBSET (1..c)
  BY <1>3, <1>4
<1>6. IsFiniteSet(1..c) /\ Cardinality(1..c) = c
  BY <1>3, FS_Interval
<1>7. S = 1..c
  BY <1>5, <1>6, FS_Subset, Zenon
<1> QED BY <1>2, <1>3, <1>7

---------------------------------------------------------------------------
(* The email queue *)

(* The queue starts empty, with nothing accepted by the provider. *)
LEMMA QueueStart ==
  ASSUME Init PROVE QueueInv
<1>1. /\ rows = [r \in Requests |-> NoRow] /\ req = [r \in Requests |-> IdleRequest]
      /\ worker = IdleWorker /\ accepted = [r \in Requests |-> 0] /\ faults = 0
  BY Zenon DEF Init
<1>2. NoRow \in RowType /\ NoRow.status = "none" /\ IdleRequest \in RequestType /\ IdleRequest.pc = "idle"
  BY Zenon DEF NoRow, IdleRequest, RowType, RequestType
<1>3. IdleWorker \in WorkerType /\ IdleWorker.pc = "idle" /\ IdleWorker.batch = {}
  BY Zenon DEF IdleWorker, WorkerType
<1>4. \A r \in Requests : rows[r].status = "none" /\ req[r].pc = "idle" /\ accepted[r] = 0
  BY <1>1, <1>2, Zenon
<1>5. Existing = {}
  BY <1>4, Zenon DEF Existing
<1>6. QueueTyped
  BY <1>1, <1>2, <1>3, Zenon DEF QueueTyped
<1>7. WorkerInv
  BY <1>1, <1>3, Zenon DEF WorkerInv
<1>8. OneDeliveryPerKey
  BY <1>4, <1>5, Zenon DEF OneDeliveryPerKey
<1>9. \A r \in Requests : ~AboutToBeSent(r)
  BY <1>1, <1>3, <1>4, Zenon DEF AboutToBeSent
<1> QED BY <1>4, <1>6, <1>7, <1>8, <1>9, Zenon DEF QueueInv

(* A request moves on without touching a row. *)
LEMMA RequestMoves ==
  ASSUME QueueInv, NEW r \in Requests, NEW n \in RequestType, req' = [req EXCEPT ![r] = n],
         req[r].pc # "returned",
         n.pc = "returned" => \E e \in Existing : rows[e].key = n.key /\ rows[e].body = n.body,
         rows' = rows, worker' = worker, accepted' = accepted, faults' = faults
  PROVE  QueueInv'
<1>1. QueueTyped /\ req \in [Requests -> RequestType]
  BY Zenon DEF QueueInv, QueueTyped
<1>2. req' \in [Requests -> RequestType] /\ req'[r] = n /\ \A s \in Requests \ {r} : req'[s] = req[s]
  BY <1>1, Zenon
<1>3. QueueTyped'
  BY <1>1, <1>2, Zenon DEF QueueTyped
<1>4. Existing' = Existing
  BY Zenon DEF Existing
<1>5. OneDeliveryPerKey'
  BY <1>2, <1>4, Zenon DEF QueueInv, OneDeliveryPerKey
<1>6. WorkerInv'
  BY <1>4, Zenon DEF QueueInv, WorkerInv
<1>7. \A s \in Requests : req'[s].pc # "returned" => rows'[s].status = "none"
  BY <1>2, Zenon DEF QueueInv
<1>8. \A s \in Requests : AboutToBeSent(s)' <=> AboutToBeSent(s)
  BY Zenon DEF AboutToBeSent
<1> QED BY <1>3, <1>5, <1>6, <1>7, <1>8, Zenon DEF QueueInv

(* Answering a request keeps what it asks for. *)
LEMMA AnsweredKeeps ==
  ASSUME QueueInv, NEW r \in Requests,
         NEW out \in {"invalid", "rate_limited", "cap", "over_cap", "recheck", "reserve", "over_quota",
                      "create", "returned", "conflict"},
         Answered(r, out)
  PROVE  \E n \in RequestType : /\ req' = [req EXCEPT ![r] = n] /\ n.pc = out
                                /\ n.key = req[r].key /\ n.body = req[r].body
<1>1. req \in [Requests -> RequestType] /\ req[r] \in RequestType
  BY Zenon DEF QueueInv, QueueTyped
<1> DEFINE n == [req[r] EXCEPT !.pc = out]
<1>2. n \in RequestType /\ n.pc = out /\ n.key = req[r].key /\ n.body = req[r].body
  BY <1>1, Zenon DEF RequestType
<1>3. req' = [req EXCEPT ![r] = n]
  BY <1>1, Zenon DEF Answered
<1> QED BY <1>2, <1>3, Zenon

(* A request that is answered changes nothing else. *)
LEMMA AnswerMoves ==
  ASSUME QueueInv, NEW r \in Requests, req[r].pc # "returned",
         NEW out \in {"invalid", "rate_limited", "cap", "over_cap", "recheck", "reserve", "over_quota",
                      "create", "returned", "conflict"},
         Answered(r, out),
         out = "returned" => \E e \in Existing : rows[e].key = req[r].key /\ rows[e].body = req[r].body,
         rows' = rows, worker' = worker, accepted' = accepted, faults' = faults
  PROVE  QueueInv'
<1>1. PICK n \in RequestType : /\ req' = [req EXCEPT ![r] = n] /\ n.pc = out
                               /\ n.key = req[r].key /\ n.body = req[r].body
  BY AnsweredKeeps
<1> QED BY <1>1, RequestMoves, Zenon

(* A row with the key of the request answers it. *)
LEMMA AnswerFromMoves ==
  ASSUME QueueInv, NEW r \in Requests, req[r].pc # "returned", NEW e \in WithKeyOf(r), AnswerFrom(r, e),
         rows' = rows, worker' = worker, accepted' = accepted, faults' = faults
  PROVE  QueueInv'
<1>1. e \in Existing /\ rows[e].key = req[r].key
  BY Zenon DEF WithKeyOf
<1>2. CASE rows[e].body = req[r].body
  <2>1. Answered(r, "returned")
    BY <1>2, Zenon DEF AnswerFrom
  <2> QED BY <1>1, <1>2, <2>1, AnswerMoves, Zenon
<1>3. CASE rows[e].body # req[r].body
  <2>1. Answered(r, "conflict")
    BY <1>3, Zenon DEF AnswerFrom
  <2> QED BY <2>1, AnswerMoves, Zenon
<1> QED BY <1>2, <1>3, Zenon

(* Every step of enqueueEmail keeps the invariant of the queue. *)
LEMMA RequestStep ==
  ASSUME QueueInv, NEW r \in Requests,
         Enqueue(r) \/ FirstLookup(r) \/ RateOnly(r) \/ InvoiceCap(r) \/ Recheck(r)
  PROVE  QueueInv'
<1>0. /\ rows' = rows /\ worker' = worker /\ accepted' = accepted /\ faults' = faults
      /\ req[r].pc # "returned"
  BY Zenon DEF Enqueue, FirstLookup, RateOnly, InvoiceCap, Recheck
<1>1. CASE Enqueue(r)
  <2>1. CASE Answered(r, "invalid")
    BY <1>0, <2>1, AnswerMoves, Zenon
  <2>2. ASSUME NEW key \in Keys \cup {NoKey}, NEW body \in Bodies,
               req' = [req EXCEPT ![r] =
                       [pc |-> IF key = NoKey THEN "rate" ELSE "lookup", key |-> key, body |-> body]]
        PROVE  QueueInv'
    <3> DEFINE pc == IF key = NoKey THEN "rate" ELSE "lookup"
               n == [pc |-> pc, key |-> key, body |-> body]
    <3>1. pc \in {"rate", "lookup"}
      BY Zenon
    <3>2. req' = [req EXCEPT ![r] = n]
      BY <2>2, Zenon
    <3> HIDE DEF pc
    <3>3. n \in RequestType /\ n.pc # "returned"
      BY <3>1, Zenon DEF RequestType
    <3> HIDE DEF n
    <3> QED BY <1>0, <3>2, <3>3, RequestMoves, Zenon
  <2> QED BY <1>1, <2>1, <2>2, Zenon DEF Enqueue
<1>2. RateOutcome(r) => QueueInv'
  <2>1. \A out : out = (IF walletSends < WalletLimit THEN "cap" ELSE "rate_limited")
                   => out \in {"cap", "rate_limited"}
    BY Zenon
  <2> QED BY <1>0, <2>1, AnswerMoves, Zenon DEF RateOutcome
<1>3. \A e \in WithKeyOf(r) : AnswerFrom(r, e) => QueueInv'
  BY <1>0, AnswerFromMoves, Zenon
<1>4. CASE FirstLookup(r)
  BY <1>2, <1>3, <1>4, Zenon DEF FirstLookup
<1>5. CASE RateOnly(r)
  BY <1>2, <1>5, Zenon DEF RateOnly
<1>6. CASE InvoiceCap(r)
  <2>1. PICK out \in {"over_cap", "reserve", "recheck"} : Answered(r, out)
    BY <1>6, Zenon DEF InvoiceCap
  <2> QED BY <1>0, <2>1, AnswerMoves, Zenon
<1>7. CASE Recheck(r)
  <2>1. Reserve(r) => QueueInv'
    BY <1>0, AnswerMoves, Zenon DEF Reserve
  <2> QED BY <1>3, <1>7, <2>1, Zenon DEF Recheck
<1> QED BY <1>1, <1>4, <1>5, <1>6, <1>7, Zenon

(* A row is created for a request whose key no row has. *)
LEMMA CreateStep ==
  ASSUME QueueInv, NEW r \in Requests, Create(r)
  PROVE  QueueInv'
<1>0. /\ req[r].pc = "create" /\ worker' = worker /\ accepted' = accepted /\ faults' = faults
      /\ QueueTyped /\ rows[r].status = "none" /\ req[r] \in RequestType
  BY Zenon DEF Create, QueueInv, QueueTyped
<1>1. CASE WithKeyOf(r) # {}
  <2>1. PICK e \in WithKeyOf(r) : AnswerFrom(r, e)
    BY <1>1, Zenon DEF Create
  <2>2. rows' = rows
    BY <1>1, Zenon DEF Create
  <2> QED BY <1>0, <2>1, <2>2, AnswerFromMoves, Zenon
<1>2. CASE WithKeyOf(r) = {}
  <2> DEFINE st == IF breaker THEN "PAUSED" ELSE "PENDING"
             new == [status |-> st, key |-> req[r].key, body |-> req[r].body, attempts |-> 0, due |-> TRUE]
  <2>1. rows' = [rows EXCEPT ![r] = new] /\ Answered(r, "returned")
    BY <1>2, Zenon DEF Create
  <2>2. st \in {"PAUSED", "PENDING"}
    BY Zenon
  <2> HIDE DEF st
  <2>3. new \in RowType /\ new.status = st /\ new.key = req[r].key /\ new.body = req[r].body
    BY <1>0, <2>2, Zenon DEF RowType, RequestType
  <2> HIDE DEF new
  <2>4. /\ rows' \in [Requests -> RowType] /\ rows'[r] = new
        /\ \A s \in Requests \ {r} : rows'[s] = rows[s]
    BY <1>0, <2>1, <2>3, Zenon DEF QueueTyped
  <2>5. PICK n \in RequestType : /\ req' = [req EXCEPT ![r] = n] /\ n.pc = "returned"
                                 /\ n.key = req[r].key /\ n.body = req[r].body
    BY <2>1, AnsweredKeeps, Zenon
  <2>6. /\ req' \in [Requests -> RequestType] /\ req'[r] = n
        /\ \A s \in Requests \ {r} : req'[s] = req[s]
    BY <1>0, <2>5, Zenon DEF QueueTyped
  <2>7. Existing' = Existing \cup {r} /\ r \notin Existing
    BY <1>0, <2>2, <2>3, <2>4, Zenon DEF Existing
  <2>8. QueueTyped'
    BY <1>0, <2>4, <2>6, Zenon DEF QueueTyped
  <2>9. WorkerInv'
    <3>1. WorkerInv /\ \A s \in Existing : s # r /\ rows'[s] = rows[s]
      BY <2>4, <2>7, Zenon DEF QueueInv, Existing
    <3> QED BY <1>0, <2>7, <3>1, Zenon DEF WorkerInv
  <2>10. OneDeliveryPerKey'
    <3>0. OneDeliveryPerKey /\ \A s \in Existing : s \in Requests /\ s # r /\ rows'[s] = rows[s]
      BY <2>4, <2>7, Zenon DEF QueueInv, Existing
    <3>1. \A s \in Existing : ~(rows[s].key # NoKey /\ rows[s].key = new.key)
      BY <1>2, <2>3, Zenon DEF WithKeyOf
    <3>2. \A s, t \in Existing' : rows'[s].key # NoKey /\ rows'[s].key = rows'[t].key => s = t
      BY <2>4, <2>7, <3>0, <3>1 DEF OneDeliveryPerKey
    <3>3. \A s \in Requests : req'[s].pc = "returned" =>
            \E e \in Existing' : rows'[e].key = req'[s].key /\ rows'[e].body = req'[s].body
      BY <2>3, <2>4, <2>5, <2>6, <2>7, <3>0 DEF OneDeliveryPerKey
    <3> QED BY <3>2, <3>3, Zenon DEF OneDeliveryPerKey
  <2>11. \A s \in Requests : req'[s].pc # "returned" => rows'[s].status = "none"
    BY <2>4, <2>5, <2>6, Zenon DEF QueueInv
  <2>12. \A s \in Requests : AboutToBeSent(s)' <=> AboutToBeSent(s)
    BY <1>0, <2>2, <2>3, <2>4, Zenon DEF AboutToBeSent
  <2> QED BY <1>0, <2>8, <2>9, <2>10, <2>11, <2>12, Zenon DEF QueueInv
<1> QED BY <1>1, <1>2, Zenon

(* The worker moves on without touching a row. *)
LEMMA WorkerMoves ==
  ASSUME QueueInv, worker' \in WorkerType, rows' = rows, req' = req, accepted' = accepted,
         faults' \in Nat, faults' = faults \/ faults' > 0, WorkerInv',
         faults' = 0 => \A r \in Requests : AboutToBeSent(r)' <=> AboutToBeSent(r)
  PROVE  QueueInv'
<1>1. Existing' = Existing
  BY Zenon DEF Existing
<1>2. QueueTyped'
  BY Zenon DEF QueueInv, QueueTyped
<1>3. OneDeliveryPerKey'
  BY <1>1, Zenon DEF QueueInv, OneDeliveryPerKey
<1> QED BY <1>2, <1>3 DEF QueueInv

(* The worker gives up the row it holds. *)
LEMMA IdleMoves ==
  ASSUME QueueInv, worker' = IdleWorker, rows' = rows, req' = req, accepted' = accepted,
         faults' \in Nat, faults' > 0 \/ (faults' = faults /\ worker.pc # "write")
  PROVE  QueueInv'
<1>1. /\ IdleWorker \in WorkerType /\ IdleWorker.pc = "idle" /\ IdleWorker.batch = {}
  BY Zenon DEF IdleWorker, WorkerType
<1>2. WorkerInv'
  BY <1>1, Zenon DEF WorkerInv
<1>3. faults' = 0 => \A r \in Requests : AboutToBeSent(r)' <=> AboutToBeSent(r)
  BY <1>1 DEF AboutToBeSent
<1>4. faults' = faults \/ faults' > 0
  BY Zenon
<1> QED BY <1>1, <1>2, <1>3, <1>4, WorkerMoves, Zenon

(* The worker's reads: the due row, the breaker and the wallet's limit. *)
LEMMA ReadStep ==
  ASSUME QueueInv, StartBatch \/ ReadDelivery
  PROVE  QueueInv'
<1>0. /\ rows' = rows /\ req' = req /\ accepted' = accepted /\ faults' = faults
      /\ worker.pc \in {"idle", "next"} /\ QueueTyped /\ WorkerInv /\ faults \in Nat
      /\ worker \in WorkerType
  BY Zenon DEF StartBatch, ReadDelivery, QueueInv, QueueTyped
<1>1. Existing' = Existing /\ Existing \subseteq Requests
  BY <1>0, Zenon DEF Existing
<1>2. CASE StartBatch
  <2> DEFINE w == [IdleWorker EXCEPT !.pc = "next", !.batch = Pending]
  <2>1. worker' = w /\ Pending \subseteq Existing
    BY <1>2, Zenon DEF StartBatch, Pending
  <2>2. w \in WorkerType /\ w.pc = "next" /\ w.batch = Pending
    BY <1>1, <2>1, Zenon DEF IdleWorker, WorkerType
  <2> HIDE DEF w
  <2>3. WorkerInv'
    BY <1>1, <2>1, <2>2, Zenon DEF WorkerInv
  <2>4. \A r \in Requests : AboutToBeSent(r)' <=> AboutToBeSent(r)
    BY <1>0, <2>1, <2>2, Zenon DEF AboutToBeSent
  <2> QED BY <1>0, <2>1, <2>2, <2>3, <2>4, WorkerMoves, Zenon
<1>3. CASE ReadDelivery
  <2>1. CASE worker' = IdleWorker
    BY <1>0, <2>1, IdleMoves, Zenon
  <2>2. ASSUME NEW id \in worker.batch, rows[id].status \in Terminal,
               worker' = [worker EXCEPT !.batch = @ \ {id}]
        PROVE  QueueInv'
    <3>1. worker' \in WorkerType /\ worker'.pc = worker.pc /\ worker'.batch = worker.batch \ {id}
      BY <1>0, <2>2, Zenon DEF WorkerType
    <3>2. WorkerInv'
      BY <1>0, <1>1, <3>1, Zenon DEF WorkerInv
    <3>3. \A r \in Requests : AboutToBeSent(r)' <=> AboutToBeSent(r)
      BY <1>0, <3>1, Zenon DEF AboutToBeSent
    <3> QED BY <1>0, <3>1, <3>2, <3>3, WorkerMoves, Zenon
  <2>3. ASSUME NEW id \in worker.batch, rows[id].status \notin Terminal,
               NEW pc \in {"write", "send"}, NEW attempt \in Nat, NEW to \in {"PAUSED", "none"},
               pc = "write" => to = "PAUSED",
               worker' = [worker EXCEPT !.batch = @ \ {id}, !.id = id, !.pc = pc,
                                        !.attempt = attempt, !.to = to]
        PROVE  QueueInv'
    <3>1. /\ worker' \in WorkerType /\ worker'.pc = pc /\ worker'.batch = worker.batch \ {id}
          /\ worker'.id = id /\ worker'.to = to
      BY <1>0, <2>3, Zenon DEF WorkerType
    <3>2. id \in Existing
      BY <1>0, Zenon DEF WorkerInv
    <3>3. WorkerInv'
      BY <1>0, <1>1, <2>3, <3>1, <3>2, Zenon DEF WorkerInv
    <3>4. \A r \in Requests : AboutToBeSent(r)' <=> AboutToBeSent(r)
      BY <1>0, <3>1, Zenon DEF AboutToBeSent
    <3> QED BY <1>0, <3>1, <3>3, <3>4, WorkerMoves, Zenon
  <2>4. ASSUME NEW id \in worker.batch, rows[id].status \notin Terminal,
               worker' = [worker EXCEPT !.batch = @ \ {id}, !.id = id,
                       !.pc = IF breaker THEN "write" ELSE "send",
                       !.attempt = IF breaker THEN rows[id].attempts ELSE rows[id].attempts + 1,
                       !.to = IF breaker THEN "PAUSED" ELSE "none"]
        PROVE  QueueInv'
    <3>0. rows[id].attempts \in Nat
      BY <1>0, <1>1, Zenon DEF WorkerInv, QueueTyped, RowType
    <3>00. rows[id].attempts + 1 \in Nat
      BY <3>0
    <3>1. CASE breaker
      BY <2>3, <2>4, <3>0, <3>1, Zenon
    <3>2. CASE ~breaker
      BY <2>3, <2>4, <3>00, <3>2, Zenon
    <3> QED BY <3>1, <3>2, Zenon
  <2> QED BY <1>3, <2>1, <2>2, <2>4, Zenon DEF ReadDelivery
<1> QED BY <1>2, <1>3, Zenon

(* A failed attempt leads to a retry or to the end. *)
LEMMA AfterFailureType == \A permanent \in BOOLEAN : AfterFailure(permanent) \in {"PENDING", "PERMANENTLY_FAILED"}
BY Zenon DEF AfterFailure

(* The provider's answer, or none. *)
LEMMA SendStep ==
  ASSUME QueueInv, Send PROVE QueueInv'
<1>0. /\ rows' = rows /\ req' = req /\ faults' = faults /\ worker.pc = "send"
      /\ QueueTyped /\ WorkerInv /\ worker \in WorkerType /\ faults \in Nat
      /\ accepted \in [Requests -> Nat]
  BY Zenon DEF Send, QueueInv, QueueTyped
<1>1. Existing' = Existing /\ Existing \subseteq Requests
  BY <1>0, Zenon DEF Existing
<1>2. worker.id \in Existing /\ rows[worker.id].status \notin Terminal /\ worker.id \in Requests
  BY <1>0, <1>1, Zenon DEF WorkerInv
<1>3. ASSUME NEW to \in {"PENDING"} \cup Terminal, worker' = [worker EXCEPT !.pc = "write", !.to = to]
      PROVE  /\ worker' \in WorkerType /\ worker'.pc = "write" /\ worker'.to = to
             /\ worker'.id = worker.id /\ WorkerInv'
  <2>1. /\ worker' \in WorkerType /\ worker'.pc = "write" /\ worker'.to = to /\ worker'.id = worker.id
        /\ worker'.batch = worker.batch
    BY <1>0, <1>3, Zenon DEF WorkerType
  <2>2. WorkerInv'
    BY <1>0, <1>1, <1>2, <2>1, Zenon DEF WorkerInv, Terminal
  <2> QED BY <2>1, <2>2, Zenon
<1>4. CASE accepted' = [accepted EXCEPT ![worker.id] = @ + 1]
           /\ worker' = [worker EXCEPT !.pc = "write", !.to = "SENT"]
  <2>1. /\ worker' \in WorkerType /\ worker'.pc = "write" /\ worker'.to = "SENT"
        /\ worker'.id = worker.id /\ WorkerInv'
    BY <1>3, <1>4, Zenon DEF Terminal
  <2>2. /\ accepted' \in [Requests -> Nat] /\ accepted'[worker.id] = accepted[worker.id] + 1
        /\ \A r \in Requests \ {worker.id} : accepted'[r] = accepted[r]
    BY <1>0, <1>2, <1>4
  <2>3. QueueTyped'
    BY <1>0, <2>1, <2>2, Zenon DEF QueueTyped
  <2>4. OneDeliveryPerKey'
    BY <1>0, <1>1, Zenon DEF QueueInv, OneDeliveryPerKey
  <2>5. AboutToBeSent(worker.id)' /\ ~AboutToBeSent(worker.id)
    BY <1>0, <1>2, <2>1, Zenon DEF AboutToBeSent, Terminal
  <2>6. \A r \in Requests \ {worker.id} : AboutToBeSent(r)' <=> AboutToBeSent(r)
    BY <1>0, <2>1, Zenon DEF AboutToBeSent
  <2>7. ASSUME faults = 0 PROVE \A r \in Requests : accepted'[r] = IF AboutToBeSent(r)' THEN 1 ELSE 0
    <3>1. \A r \in Requests : accepted[r] = IF AboutToBeSent(r) THEN 1 ELSE 0
      BY <2>7, Zenon DEF QueueInv
    <3>2. accepted[worker.id] = 0
      BY <1>2, <2>5, <3>1, Zenon
    <3>3. accepted'[worker.id] = 1
      BY <2>2, <3>2
    <3>4. \A r \in Requests \ {worker.id} : accepted'[r] = IF AboutToBeSent(r)' THEN 1 ELSE 0
      BY <2>2, <2>6, <3>1, Zenon
    <3>5. ASSUME NEW r \in Requests PROVE accepted'[r] = IF AboutToBeSent(r)' THEN 1 ELSE 0
      <4>1. CASE r = worker.id
        <5>1. AboutToBeSent(r)'
          BY <1>0, <2>1, <4>1, Zenon DEF AboutToBeSent
        <5> QED BY <3>3, <4>1, <5>1, Zenon
      <4>2. CASE r # worker.id
        BY <3>4, <4>2, Zenon
      <4> QED BY <4>1, <4>2, Zenon
    <3> QED BY <3>5, Zenon
  <2> QED BY <1>0, <2>1, <2>3, <2>4, <2>7, Zenon DEF QueueInv
<1>5. ASSUME NEW permanent \in BOOLEAN,
             worker' = [worker EXCEPT !.pc = "write", !.to = AfterFailure(permanent)],
             accepted' = accepted
      PROVE  QueueInv'
  <2>1. AfterFailure(permanent) \in {"PENDING", "PERMANENTLY_FAILED"}
    BY AfterFailureType, Zenon
  <2>2. /\ worker' \in WorkerType /\ worker'.pc = "write" /\ worker'.to # "SENT" /\ WorkerInv'
    BY <1>3, <1>5, <2>1, Zenon DEF Terminal
  <2>3. \A r \in Requests : AboutToBeSent(r)' <=> AboutToBeSent(r)
    BY <1>0, <2>2, Zenon DEF AboutToBeSent
  <2> QED BY <1>0, <1>5, <2>2, <2>3, WorkerMoves, Zenon
<1> QED BY <1>4, <1>5, Zenon DEF Send

(* Rows change their status and schedule, never what they are about. *)
LEMMA RowsMove ==
  ASSUME QueueInv, rows' \in [Requests -> RowType], req' = req,
         \A r \in Requests : /\ rows'[r].key = rows[r].key /\ rows'[r].body = rows[r].body
                             /\ rows'[r].status = "none" <=> rows[r].status = "none"
  PROVE  /\ Existing' = Existing /\ OneDeliveryPerKey'
         /\ \A r \in Requests : req'[r].pc # "returned" => rows'[r].status = "none"
<1>1. Existing' = Existing /\ Existing \subseteq Requests
  BY Zenon DEF Existing
<1>2. OneDeliveryPerKey'
  BY <1>1 DEF QueueInv, OneDeliveryPerKey
<1> QED BY <1>1, <1>2, Zenon DEF QueueInv

(* The worker writes down what the provider answered. *)
LEMMA WriteStep ==
  ASSUME QueueInv, WriteStatus PROVE QueueInv'
<1>0. /\ req' = req /\ accepted' = accepted /\ faults' = faults /\ worker.pc \in {"write", "rewrite"}
      /\ QueueTyped /\ WorkerInv /\ worker \in WorkerType /\ rows \in [Requests -> RowType]
  BY Zenon DEF WriteStatus, QueueInv, QueueTyped
<1> DEFINE id == worker.id
<1>1. /\ id \in Requests /\ id \in Existing /\ rows[id].status \notin Terminal /\ rows[id] \in RowType
      /\ worker.to \in {"PENDING", "PAUSED"} \cup Terminal
  BY <1>0, Zenon DEF WorkerInv, Existing, WorkerType
<1> DEFINE d == (worker.to = "PAUSED" /\ rows[id].due)
           n == [rows[id] EXCEPT !.status = worker.to, !.attempts = worker.attempt, !.due = d]
<1>2. d \in BOOLEAN
  BY Zenon
<1>3. rows' = [rows EXCEPT ![id] = n]
  BY <1>0, <1>1, Zenon DEF WriteStatus
<1> HIDE DEF d
<1>4. /\ n \in RowType /\ n.status = worker.to /\ n.key = rows[id].key /\ n.body = rows[id].body
  BY <1>0, <1>1, <1>2, Zenon DEF RowType, WorkerType
<1> HIDE DEF n
<1>5. /\ rows' \in [Requests -> RowType] /\ rows'[id] = n
      /\ \A r \in Requests \ {id} : rows'[r] = rows[r]
  BY <1>0, <1>1, <1>3, <1>4, Zenon
<1>6. rows'[id].status # "none" /\ rows[id].status # "none"
  BY <1>1, <1>4, <1>5, Zenon DEF Existing, Terminal
<1>7. /\ Existing' = Existing /\ OneDeliveryPerKey'
      /\ \A r \in Requests : req'[r].pc # "returned" => rows'[r].status = "none"
  <2>1. \A r \in Requests : /\ rows'[r].key = rows[r].key /\ rows'[r].body = rows[r].body
                            /\ rows'[r].status = "none" <=> rows[r].status = "none"
    BY <1>4, <1>5, <1>6, Zenon
  <2> QED BY <1>0, <1>5, <2>1, RowsMove, Zenon
<1> DEFINE w == [IdleWorker EXCEPT !.pc = "next", !.batch = worker.batch]
<1>8. worker' = w
  BY Zenon DEF WriteStatus
<1>9. w \in WorkerType /\ w.pc = "next" /\ w.batch = worker.batch
  BY <1>0, Zenon DEF IdleWorker, WorkerType
<1> HIDE DEF w
<1>10. QueueTyped'
  BY <1>0, <1>5, <1>8, <1>9, Zenon DEF QueueTyped
<1>11. WorkerInv'
  BY <1>0, <1>7, <1>8, <1>9, Zenon DEF WorkerInv
<1>12. ASSUME faults = 0 PROVE \A r \in Requests : accepted'[r] = IF AboutToBeSent(r)' THEN 1 ELSE 0
  <2>1. worker.pc = "write" /\ rows[id].status # "SENT"
    BY <1>0, <1>1, <1>12 DEF WorkerInv, Terminal
  <2>2. \A r \in Requests : AboutToBeSent(r)' <=> AboutToBeSent(r)
    BY <1>4, <1>5, <1>8, <1>9, <2>1, Zenon DEF AboutToBeSent
  <2> QED BY <1>0, <1>12, <2>2, Zenon DEF QueueInv
<1> QED BY <1>0, <1>7, <1>10, <1>11, <1>12, Zenon DEF QueueInv

(* The worker writes down a failed attempt. *)
LEMMA FailStep ==
  ASSUME QueueInv, WriteFails \/ Restart PROVE QueueInv'
<1>0. /\ rows' = rows /\ req' = req /\ accepted' = accepted /\ faults' = faults + 1 /\ faults \in Nat
      /\ worker \in WorkerType /\ WorkerInv
  BY Zenon DEF WriteFails, Restart, QueueInv, QueueTyped
<1>1. faults' \in Nat /\ faults' > 0
  BY <1>0
<1>2. CASE worker' = IdleWorker
  BY <1>0, <1>1, <1>2, IdleMoves, Zenon
<1>3. CASE worker.pc = "write" /\ worker' = [worker EXCEPT !.pc = "rewrite", !.to = AfterFailure(FALSE)]
  <2>1. AfterFailure(FALSE) \in {"PENDING", "PERMANENTLY_FAILED"}
    BY AfterFailureType, Zenon
  <2>2. /\ worker' \in WorkerType /\ worker'.pc = "rewrite" /\ worker'.id = worker.id
        /\ worker'.batch = worker.batch /\ worker'.to \in {"PENDING", "PERMANENTLY_FAILED"}
    BY <1>0, <1>3, <2>1, Zenon DEF WorkerType, Terminal
  <2>3. Existing' = Existing
    BY <1>0, Zenon DEF Existing
  <2>4. WorkerInv'
    <3>1. worker.batch \subseteq Existing /\ worker.id \in Existing /\ rows[worker.id].status \notin Terminal
      BY <1>0, <1>3, Zenon DEF WorkerInv
    <3>2. worker'.to # "none"
      BY <2>2, Zenon
    <3> QED BY <1>0, <1>1, <2>2, <2>3, <3>1, <3>2, Zenon DEF WorkerInv
  <2>5. faults' # 0
    BY <1>1
  <2> QED BY <1>0, <1>1, <2>2, <2>4, <2>5, WorkerMoves, Zenon
<1> QED BY <1>2, <1>3, Zenon DEF WriteFails, Restart

(* The worker dies, and later takes up a row it left behind. *)
LEMMA ScheduleStep ==
  ASSUME QueueInv, BackoffOver \/ Resume \/ Breaker PROVE QueueInv'
<1>0. /\ req' = req /\ worker' = worker /\ accepted' = accepted /\ faults' = faults
      /\ QueueTyped /\ WorkerInv /\ rows \in [Requests -> RowType]
  BY Zenon DEF BackoffOver, Resume, Breaker, QueueInv, QueueTyped
<1>1. /\ rows' \in [Requests -> RowType]
      /\ \A r \in Requests : /\ rows'[r].key = rows[r].key /\ rows'[r].body = rows[r].body
                             /\ rows'[r].status \notin Terminal \cup {"none"} \/ rows'[r].status = rows[r].status
                             /\ rows'[r].status = rows[r].status \/ rows[r].status = "PAUSED"
  <2>1. CASE Breaker
    BY <1>0, <2>1, Zenon DEF Breaker
  <2>2. CASE BackoffOver
    <3>1. PICK r \in Existing : rows' = [rows EXCEPT ![r].due = TRUE]
      BY <2>2, Zenon DEF BackoffOver
    <3>2. r \in Requests /\ rows[r] \in RowType
      BY <1>0, Zenon DEF Existing
    <3> DEFINE n == [rows[r] EXCEPT !.due = TRUE]
    <3>3. n \in RowType /\ n.key = rows[r].key /\ n.body = rows[r].body /\ n.status = rows[r].status
      BY <3>2, Zenon DEF RowType
    <3>4. rows' = [rows EXCEPT ![r] = n]
      BY <1>0, <3>1, <3>2, Zenon
    <3> HIDE DEF n
    <3>5. rows' \in [Requests -> RowType] /\ rows'[r] = n /\ \A s \in Requests \ {r} : rows'[s] = rows[s]
      BY <1>0, <3>2, <3>3, <3>4, Zenon
    <3> QED BY <3>3, <3>5, Zenon
  <2>3. CASE Resume
    <3> SUFFICES ASSUME NEW r \in Requests
                 PROVE  /\ rows'[r] \in RowType
                        /\ rows'[r].key = rows[r].key /\ rows'[r].body = rows[r].body
                        /\ rows'[r].status \notin Terminal \cup {"none"} \/ rows'[r].status = rows[r].status
                        /\ rows'[r].status = rows[r].status \/ rows[r].status = "PAUSED"
      BY <2>3, Zenon DEF Resume
    <3>1. rows[r] \in RowType
      BY <1>0, Zenon
    <3>2. CASE rows[r].status = "PAUSED"
      <4> DEFINE n == [rows[r] EXCEPT !.status = "PENDING", !.due = TRUE]
      <4>1. rows'[r] = n
        BY <2>3, <3>2, Zenon DEF Resume
      <4>2. n \in RowType /\ n.key = rows[r].key /\ n.body = rows[r].body /\ n.status = "PENDING"
        BY <3>1, Zenon DEF RowType
      <4> HIDE DEF n
      <4> QED BY <3>2, <4>1, <4>2, Zenon DEF Terminal
    <3>3. CASE rows[r].status # "PAUSED"
      BY <2>3, <3>1, <3>3, Zenon DEF Resume
    <3> QED BY <3>2, <3>3, Zenon
  <2> QED BY <2>1, <2>2, <2>3, Zenon
<1>2. \A r \in Requests : /\ (rows'[r].status = "none" <=> rows[r].status = "none")
                          /\ (rows'[r].status \in Terminal <=> rows[r].status \in Terminal)
                          /\ (rows'[r].status = "SENT" <=> rows[r].status = "SENT")
  BY <1>1, Zenon DEF Terminal
<1>3. /\ Existing' = Existing /\ OneDeliveryPerKey'
      /\ \A r \in Requests : req'[r].pc # "returned" => rows'[r].status = "none"
  BY <1>0, <1>1, <1>2, RowsMove, Zenon
<1>4. QueueTyped'
  BY <1>0, <1>1, Zenon DEF QueueTyped
<1>5. WorkerInv'
  <2>1. Existing \subseteq Requests
    BY Zenon DEF Existing
  <2> QED BY <1>0, <1>2, <1>3, <2>1, Zenon DEF WorkerInv
<1>6. \A r \in Requests : AboutToBeSent(r)' <=> AboutToBeSent(r)
  BY <1>0, <1>2, Zenon DEF AboutToBeSent
<1> QED BY <1>0, <1>3, <1>4, <1>5, <1>6, Zenon DEF QueueInv

(* Every step of a request or of the worker keeps the invariant of the queue. *)
LEMMA QueueStep ==
  ASSUME QueueInv, Next PROVE QueueInv'
BY RequestStep, CreateStep, ReadStep, SendStep, WriteStep, FailStep, ScheduleStep, Zenon DEF Next

(* Under the invariant no send is accepted twice without a fault. *)
LEMMA QueueOnce ==
  ASSUME QueueInv PROVE OneDeliveryPerKey /\ NoDoubleSendWithoutFault
<1>1. ASSUME faults = 0, NEW r \in Requests
      PROVE  accepted[r] <= 1 /\ (rows[r].status = "PERMANENTLY_FAILED" => accepted[r] = 0)
  <2>1. accepted[r] = IF AboutToBeSent(r) THEN 1 ELSE 0
    BY <1>1, Zenon DEF QueueInv
  <2>2. rows[r].status = "PERMANENTLY_FAILED" => ~AboutToBeSent(r)
    BY Zenon DEF QueueInv, WorkerInv, AboutToBeSent, Terminal
  <2> QED BY <2>1, <2>2
<1> QED BY <1>1, Zenon DEF QueueInv, NoDoubleSendWithoutFault

(* A sent or permanently failed row is not written again. *)
LEMMA QueueFinal ==
  ASSUME QueueInv, Next PROVE TerminalIsFinal
<1> SUFFICES ASSUME NEW r \in Requests, rows[r].status \in Terminal PROVE rows'[r] = rows[r]
  BY Zenon DEF TerminalIsFinal
<1>0. rows \in [Requests -> RowType]
  BY Zenon DEF QueueInv, QueueTyped
<1>1. CASE \E s \in Requests : Create(s)
  <2>1. PICK s \in Requests : Create(s)
    BY <1>1, Zenon
  <2>2. s # r
    BY <2>1, Zenon DEF Create, QueueInv, Terminal
  <2>3. rows' = rows \/ \E n : rows' = [rows EXCEPT ![s] = n]
    BY <2>1, Zenon DEF Create
  <2> QED BY <1>0, <2>2, <2>3, Zenon
<1>2. CASE WriteStatus
  <2>1. worker.id # r
    BY <1>2, Zenon DEF WriteStatus, QueueInv, WorkerInv
  <2> QED BY <1>0, <1>2, <2>1, Zenon DEF WriteStatus
<1>3. CASE BackoffOver
  BY <1>0, <1>3, Zenon DEF BackoffOver, Terminal
<1>4. CASE Resume
  BY <1>4, Zenon DEF Resume, Terminal
<1>5. CASE (\E s \in Requests : Enqueue(s) \/ FirstLookup(s) \/ RateOnly(s) \/ InvoiceCap(s) \/ Recheck(s))
           \/ StartBatch \/ ReadDelivery \/ Send \/ WriteFails \/ Restart \/ Breaker
  BY <1>5, Zenon DEF Enqueue, FirstLookup, RateOnly, InvoiceCap, Recheck, StartBatch, ReadDelivery, Send,
              WriteFails, Restart, Breaker
<1> QED BY <1>1, <1>2, <1>3, <1>4, <1>5, Zenon DEF Next
---------------------------------------------------------------------------
(* The notification feed *)

(* No mandatory notification is suppressed, and what is delivered is not. *)
LEMMA RouteReason ==
  \A type, p : LET route == Routing(type, p) IN
    type \in MandatoryTypes \/ route.deliver => route.reason # "SUPPRESSED_BY_PREFERENCE"
<1> SUFFICES ASSUME NEW type, NEW p
             PROVE  LET route == Routing(type, p) IN
                    type \in MandatoryTypes \/ route.deliver => route.reason # "SUPPRESSED_BY_PREFERENCE"
  BY Zenon
<1>1. CASE type \in MandatoryTypes
  <2>1. Urgency(type) = "mandatory"
    BY <1>1, Zenon DEF Urgency
  <2>2. \/ \E c : Routing(type, p) = [deliver |-> TRUE, channels |-> c, reason |-> "PREFERENCE_ACCEPTED"]
        \/ \E c : Routing(type, p) = [deliver |-> TRUE, channels |-> c, reason |-> "MANDATORY_OVERRIDE"]
    BY <2>1, Zenon DEF Routing
  <2> QED BY <2>2
<1>2. CASE type \notin MandatoryTypes
  <2>1. Urgency(type) # "mandatory"
    BY <1>2, Zenon DEF Urgency
  <2>2. \/ Routing(type, p) = [deliver |-> FALSE, channels |-> {}, reason |-> "SUPPRESSED_BY_PREFERENCE"]
        \/ \E c : Routing(type, p) = [deliver |-> TRUE, channels |-> c, reason |-> "PREFERENCE_ACCEPTED"]
    BY <2>1, Zenon DEF Routing
  <2> QED BY <1>2, <2>2
<1> QED BY <1>1, <1>2, Zenon

(* The feed starts empty. *)
LEMMA FeedStart ==
  ASSUME FeedInit PROVE FeedInv
<1>1. DOMAIN feed = {} /\ audit = {} /\ status = [i \in Invoices |-> "PENDING"]
  BY DEF FeedInit
<1> QED BY <1>1, Zenon DEF FeedInv, FeedMatchesStatus, MandatoryNeverSuppressed

(* An emitted event keeps the feed true if it is true itself. *)
LEMMA EmitKeeps ==
  ASSUME FeedInv, NEW i \in Invoices, NEW type, NEW detail, Emit(i, type, detail), status' = status,
         Category(type) = "invoice_lifecycle" => status[i] # "PENDING" /\ type = StatusType(status[i])
  PROVE  FeedInv'
<1> DEFINE key == <<i, type, detail>>
           route == Routing(type, prefs[Owner[i]])
           entry == [type |-> type, to |-> Owner[i], reason |-> route.reason]
<1>1. /\ audit' = audit \cup {entry}
      /\ feed' = IF route.deliver /\ key \notin DOMAIN feed
                 THEN [k \in DOMAIN feed \cup {key} |-> IF k = key THEN "unread" ELSE feed[k]]
                 ELSE feed
  BY Zenon DEF Emit
<1>2. type \in MandatoryTypes \/ route.deliver => route.reason # "SUPPRESSED_BY_PREFERENCE"
  BY RouteReason, Zenon
<1>3. entry.type = type /\ entry.to = Owner[i] /\ entry.reason = route.reason
  BY Zenon
<1>4. key[1] = i /\ key[2] = type
  BY Zenon
<1> HIDE DEF key, route, entry
<1>5. \/ DOMAIN feed' = DOMAIN feed
      \/ DOMAIN feed' = DOMAIN feed \cup {key} /\ route.deliver
  <2>1. CASE route.deliver /\ key \notin DOMAIN feed
    BY <1>1, <2>1, Zenon
  <2>2. CASE ~(route.deliver /\ key \notin DOMAIN feed)
    BY <1>1, <2>2, Zenon
  <2> QED BY <2>1, <2>2, Zenon
<1>6. \A a \in audit' : a.type \in MandatoryTypes => a.reason # "SUPPRESSED_BY_PREFERENCE"
  BY <1>1, <1>2, <1>3, Zenon DEF FeedInv, MandatoryNeverSuppressed
<1>7. \A k \in DOMAIN feed' : \E a \in audit' :
          a.type = k[2] /\ a.to = Owner[k[1]] /\ a.reason # "SUPPRESSED_BY_PREFERENCE"
  <2> SUFFICES ASSUME NEW k \in DOMAIN feed'
               PROVE  \E a \in audit' : a.type = k[2] /\ a.to = Owner[k[1]] /\ a.reason # "SUPPRESSED_BY_PREFERENCE"
    BY Zenon
  <2>1. CASE k \in DOMAIN feed
    BY <1>1, <2>1, Zenon DEF FeedInv, MandatoryNeverSuppressed
  <2>2. CASE k = key /\ route.deliver
    BY <1>1, <1>2, <1>3, <1>4, <2>2, Zenon
  <2> QED BY <1>5, <2>1, <2>2, Zenon
<1>8. \A k \in DOMAIN feed' : Category(k[2]) = "invoice_lifecycle" =>
         k[1] \in Invoices /\ status'[k[1]] # "PENDING" /\ k[2] = StatusType(status'[k[1]])
  BY <1>4, <1>5, Zenon DEF FeedInv, FeedMatchesStatus
<1> QED BY <1>6, <1>7, <1>8, Zenon DEF FeedInv, FeedMatchesStatus, MandatoryNeverSuppressed

(* The feed keeps its notifications while something else changes. *)
LEMMA FeedKeeps ==
  ASSUME FeedInv, status' = status, audit' = audit, DOMAIN feed' = DOMAIN feed
  PROVE  FeedInv'
BY Zenon DEF FeedInv, FeedMatchesStatus, MandatoryNeverSuppressed

(* No reminder and no rejection is about the end of an invoice. *)
LEMMA OtherCategories ==
  Category("payment.rejected") # "invoice_lifecycle" /\ Category("invoice.reminder") # "invoice_lifecycle"
BY Zenon DEF Category

(* Every change of a status or of a preference keeps the invariant of the feed. *)
LEMMA FeedStep ==
  ASSUME FeedInv, FeedNext PROVE FeedInv'
<1>1. ASSUME NEW i \in Invoices, Settle(i) PROVE FeedInv'
  <2>1. PICK s \in {"PAID", "EXPIRED", "CANCELLED"} : status' = [status EXCEPT ![i] = s]
    BY <1>1, Zenon DEF Settle
  <2>2. status[i] = "PENDING" /\ feed' = feed /\ audit' = audit
    BY <1>1, Zenon DEF Settle
  <2>3. status \in [Invoices -> {"PENDING", "PAID", "EXPIRED", "CANCELLED"}]
    BY Zenon DEF FeedInv
  <2>4. /\ status' \in [Invoices -> {"PENDING", "PAID", "EXPIRED", "CANCELLED"}]
        /\ \A j \in Invoices : j # i => status'[j] = status[j]
    BY <2>1, <2>3, Zenon
  <2>5. \A k \in DOMAIN feed : Category(k[2]) = "invoice_lifecycle" =>
           k[1] \in Invoices /\ k[1] # i /\ status[k[1]] # "PENDING" /\ k[2] = StatusType(status[k[1]])
    BY <2>2, Zenon DEF FeedInv, FeedMatchesStatus
  <2> QED BY <2>2, <2>4, <2>5, Zenon DEF FeedInv, FeedMatchesStatus, MandatoryNeverSuppressed
<1>2. ASSUME NEW i \in Invoices, syncInvoiceNotifications(i) PROVE FeedInv'
  BY <1>2, EmitKeeps, Zenon DEF syncInvoiceNotifications
<1>3. ASSUME NEW i \in Invoices, NEW d \in Details, notifyPaymentRejected(i, d) PROVE FeedInv'
  BY <1>3, EmitKeeps, OtherCategories, Zenon DEF notifyPaymentRejected
<1>4. ASSUME NEW i \in Invoices, NEW d \in Details, notifyInvoiceReminder(i, d) PROVE FeedInv'
  BY <1>4, EmitKeeps, OtherCategories, Zenon DEF notifyInvoiceReminder
<1>5. ASSUME NEW s \in Sellers, savePreferences(s) PROVE FeedInv'
  BY <1>5, FeedKeeps, Zenon DEF savePreferences
<1>6. ASSUME NEW s \in Sellers, markAllRead(s) PROVE FeedInv'
  BY <1>6, FeedKeeps, Zenon DEF markAllRead
<1>7. ASSUME NEW s \in Sellers, NEW k \in DOMAIN feed, markRead(s, k) PROVE FeedInv'
  BY <1>7, FeedKeeps, Zenon DEF markRead
<1> QED BY <1>1, <1>2, <1>3, <1>4, <1>5, <1>6, <1>7, Zenon DEF FeedNext

(* Emitting an event again neither drops its notification nor makes it unread. *)
LEMMA EmitAgain ==
  ASSUME NEW i, NEW type, NEW detail, Emit(i, type, detail) PROVE NotifiedOnce
<1> DEFINE key == <<i, type, detail>>
           route == Routing(type, prefs[Owner[i]])
<1>1. feed' = IF route.deliver /\ key \notin DOMAIN feed
              THEN [k \in DOMAIN feed \cup {key} |-> IF k = key THEN "unread" ELSE feed[k]]
              ELSE feed
  BY Zenon DEF Emit
<1> HIDE DEF key, route
<1>2. CASE route.deliver /\ key \notin DOMAIN feed
  BY <1>1, <1>2, Zenon DEF NotifiedOnce
<1>3. CASE ~(route.deliver /\ key \notin DOMAIN feed)
  BY <1>1, <1>3, Zenon DEF NotifiedOnce
<1> QED BY <1>2, <1>3, Zenon

(* A status that was announced is not announced again. *)
LEMMA FeedFinal ==
  ASSUME FeedNext PROVE NotifiedOnce
<1>1. ASSUME NEW i \in Invoices, Settle(i) PROVE NotifiedOnce
  BY <1>1, Zenon DEF Settle, NotifiedOnce
<1>2. ASSUME NEW i \in Invoices, syncInvoiceNotifications(i) PROVE NotifiedOnce
  BY <1>2, EmitAgain, Zenon DEF syncInvoiceNotifications
<1>3. ASSUME NEW i \in Invoices, NEW d \in Details, notifyPaymentRejected(i, d) PROVE NotifiedOnce
  BY <1>3, EmitAgain, Zenon DEF notifyPaymentRejected
<1>4. ASSUME NEW i \in Invoices, NEW d \in Details, notifyInvoiceReminder(i, d) PROVE NotifiedOnce
  BY <1>4, EmitAgain, Zenon DEF notifyInvoiceReminder
<1>5. ASSUME NEW s \in Sellers, savePreferences(s) PROVE NotifiedOnce
  BY <1>5, Zenon DEF savePreferences, NotifiedOnce
<1>6. ASSUME NEW s \in Sellers, markAllRead(s) PROVE NotifiedOnce
  BY <1>6, Zenon DEF markAllRead, NotifiedOnce
<1>7. ASSUME NEW s \in Sellers, NEW k \in DOMAIN feed, markRead(s, k) PROVE NotifiedOnce
  BY <1>7, Zenon DEF markRead, NotifiedOnce
<1> QED BY <1>1, <1>2, <1>3, <1>4, <1>5, <1>6, <1>7, Zenon DEF FeedNext

---------------------------------------------------------------------------
(* The delivery log *)

(* Recording a delivery replaces what the log says of it and of nothing else. *)
LEMMA RecordedKeeps ==
  ASSUME MailConstants, log \in Seq(LogRecord), NEW rec \in LogRecord,
         \A i, j \in 1..Len(log) : i # j => log[i].id # log[j].id
  PROVE  /\ Recorded(rec) \in Seq(LogRecord)
         /\ \A i \in 1..Len(Recorded(rec)) :
              \/ Recorded(rec)[i] = rec
              \/ Recorded(rec)[i].id # rec.id /\ \E j \in 1..Len(log) : Recorded(rec)[i] = log[j]
         /\ \A i, j \in 1..Len(Recorded(rec)) : i # j => Recorded(rec)[i].id # Recorded(rec)[j].id
<1> DEFINE kept == IF Len(log) >= LogCapacity THEN Tail(log) ELSE log
           place == {i \in 1..Len(kept) : kept[i].id = rec.id}
           res == IF place # {} THEN [i \in 1..Len(kept) |-> IF i \in place THEN rec ELSE kept[i]]
                  ELSE IF Position(rec.id) # {} THEN <<rec>> \o kept
                  ELSE Append(kept, rec)
<1>0. Recorded(rec) = res
  BY Zenon DEF Recorded
<1>1. /\ kept \in Seq(LogRecord)
      /\ \A i \in 1..Len(kept) : \E j \in 1..Len(log) : kept[i] = log[j]
      /\ \A i, j \in 1..Len(kept) : i # j => kept[i].id # kept[j].id
  <2>0. Len(log) \in Nat
    BY LenProperties, Zenon
  <2>1. CASE Len(log) >= LogCapacity
    <3>1. log # <<>> /\ Len(log) > 0
      BY <2>0, <2>1, EmptySeq DEF MailConstants
    <3>2. /\ Tail(log) \in Seq(LogRecord) /\ Len(Tail(log)) = Len(log) - 1
          /\ \A i \in 1..Len(Tail(log)) : Tail(log)[i] = log[i+1]
      BY <3>1, HeadTailProperties, Zenon
    <3>3. \A i \in 1..Len(Tail(log)) : i + 1 \in 1..Len(log)
      BY <2>0, <3>2
    <3>4. \A i, j \in 1..Len(Tail(log)) : i # j => i + 1 # j + 1
      BY <2>0, <3>2
    <3>5. kept = Tail(log)
      BY <2>1, Zenon
    <3> HIDE DEF kept
    <3> QED BY <3>2, <3>3, <3>4, <3>5
  <2>2. CASE ~(Len(log) >= LogCapacity)
    BY <2>2, Zenon
  <2> QED BY <2>1, <2>2, Zenon
<1> HIDE DEF kept
<1>2. Len(kept) \in Nat /\ \A i \in 1..Len(kept) : kept[i] \in LogRecord
  BY <1>1, LenProperties, ElementOfSeq, Zenon
<1>3. /\ res \in Seq(LogRecord)
      /\ \A i \in 1..Len(res) : res[i] = rec \/ (res[i].id # rec.id /\ \E j \in 1..Len(kept) : res[i] = kept[j])
      /\ \A i, j \in 1..Len(res) : i # j => res[i].id # res[j].id
  <2>1. CASE place # {}
    <3>1. res = [i \in 1..Len(kept) |-> IF i \in place THEN rec ELSE kept[i]]
      BY <2>1, Zenon
    <3> HIDE DEF res
    <3>2. \A i \in 1..Len(kept) : res[i] = (IF i \in place THEN rec ELSE kept[i]) /\ res[i] \in LogRecord
      BY <1>2, <3>1, Zenon
    <3>3. res \in Seq(LogRecord) /\ Len(res) = Len(kept)
      BY <1>2, <3>1, <3>2
    <3>4. \A i \in 1..Len(res) : res[i] = rec \/ (res[i].id # rec.id /\ \E j \in 1..Len(kept) : res[i] = kept[j])
      BY <3>2, <3>3, Zenon
    <3>5. \A i \in 1..Len(res) : res[i].id = kept[i].id
      BY <3>2, <3>3, Zenon
    <3> QED BY <1>1, <3>3, <3>4, <3>5
  <2>2. CASE place = {} /\ Position(rec.id) # {}
    <3>1. res = <<rec>> \o kept
      BY <2>2, Zenon
    <3> HIDE DEF res
    <3>2. <<rec>> \in Seq(LogRecord) /\ Len(<<rec>>) = 1 /\ <<rec>>[1] = rec
      OBVIOUS
    <3>3. res \in Seq(LogRecord) /\ Len(res) = 1 + Len(kept)
      BY <1>1, <3>1, <3>2, ConcatProperties
    <3>4. res[1] = rec
      BY <1>1, <1>2, <3>1, <3>2, ConcatProperties
    <3>5. \A i \in 1..Len(res) : i # 1 => res[i] = kept[i-1] /\ i - 1 \in 1..Len(kept)
      BY <1>1, <1>2, <3>1, <3>2, <3>3, ConcatProperties
    <3>6. \A i \in 1..Len(kept) : kept[i].id # rec.id
      BY <2>2, Zenon
    <3>7. ASSUME NEW i \in 1..Len(res), NEW j \in 1..Len(res), i # j, i # 1, j # 1
          PROVE  res[i].id # res[j].id
      <4>1. i - 1 # j - 1
        BY <3>7
      <4>2. res[i] = kept[i-1] /\ res[j] = kept[j-1] /\ i - 1 \in 1..Len(kept) /\ j - 1 \in 1..Len(kept)
        BY <3>5, <3>7, Zenon
      <4> QED BY <1>1, <4>1, <4>2
    <3>8. \A i \in 1..Len(res) : i # 1 => res[i].id # res[1].id
      BY <3>4, <3>5, <3>6, Zenon
    <3> QED BY <3>3, <3>4, <3>5, <3>6, <3>7, <3>8, Zenon
  <2>3. CASE place = {} /\ Position(rec.id) = {}
    <3>1. res = Append(kept, rec)
      BY <2>3, Zenon
    <3> HIDE DEF res
    <3>2. /\ res \in Seq(LogRecord) /\ Len(res) = Len(kept) + 1 /\ res[Len(kept) + 1] = rec
          /\ \A i \in 1..Len(kept) : res[i] = kept[i]
      BY <1>1, <3>1, AppendProperties
    <3>3. \A i \in 1..Len(res) : i \in 1..Len(kept) \/ i = Len(kept) + 1
      BY <1>2, <3>2
    <3>4. \A i \in 1..Len(kept) : kept[i].id # rec.id
      BY <2>3, Zenon
    <3>5. \A i \in 1..Len(res) : res[i] = rec \/ (res[i].id # rec.id /\ \E j \in 1..Len(kept) : res[i] = kept[j])
      BY <3>2, <3>3, <3>4, Zenon
    <3>6. ASSUME NEW i \in 1..Len(res), NEW j \in 1..Len(res), i # j PROVE res[i].id # res[j].id
      <4>1. CASE i \in 1..Len(kept) /\ j \in 1..Len(kept)
        BY <1>1, <3>2, <3>6, <4>1, Zenon
      <4>2. CASE i \in 1..Len(kept) /\ j = Len(kept) + 1
        BY <3>2, <3>4, <4>2, Zenon
      <4>3. CASE i = Len(kept) + 1 /\ j \in 1..Len(kept)
        BY <3>2, <3>4, <4>3, Zenon
      <4> QED BY <3>3, <3>6, <4>1, <4>2, <4>3, Zenon
    <3> QED BY <3>2, <3>5, <3>6, Zenon
  <2> QED BY <2>1, <2>2, <2>3, Zenon
<1> HIDE DEF res
<1>4. \A i \in 1..Len(res) :
        res[i] = rec \/ (res[i].id # rec.id /\ \E j \in 1..Len(log) : res[i] = log[j])
  BY <1>1, <1>3
<1> QED BY <1>0, <1>3, <1>4, Zenon

(* The delivery log starts empty. *)
LEMMA MailStart ==
  ASSUME MailConstants, MailInit PROVE MailInv
<1>1. /\ mail = [m \in Mails |-> [pc |-> "idle", category |-> "none"]]
      /\ log = <<>> /\ tries = [m \in Mails |-> 0] /\ told = {}
  BY Zenon DEF MailInit
<1>2. log \in Seq(LogRecord) /\ 1..Len(log) = {}
  BY <1>1
<1>3. /\ mail \in [Mails -> [pc : {"idle", "send", "accepted", "sent", "failed"}, category : MailCategories]]
      /\ \A m \in Mails : mail[m].pc = "idle" /\ tries[m] = 0
  BY <1>1, Zenon DEF MailCategories
<1>4. RetriesSpent /\ ProblemsStay
  BY <1>2, <1>3, Zenon DEF RetriesSpent, ProblemsStay
<1> QED BY <1>1, <1>2, <1>3, <1>4, Zenon DEF MailInv

(* What every step does: one message moves on, and its record, if any, is written. *)
LEMMA MailMoves ==
  ASSUME MailConstants, MailInv, NEW m \in Mails,
         NEW n \in [pc : {"idle", "send", "accepted", "sent", "failed"}, category : MailCategories],
         mail' = [mail EXCEPT ![m] = n], NEW k \in Nat, tries' = [tries EXCEPT ![m] = k],
         n.pc = "idle" => k = 0, n.pc = "send" => k < MaxTries,
         n.pc = "failed" /\ n.category \in Retryable => k = MaxTries,
         told' \in {told, told \cup {m}}, m \in told' => n.pc = "sent",
         mail[m].pc \in {"sent", "failed"} => n.pc \in {"sent", "failed"},
         \/ log' = log /\ told' = told
         \/ \E rec \in LogRecord : /\ rec.id = m /\ log' = Recorded(rec) /\ n.pc \in {"sent", "failed"}
                                   /\ m \in told' => rec.status \in {"bounced", "complained"}
  PROVE  MailInv'
<1>1. /\ mail \in [Mails -> [pc : {"idle", "send", "accepted", "sent", "failed"}, category : MailCategories]]
      /\ tries \in [Mails -> Nat] /\ log \in Seq(LogRecord) /\ told \subseteq Mails
      /\ ProblemsStay /\ RetriesSpent
  BY Zenon DEF MailInv
<1>2. /\ mail' \in [Mails -> [pc : {"idle", "send", "accepted", "sent", "failed"}, category : MailCategories]]
      /\ mail'[m] = n /\ \A x \in Mails \ {m} : mail'[x] = mail[x]
  BY <1>1, Zenon
<1>3. tries' \in [Mails -> Nat] /\ tries'[m] = k /\ \A x \in Mails \ {m} : tries'[x] = tries[x]
  BY <1>1, Zenon
<1>4. told' \subseteq Mails /\ \A x \in told' : x = m \/ x \in told
  BY <1>1, Zenon
<1>5. \A x \in Mails : /\ mail'[x].pc = "idle" => tries'[x] = 0
                       /\ mail'[x].pc = "send" => tries'[x] < MaxTries
                       /\ x \in told' => mail'[x].pc = "sent"
  BY <1>2, <1>3, <1>4 DEF MailInv
<1>6. RetriesSpent'
  BY <1>1, <1>2, <1>3, Zenon DEF RetriesSpent
<1>7. /\ log' \in Seq(LogRecord)
      /\ \A i \in 1..Len(log') : mail'[log'[i].id].pc \in {"sent", "failed"}
      /\ ProblemsStay'
  <2>0. \A i \in 1..Len(log) : log[i].id \in Mails /\ mail[log[i].id].pc \in {"sent", "failed"}
    <3>1. \A i \in 1..Len(log) : log[i] \in LogRecord
      BY <1>1, ElementOfSeq, Zenon
    <3> QED BY <3>1, Zenon DEF MailInv, LogRecord
  <2>1. CASE log' = log /\ told' = told
    BY <1>1, <1>2, <2>0, <2>1 DEF ProblemsStay
  <2>2. ASSUME NEW rec \in LogRecord, rec.id = m, log' = Recorded(rec), n.pc \in {"sent", "failed"},
               m \in told' => rec.status \in {"bounced", "complained"}
        PROVE  /\ log' \in Seq(LogRecord)
               /\ \A i \in 1..Len(log') : mail'[log'[i].id].pc \in {"sent", "failed"}
               /\ ProblemsStay'
    <3>1. /\ log' \in Seq(LogRecord)
          /\ \A i \in 1..Len(log') :
               log'[i] = rec \/ (log'[i].id # rec.id /\ \E j \in 1..Len(log) : log'[i] = log[j])
          /\ \A i, j \in 1..Len(log') : i # j => log'[i].id # log'[j].id
      BY <1>1, <2>2, RecordedKeeps DEF ProblemsStay
    <3>2. \A i \in 1..Len(log') : /\ mail'[log'[i].id].pc \in {"sent", "failed"}
                                  /\ log'[i].id \in told' => log'[i].status \in {"bounced", "complained"}
      <4> SUFFICES ASSUME NEW i \in 1..Len(log')
                   PROVE  /\ mail'[log'[i].id].pc \in {"sent", "failed"}
                          /\ log'[i].id \in told' => log'[i].status \in {"bounced", "complained"}
        BY Zenon
      <4>1. CASE log'[i] = rec
        BY <1>2, <2>2, <4>1, Zenon
      <4>2. CASE log'[i].id # rec.id /\ \E j \in 1..Len(log) : log'[i] = log[j]
        BY <1>1, <1>2, <1>4, <2>0, <2>2, <4>2 DEF ProblemsStay
      <4> QED BY <3>1, <4>1, <4>2, Zenon
    <3> QED BY <3>1, <3>2, Zenon DEF ProblemsStay
  <2> QED BY <2>1, <2>2, Zenon
<1> QED BY <1>2, <1>3, <1>4, <1>5, <1>6, <1>7, Zenon DEF MailInv

(* A message moves on without a record, or its delivery ends with one. *)
LEMMA MailQuiet ==
  ASSUME MailConstants, MailInv, NEW m \in Mails,
         NEW n \in [pc : {"idle", "send", "accepted", "sent", "failed"}, category : MailCategories],
         mail' = [mail EXCEPT ![m] = n], NEW k \in Nat, tries' = [tries EXCEPT ![m] = k],
         n.pc \in {"send", "accepted"}, mail[m].pc \in {"idle", "send"}, n.pc = "send" => k < MaxTries,
         told' = told, log' = log
  PROVE  MailInv'
<1>1. m \notin told
  BY Zenon DEF MailInv
<1> QED BY <1>1, MailMoves, Zenon

(* A mail ends as failed, and the log says so. *)
LEMMA MailEnds ==
  ASSUME MailConstants, MailInv, NEW m \in Mails,
         NEW n \in [pc : {"idle", "send", "accepted", "sent", "failed"}, category : MailCategories],
         mail' = [mail EXCEPT ![m] = n], NEW k \in Nat, tries' = [tries EXCEPT ![m] = k],
         n.pc \in {"sent", "failed"}, n.pc = "failed" /\ n.category \in Retryable => k = MaxTries,
         told' = told, mail[m].pc \in {"idle", "send", "accepted"},
         NEW rec \in LogRecord, rec.id = m, log' = Recorded(rec)
  PROVE  MailInv'
<1>1. m \notin told
  BY Zenon DEF MailInv
<1> QED BY <1>1, MailMoves, Zenon

(* The provider reports on a mail that was sent. *)
LEMMA MailReported ==
  ASSUME MailConstants, MailInv, NEW m \in Mails, mail[m].pc = "sent",
         mail' = mail, tries' = tries, told' = told \cup {m},
         NEW rec \in LogRecord, rec.id = m, rec.status \in {"bounced", "complained"}, log' = Recorded(rec)
  PROVE  MailInv'
<1> DEFINE n == mail[m]
           k == tries[m]
<1>1. n \in [pc : {"idle", "send", "accepted", "sent", "failed"}, category : MailCategories] /\ k \in Nat
  BY Zenon DEF MailInv
<1>2. mail' = [mail EXCEPT ![m] = n] /\ tries' = [tries EXCEPT ![m] = k]
  BY Zenon DEF MailInv
<1>3. n.pc = "sent"
  BY Zenon
<1> HIDE DEF n, k
<1>4. \E r \in LogRecord : /\ r.id = m /\ log' = Recorded(r) /\ n.pc \in {"sent", "failed"}
                            /\ m \in told' => r.status \in {"bounced", "complained"}
  BY <1>3, Zenon
<1>5. /\ n.pc # "idle" /\ n.pc # "send" /\ n.pc # "failed" /\ n.pc \in {"sent", "failed"}
  BY <1>3, Zenon
<1>6. told' \in {told, told \cup {m}}
  BY Zenon
<1> QED BY <1>1, <1>2, <1>3, <1>4, <1>5, <1>6, MailMoves, Zenon

(* A provider's error has one of the known categories. *)
LEMMA ClassifyType == \A error : Classify(error) \in MailCategories
BY Zenon DEF Classify, MailCategories

(* Every attempt, answer and report keeps the invariant of the delivery log. *)
LEMMA MailStep ==
  ASSUME MailConstants, MailInv, MailNext PROVE MailInv'
<1> PICK m \in Mails : Deliver(m) \/ Accept(m) \/ Refuse(m) \/ RecordSent(m) \/ Webhook(m)
  BY Zenon DEF MailNext
<1> DEFINE MailType == [pc : {"idle", "send", "accepted", "sent", "failed"}, category : MailCategories]
           EndedAs(category) == [pc |-> "failed", category |-> category]
           FailedAs(category) == [id |-> m, status |-> "failed", category |-> category]
<1>1. /\ mail \in [Mails -> MailType] /\ mail[m] \in MailType
      /\ tries \in [Mails -> Nat] /\ tries[m] \in Nat
      /\ mail[m].pc = "idle" => tries[m] = 0
      /\ mail[m].pc = "send" => tries[m] < MaxTries
      /\ m \in told => mail[m].pc = "sent"
  BY Zenon DEF MailInv
<1>2. tries = [tries EXCEPT ![m] = tries[m]] /\ mail = [mail EXCEPT ![m] = mail[m]]
  BY <1>1, Zenon
<1>3. \A category \in MailCategories : /\ EndedAs(category) \in MailType /\ EndedAs(category).pc = "failed"
                                       /\ EndedAs(category).category = category
                                       /\ FailedAs(category) \in LogRecord /\ FailedAs(category).id = m
  BY Zenon DEF LogRecord
<1>4. MaxTries > 0 /\ MaxTries \in Nat
  BY DEF MailConstants
<1> HIDE DEF EndedAs, FailedAs
<1>5. CASE Deliver(m)
  <2>0. mail[m].pc = "idle" /\ tries' = tries /\ told' = told /\ m \notin told
    BY <1>1, <1>5, Zenon DEF Deliver
  <2>1. CASE mail' = [mail EXCEPT ![m].pc = "send"] /\ log' = log
    <3> DEFINE n == [mail[m] EXCEPT !.pc = "send"]
    <3>1. n \in MailType /\ n.pc = "send" /\ mail' = [mail EXCEPT ![m] = n]
      BY <1>1, <2>1, Zenon
    <3> HIDE DEF n, MailType
    <3>2. tries[m] = 0 /\ 0 < MaxTries
      BY <1>1, <1>4, <2>0, Zenon
    <3>3. tries' = [tries EXCEPT ![m] = tries[m]]
      BY <1>2, <2>0, Zenon
    <3>4. /\ n \in [pc : {"idle", "send", "accepted", "sent", "failed"}, category : MailCategories]
          /\ n.pc \in {"send", "accepted"} /\ mail[m].pc \in {"idle", "send"}
          /\ tries[m] \in Nat /\ tries[m] < MaxTries
      BY <1>1, <2>0, <3>1, <3>2, Zenon DEF MailType
    <3> QED BY <2>0, <2>1, <3>1, <3>3, <3>4, MailQuiet, Zenon
  <2>2. CASE /\ mail' = [mail EXCEPT ![m] = EndedAs("invalid_recipient")]
             /\ log' = Recorded(FailedAs("invalid_recipient"))
    <3>1. "invalid_recipient" \in MailCategories /\ "invalid_recipient" \notin Retryable
      BY Zenon DEF MailCategories, Retryable
    <3>2. tries' = [tries EXCEPT ![m] = tries[m]]
      BY <1>2, <2>0, Zenon
    <3>3. /\ EndedAs("invalid_recipient") \in MailType /\ EndedAs("invalid_recipient").pc = "failed"
          /\ EndedAs("invalid_recipient").category \notin Retryable
          /\ FailedAs("invalid_recipient") \in LogRecord /\ FailedAs("invalid_recipient").id = m
      BY <1>3, <3>1, Zenon
    <3> QED BY <1>1, <2>0, <2>2, <3>2, <3>3, MailEnds, Zenon
  <2> QED BY <1>5, <2>1, <2>2, Zenon DEF Deliver, EndedAs, FailedAs
<1>6. CASE Accept(m)
  <2> DEFINE n == [mail[m] EXCEPT !.pc = "accepted"]
             k == tries[m] + 1
  <2>1. n \in MailType /\ n.pc = "accepted" /\ mail' = [mail EXCEPT ![m] = n]
    BY <1>1, <1>6, Zenon DEF Accept
  <2>2. k \in Nat /\ tries' = [tries EXCEPT ![m] = k]
    <3>1. k \in Nat
      BY <1>1
    <3> QED BY <1>6, <3>1, Zenon DEF Accept
  <2>3. mail[m].pc = "send" /\ log' = log /\ told' = told /\ m \notin told
    BY <1>1, <1>6, Zenon DEF Accept
  <2> HIDE DEF n, k
  <2> QED BY <2>1, <2>2, <2>3, MailQuiet, Zenon
<1>7. CASE Refuse(m)
  <2> DEFINE k == tries[m] + 1
  <2>1. k \in Nat /\ tries' = [tries EXCEPT ![m] = k] /\ k <= MaxTries
    BY <1>1, <1>4, <1>7 DEF Refuse
  <2>2. mail[m].pc = "send" /\ told' = told /\ m \notin told
    BY <1>1, <1>7, Zenon DEF Refuse
  <2>3. PICK error \in SUBSET Signals :
          LET category == Classify(error) IN
          IF category \in Retryable /\ k < MaxTries
          THEN mail' = mail /\ log' = log
          ELSE /\ mail' = [mail EXCEPT ![m] = EndedAs(category)]
               /\ log' = Recorded(FailedAs(category))
    BY <1>7, Zenon DEF Refuse, EndedAs, FailedAs
  <2> DEFINE category == Classify(error)
  <2>4. category \in MailCategories
    BY ClassifyType, Zenon
  <2>5. category \notin Retryable \/ ~(k < MaxTries) => (category \in Retryable => k = MaxTries)
    BY <1>4, <2>1
  <2> HIDE DEF k, category
  <2>6. CASE category \in Retryable /\ k < MaxTries
    <3>1. mail' = mail /\ log' = log
      BY <2>3, <2>6, Zenon DEF category
    <3>2. mail' = [mail EXCEPT ![m] = mail[m]]
      BY <1>2, <3>1, Zenon
    <3> QED BY <1>1, <2>1, <2>2, <2>6, <3>1, <3>2, MailQuiet, Zenon
  <2>7. CASE ~(category \in Retryable /\ k < MaxTries)
    <3>1. mail' = [mail EXCEPT ![m] = EndedAs(category)] /\ log' = Recorded(FailedAs(category))
      BY <2>3, <2>7, Zenon DEF category
    <3>2. /\ EndedAs(category) \in MailType /\ EndedAs(category).pc = "failed"
          /\ EndedAs(category).category = category
          /\ FailedAs(category) \in LogRecord /\ FailedAs(category).id = m
      BY <1>3, <2>4, Zenon
    <3>3. category \in Retryable => k = MaxTries
      BY <2>5, <2>7, Zenon
    <3> QED BY <2>1, <2>2, <3>1, <3>2, <3>3, MailEnds, Zenon
  <2> QED BY <2>6, <2>7, Zenon
<1>8. CASE RecordSent(m)
  <2> DEFINE n == [pc |-> "sent", category |-> "none"]
             rec == [id |-> m, status |-> "sent", category |-> "none"]
  <2>1. n \in MailType /\ n.pc = "sent" /\ rec \in LogRecord /\ rec.id = m
    BY Zenon DEF MailCategories, LogRecord
  <2>2. /\ mail' = [mail EXCEPT ![m] = n] /\ log' = Recorded(rec) /\ tries' = tries /\ told' = told
        /\ mail[m].pc = "accepted" /\ m \notin told
    BY <1>1, <1>8, Zenon DEF RecordSent
  <2> HIDE DEF n, rec
  <2>3. tries' = [tries EXCEPT ![m] = tries[m]]
    BY <1>2, <2>2, Zenon
  <2> QED BY <1>1, <2>1, <2>2, <2>3, MailEnds, Zenon
<1>9. CASE Webhook(m)
  <2>0. mail' = mail /\ tries' = tries /\ mail[m].pc \in {"accepted", "sent"}
    BY <1>9, Zenon DEF Webhook
  <2>1. CASE log' = log /\ told' = told
    BY <2>0, <2>1, Zenon DEF MailInv, RetriesSpent, ProblemsStay
  <2>2. ASSUME Position(m) # {}, told' = told \cup {m}, NEW s \in {"bounced", "complained"},
               log' = Recorded([id |-> m, status |-> s, category |-> "permanent"])
        PROVE  MailInv'
    <3> DEFINE rec == [id |-> m, status |-> s, category |-> "permanent"]
    <3>1. rec \in LogRecord /\ rec.id = m /\ rec.status \in {"bounced", "complained"} /\ log' = Recorded(rec)
      BY <2>2, Zenon DEF LogRecord, MailCategories
    <3>2. mail[m].pc = "sent"
      BY <2>0, <2>2, Zenon DEF MailInv, Position
    <3> HIDE DEF rec
    <3> QED BY <2>0, <2>2, <3>1, <3>2, MailReported, Zenon
  <2> QED BY <1>9, <2>1, <2>2, Zenon DEF Webhook
<1> QED BY <1>5, <1>6, <1>7, <1>8, <1>9, Zenon
---------------------------------------------------------------------------
(* Risk scores *)

(* The risk counters start empty. *)
LEMMA RiskStart ==
  ASSUME RiskInit PROVE RiskInv
<1>1. tick = 0 /\ byTarget = <<>> /\ failures = <<>>
  BY Zenon DEF RiskInit
<1> QED BY <1>1 DEF RiskInv, Ordered

(* Pruning a queue in order leaves exactly its events inside the window, in order. *)
LEMMA PruneProperties ==
  ASSUME RiskConstants, tick \in Nat, NEW q, Ordered(q)
  PROVE  /\ Ordered(Prune(q)) /\ Len(Prune(q)) \in Nat
         /\ \A i \in 1..Len(Prune(q)) : Prune(q)[i] > tick - RiskWindow
<1> DEFINE old == {i \in 1..Len(q) : \A j \in 1..i : q[j] <= tick - RiskWindow}
           c == Cardinality(old)
           n == Len(q)
           p == Prune(q)
<1>1. n \in Nat /\ RiskWindow \in Nat /\ q \in Seq(0..tick)
  BY LenProperties, Zenon DEF Ordered, RiskConstants
<1>2. old \in SUBSET (1..n) /\ \A x \in old : \A y \in 1..x : y \in old
  <2>1. \A x \in 1..n : \A y \in 1..x : y \in 1..n /\ \A j \in 1..y : j \in 1..x
    BY <1>1
  <2> QED BY <2>1, Zenon
<1>3. c \in 0..n /\ old = 1..c
  <2> HIDE DEF old, n
  <2> QED BY <1>1, <1>2, Prefix, Zenon
<1>4. p = SubSeq(q, c + 1, n)
  BY Zenon DEF Prune
<1>5. \A i \in 1..n : q[i] \in 0..tick
  BY <1>1, ElementOfSeq, Zenon
<1>6. ASSUME c < n PROVE q[c + 1] > tick - RiskWindow
  <2>1. c + 1 \in 1..n /\ c + 1 \notin old
    <3> HIDE DEF old, c, n
    <3> QED BY <1>1, <1>3, <1>6
  <2>2. PICK j \in 1..(c + 1) : ~(q[j] <= tick - RiskWindow)
    BY <2>1, Zenon
  <2> HIDE DEF c, old
  <2>3. j \in 1..n /\ (j < c + 1 \/ j = c + 1)
    BY <1>1, <1>3, <2>1, <2>2
  <2>4. q[j] <= q[c + 1]
    BY <1>5, <2>1, <2>3 DEF Ordered
  <2>5. q[j] \in Nat /\ q[c + 1] \in Nat
    BY <1>5, <2>1, <2>3
  <2> QED BY <1>1, <2>2, <2>4, <2>5
<1> HIDE DEF c, old, p
<1>7. \A i \in 1..n : i > c => q[i] > tick - RiskWindow
  <2> SUFFICES ASSUME NEW i \in 1..n, i > c PROVE q[i] > tick - RiskWindow
    BY Zenon
  <2>1. c < n /\ c + 1 \in 1..n /\ (c + 1 < i \/ c + 1 = i)
    BY <1>1, <1>3
  <2>2. q[c + 1] <= q[i]
    BY <1>5, <2>1 DEF Ordered
  <2>3. q[c + 1] \in Nat /\ q[i] \in Nat
    BY <1>5, <2>1
  <2> QED BY <1>1, <1>6, <2>1, <2>2, <2>3
<1>8. /\ p \in Seq(0..tick) /\ Len(p) = n - c /\ Len(p) \in Nat
      /\ \A i \in 1..(n - c) : p[i] = q[c + i] /\ c + i \in 1..n /\ c + i > c
  <2>1. p = [i \in 1..(n - c) |-> q[c + i]]
    BY <1>1, <1>3, <1>4
  <2>2. \A i \in 1..(n - c) : c + i \in 1..n /\ c + i > c
    BY <1>1, <1>3
  <2>3. n - c \in Nat
    BY <1>1, <1>3
  <2> QED BY <1>5, <2>1, <2>2, <2>3
<1>9. \A i, j \in 1..Len(p) : i < j => p[i] <= p[j]
  <2> SUFFICES ASSUME NEW i \in 1..(n - c), NEW j \in 1..(n - c), i < j PROVE p[i] <= p[j]
    BY <1>8, Zenon
  <2>1. c + i < c + j
    BY <1>1, <1>3
  <2> QED BY <1>8, <2>1, Zenon DEF Ordered
<1>10. \A i \in 1..Len(p) : p[i] > tick - RiskWindow
  BY <1>7, <1>8, Zenon
<1> QED BY <1>8, <1>9, <1>10, Zenon DEF Ordered, p

(* Pruning a queue whose events are all inside the window changes nothing. *)
LEMMA PruneIdle ==
  ASSUME RiskConstants, tick \in Nat, NEW q, Ordered(q), \A i \in 1..Len(q) : q[i] > tick - RiskWindow
  PROVE  Prune(q) = q
<1> DEFINE old == {i \in 1..Len(q) : \A j \in 1..i : q[j] <= tick - RiskWindow}
<1>1. Len(q) \in Nat /\ RiskWindow \in Nat /\ q \in Seq(0..tick) /\ \A i \in 1..Len(q) : q[i] \in Nat
  <2>1. q \in Seq(0..tick)
    BY Zenon DEF Ordered
  <2>2. \A i \in 1..Len(q) : q[i] \in 0..tick
    BY <2>1, ElementOfSeq, Zenon
  <2> QED BY <2>1, <2>2, LenProperties DEF RiskConstants
<1>2. old = {}
  <2> SUFFICES ASSUME NEW i \in old PROVE FALSE
    BY Zenon
  <2>1. i \in 1..Len(q) /\ i \in 1..i
    BY <1>1
  <2> QED BY <1>1, <2>1
<1>3. Cardinality(old) = 0
  BY <1>2, FS_EmptySet, Zenon
<1>4. Prune(q) = SubSeq(q, Cardinality(old) + 1, Len(q))
  BY Zenon DEF Prune
<1>5. Prune(q) = SubSeq(q, 1, Len(q))
  <2> HIDE DEF old
  <2>1. Cardinality(old) + 1 = 1
    BY <1>3
  <2> QED BY <1>4, <2>1, Zenon
<1> QED BY <1>1, <1>5

(* Recording an event leaves the queue in order and inside the window, and at least as long as it counted. *)
LEMMA RecordProperties ==
  ASSUME RiskConstants, tick \in Nat, NEW q, Ordered(q)
  PROVE  /\ Ordered(Record(q)) /\ Len(Record(q)) \in Nat /\ Len(Record(q)) >= Len(Prune(q))
         /\ \A i \in 1..Len(Record(q)) : Record(q)[i] > tick - RiskWindow
<1> DEFINE p == Prune(q)
           l == Append(p, tick)
           n == Len(p)
           r == Record(q)
<1>1. /\ Ordered(p) /\ n \in Nat
      /\ \A i \in 1..n : p[i] > tick - RiskWindow
  BY PruneProperties, Zenon
<1>2. p \in Seq(0..tick) /\ RiskWindow \in Nat /\ RiskWindow > 0 /\ tick \in 0..tick
  BY <1>1 DEF Ordered, RiskConstants
<1>3. \A i \in 1..n : p[i] \in 0..tick
  BY <1>2, ElementOfSeq, Zenon
<1> HIDE DEF p
<1>4. /\ l \in Seq(0..tick) /\ Len(l) = n + 1 /\ l[n + 1] = tick
      /\ \A i \in 1..n : l[i] = p[i]
  BY <1>1, <1>2, AppendProperties
<1>5. \A i \in 1..(n + 1) : i \in 1..n \/ i = n + 1
  BY <1>1
<1>6. \A i \in 1..(n + 1) : l[i] > tick - RiskWindow /\ l[i] \in 0..tick
  BY <1>1, <1>2, <1>3, <1>4, <1>5
<1>7. \A i, j \in 1..(n + 1) : i < j => l[i] <= l[j]
  <2> SUFFICES ASSUME NEW i \in 1..(n + 1), NEW j \in 1..(n + 1), i < j PROVE l[i] <= l[j]
    BY Zenon
  <2>1. CASE j = n + 1
    BY <1>4, <1>6, <2>1
  <2>2. CASE j # n + 1
    <3>1. i \in 1..n /\ j \in 1..n
      BY <1>1, <2>2
    <3> QED BY <1>1, <1>4, <3>1, Zenon DEF Ordered
  <2> QED BY <2>1, <2>2, Zenon
<1>8. r = IF Len(l) > MaxEvents THEN Tail(l) ELSE l
  BY Zenon DEF Record, p
<1> HIDE DEF l, r
<1>9. CASE r = l
  <2>1. Ordered(r)
    BY <1>4, <1>7, <1>9, Zenon DEF Ordered
  <2>2. Len(r) \in Nat /\ Len(r) >= n
    BY <1>1, <1>4, <1>9
  <2>3. \A i \in 1..Len(r) : r[i] > tick - RiskWindow
    BY <1>4, <1>6, <1>9, Zenon
  <2> QED BY <2>1, <2>2, <2>3, Zenon DEF r, p
<1>10. CASE r = Tail(l)
  <2>0. l # <<>>
    BY <1>1, <1>4
  <2>1. r \in Seq(0..tick) /\ Len(r) = Len(l) - 1 /\ \A i \in 1..Len(r) : r[i] = l[i + 1]
    BY <1>4, <1>10, <2>0, HeadTailProperties, Zenon
  <2>2. \A i \in 1..n : i + 1 \in 1..(n + 1)
    BY <1>1
  <2>3. r \in Seq(0..tick) /\ Len(r) = n
    BY <1>1, <1>4, <2>1
  <2>4. \A i \in 1..n : r[i] = l[i + 1]
    BY <2>1, <2>3, Zenon
  <2>5. \A i, j \in 1..n : i < j => r[i] <= r[j]
    <3> SUFFICES ASSUME NEW i \in 1..n, NEW j \in 1..n, i < j PROVE r[i] <= r[j]
      BY Zenon
    <3>1. i + 1 < j + 1
      BY <1>1
    <3> QED BY <1>7, <2>2, <2>4, <3>1, Zenon
  <2>6. \A i \in 1..n : r[i] > tick - RiskWindow
    BY <1>6, <2>2, <2>4, Zenon
  <2>7. Len(r) >= n
    BY <1>1, <2>3
  <2> QED BY <1>1, <2>3, <2>5, <2>6, <2>7, Zenon DEF Ordered, r, p
<1> QED BY <1>8, <1>9, <1>10, Zenon

(* The three weights grow with what they count, up to their caps, and so does the score. *)
LEMMA ScoreGrows ==
  ASSUME NEW a \in Nat, NEW b \in Nat, a <= b, NEW f \in Nat, NEW g \in Nat, f <= g
  PROVE  Score(TRUE, b, b, g) >= Score(TRUE, a, a, f)
<1> DEFINE W(x, allowance, each, cap) == IF x <= allowance THEN 0 ELSE Least(cap, (x - allowance) * each)
<1>1. \A x : /\ WeightFor(x, VELOCITY) = W(x, 5, 10, 40)
             /\ WeightFor(x, REPETITION) = W(x, 1, 15, 30)
             /\ WeightFor(x, FAILURES) = W(x, 0, 10, 30)
  BY Zenon DEF WeightFor, VELOCITY, REPETITION, FAILURES
<1>2. W(a, 5, 10, 40) \in Nat /\ W(b, 5, 10, 40) \in Nat /\ W(a, 5, 10, 40) <= W(b, 5, 10, 40)
  BY DEF Least
<1>3. W(a, 1, 15, 30) \in Nat /\ W(b, 1, 15, 30) \in Nat /\ W(a, 1, 15, 30) <= W(b, 1, 15, 30)
  BY DEF Least
<1>4. W(f, 0, 10, 30) \in Nat /\ W(g, 0, 10, 30) \in Nat /\ W(f, 0, 10, 30) <= W(g, 0, 10, 30)
  BY DEF Least
<1> HIDE DEF W
<1>5. /\ Score(TRUE, a, a, f) = Least(100, 25 + W(a, 5, 10, 40) + W(a, 1, 15, 30) + W(f, 0, 10, 30))
      /\ Score(TRUE, b, b, g) = Least(100, 25 + W(b, 5, 10, 40) + W(b, 1, 15, 30) + W(g, 0, 10, 30))
  BY <1>1, Zenon DEF Score, BASELINE
<1>6. \A x, y \in Nat : x <= y => Least(100, x) <= Least(100, y)
  BY DEF Least
<1> DEFINE v == W(a, 5, 10, 40)  v1 == W(b, 5, 10, 40)
           r == W(a, 1, 15, 30)  r1 == W(b, 1, 15, 30)
           h == W(f, 0, 10, 30)  h1 == W(g, 0, 10, 30)
           x == 25 + v + r + h   x1 == 25 + v1 + r1 + h1
<1> HIDE DEF v, v1, r, r1, h, h1
<1>7. /\ v \in Nat /\ v1 \in Nat /\ r \in Nat /\ r1 \in Nat /\ h \in Nat /\ h1 \in Nat
      /\ v <= v1 /\ r <= r1 /\ h <= h1
  BY <1>2, <1>3, <1>4, Zenon DEF v, v1, r, r1, h, h1
<1>8. x \in Nat /\ x1 \in Nat /\ x <= x1
  BY <1>7
<1>9. Score(TRUE, a, a, f) = Least(100, x) /\ Score(TRUE, b, b, g) = Least(100, x1)
  BY <1>5, Zenon DEF v, v1, r, r1, h, h1
<1>10. \A y \in Nat : Least(100, y) \in Nat
  BY Zenon DEF Least
<1> HIDE DEF x, x1
<1>11. Least(100, x) <= Least(100, x1) /\ Least(100, x) \in Nat /\ Least(100, x1) \in Nat
  BY <1>6, <1>8, <1>10, Zenon
<1> QED BY <1>9, <1>11, Zenon

(* A sequence over a set is one over any larger set. *)
LEMMA SeqWidens ==
  ASSUME NEW S, NEW T, NEW q \in Seq(S), \A x \in S : x \in T PROVE q \in Seq(T)
<1>1. Len(q) \in Nat /\ q = [i \in 1..Len(q) |-> q[i]] /\ \A i \in 1..Len(q) : q[i] \in T
  BY LenProperties, ElementOfSeq, Zenon
<1> DEFINE n == Len(q)
           f == [i \in 1..n |-> q[i]]
<1>2. n \in Nat /\ f = q /\ \A i \in 1..n : q[i] \in T
  BY <1>1, Zenon
<1> HIDE DEF n
<1>3. f \in Seq(T)
  BY <1>2
<1> QED BY <1>2, <1>3, Zenon

(* Recording and sweeping keep the queues in order, and never lower the score. *)
LEMMA RiskStep ==
  ASSUME RiskConstants, RiskInv, RiskNext PROVE RiskInv' /\ FallsOnlyWithTime
<1> DEFINE T == Len(Prune(byTarget))
           F == Len(Prune(failures))
<1>0. /\ tick \in Nat /\ Ordered(byTarget) /\ Ordered(failures)
  BY Zenon DEF RiskInv
<1>1. T \in Nat /\ F \in Nat
  BY <1>0, PruneProperties, Zenon
<1>2. CASE TickPasses
  <2>1. tick' = tick + 1 /\ byTarget' = byTarget /\ failures' = failures
    BY <1>2, Zenon DEF TickPasses
  <2>2. tick' \in Nat /\ \A x \in 0..tick : x \in 0..tick'
    BY <1>0, <2>1
  <2>3. ASSUME NEW q, Ordered(q) PROVE q \in Seq(0..(tick'))
    BY <2>2, <2>3, SeqWidens, Zenon DEF Ordered
  <2>4. byTarget \in Seq(0..(tick')) /\ failures \in Seq(0..(tick'))
    BY <1>0, <2>3, Zenon
  <2>5. RiskInv'
    BY <1>0, <2>1, <2>2, <2>4, Zenon DEF RiskInv, Ordered
  <2>6. tick' # tick
    BY <1>0, <2>1
  <2> QED BY <2>5, <2>6, Zenon DEF FallsOnlyWithTime
<1>3. ASSUME tick' = tick, Ordered(byTarget'), Ordered(failures'),
             Len(Prune(byTarget')) >= T, Len(Prune(failures')) >= F
      PROVE  RiskInv' /\ FallsOnlyWithTime
  <2> DEFINE T1 == Len(Prune(byTarget'))
             F1 == Len(Prune(failures'))
  <2>1. T1 \in Nat /\ F1 \in Nat
    BY <1>0, <1>3, PruneProperties, Zenon
  <2>2. (Prune(byTarget))' = Prune(byTarget') /\ (Prune(failures))' = Prune(failures')
    BY <1>3, Zenon DEF Prune
  <2>3. RiskInv'
    BY <1>0, <1>3, Zenon DEF RiskInv, Ordered
  <2>4. ScoreNow' = Score(TRUE, T1, T1, F1)
    BY <2>2, Zenon DEF ScoreNow
  <2>5. ScoreNow = Score(TRUE, T, T, F)
    BY Zenon DEF ScoreNow
  <2>6. T <= T1 /\ F <= F1
    BY <1>1, <1>3, <2>1, Zenon
  <2> HIDE DEF T, F, T1, F1
  <2>7. Score(TRUE, T1, T1, F1) >= Score(TRUE, T, T, F)
    BY <1>1, <2>1, <2>6, ScoreGrows, Zenon
  <2> QED BY <2>3, <2>4, <2>5, <2>7, Zenon DEF FallsOnlyWithTime
<1>4. ASSUME NEW q, Ordered(q)
      PROVE  /\ Ordered(Record(q)) /\ Len(Prune(Record(q))) >= Len(Prune(q))
             /\ Ordered(Prune(q)) /\ Len(Prune(Prune(q))) >= Len(Prune(q))
             /\ Len(Prune(q)) >= Len(Prune(q))
  <2>1. /\ Ordered(Record(q)) /\ Len(Record(q)) >= Len(Prune(q))
        /\ \A i \in 1..Len(Record(q)) : Record(q)[i] > tick - RiskWindow
    BY <1>0, <1>4, RecordProperties, Zenon
  <2>2. Prune(Record(q)) = Record(q)
    BY <1>0, <2>1, PruneIdle, Zenon
  <2>3. /\ Ordered(Prune(q)) /\ Len(Prune(q)) \in Nat
        /\ \A i \in 1..Len(Prune(q)) : Prune(q)[i] > tick - RiskWindow
    BY <1>0, <1>4, PruneProperties, Zenon
  <2>4. Prune(Prune(q)) = Prune(q)
    BY <1>0, <2>3, PruneIdle, Zenon
  <2>5. Len(Prune(q)) >= Len(Prune(q))
    BY <2>3
  <2> QED BY <2>1, <2>2, <2>3, <2>4, <2>5, Zenon
<1>5. CASE RecordIntent
  <2>1. byTarget' = Record(byTarget) /\ failures' = failures /\ tick' = tick
    BY <1>5, Zenon DEF RecordIntent
  <2> QED BY <1>0, <1>3, <1>4, <2>1, Zenon
<1>6. CASE RecordFailure
  <2>1. failures' = Record(failures) /\ byTarget' = byTarget /\ tick' = tick
    BY <1>6, Zenon DEF RecordFailure
  <2> QED BY <1>0, <1>3, <1>4, <2>1, Zenon
<1>7. CASE Sweep
  <2>1. failures' = Prune(failures) /\ byTarget' = Prune(byTarget) /\ tick' = tick
    BY <1>7, Zenon DEF Sweep
  <2> QED BY <1>0, <1>3, <1>4, <2>1, Zenon
<1> QED BY <1>2, <1>5, <1>6, <1>7, Zenon DEF RiskNext
---------------------------------------------------------------------------
(* Capability tokens *)

(* Whatever pruneRevocations drops no longer matters: an unexpired token that was *)
(* revoked is still found revoked.                                                *)
LEMMA PruneKeeps ==
  ASSUME TokenConstants, TokenInv, NEW t \in banned, claims[t].exp > ms
  PROVE  \/ t \in PrunedIds
         \/ /\ claims[t].subject \in DOMAIN PrunedSubjects
            /\ claims[t].iat <= PrunedSubjects[claims[t].subject]
<1>0. StillRevoked(t) /\ t \in Tokens
  BY Zenon DEF TokenInv
<1>1. CASE t \in revokedIds
  BY <1>1, Zenon DEF PrunedIds
<1>2. CASE claims[t].subject \in DOMAIN revokedSubjects /\ claims[t].iat <= revokedSubjects[claims[t].subject]
  <2> DEFINE s == claims[t].subject
             cut == revokedSubjects[s]
             iat == claims[t].iat
             exp == claims[t].exp
  <2>1. /\ cut \in 0..ms /\ iat \in Nat /\ exp \in Nat /\ exp <= iat + MaxTtl /\ ms \in Nat
        /\ iat <= cut /\ exp > ms
    BY <1>0, <1>2, Zenon DEF TokenInv
  <2>2. MaxTtl \in Nat /\ Skew \in Nat
    BY Zenon DEF TokenConstants
  <2>3. ~(cut + MaxTtl + Skew <= ms)
    <3> HIDE DEF cut, iat, exp
    <3> QED BY <2>1, <2>2
  <2>4. s \in DOMAIN PrunedSubjects /\ PrunedSubjects[s] = cut
    BY <1>2, <2>3, Zenon DEF PrunedSubjects, Without
  <2> QED BY <2>1, <2>4, Zenon
<1> QED BY <1>0, <1>1, <1>2, Zenon DEF StillRevoked

(* The pruned cutoffs are cutoffs. *)
LEMMA PrunedType ==
  ASSUME TokenInv
  PROVE  /\ PrunedSubjects \in [DOMAIN PrunedSubjects -> 0..ms]
         /\ DOMAIN PrunedSubjects \subseteq Subjects /\ PrunedIds \subseteq Tokens
BY Zenon DEF TokenInv, PrunedSubjects, Without, PrunedIds

(* No capability has been issued, used or revoked at the start. *)
LEMMA TokenStart ==
  ASSUME TokenConstants, TokenInit PROVE TokenInv
<1>1. NoClaims \in [subject : Subjects \cup {"none"}, target : Targets \cup {"none"}, iat : Nat, exp : Nat]
  BY Zenon DEF NoClaims
<1>2. NoClaims.iat = 0 /\ NoClaims.exp = 0
  BY Zenon DEF NoClaims
<1>3. MaxTtl \in Nat
  BY Zenon DEF TokenConstants
<1>4. /\ ms = 0 /\ claims = [t \in Tokens |-> NoClaims] /\ revokedIds = {} /\ banned = {}
      /\ revokedSubjects = [s \in {} |-> 0] /\ using = [c \in Callers |-> NoCall]
  BY Zenon DEF TokenInit
<1>5. \A t \in Tokens : claims[t].iat <= ms /\ claims[t].exp <= claims[t].iat + MaxTtl
  BY <1>2, <1>3, <1>4
<1> QED BY <1>1, <1>4, <1>5, Zenon DEF TokenInv

(* The claims and the clock stay while revocations are pruned and added. *)
LEMMA RevocationsKeep ==
  ASSUME TokenConstants, TokenInv, ms' = ms, claims' = claims,
         revokedIds' \subseteq Tokens, revokedSubjects' \in [DOMAIN revokedSubjects' -> 0..ms],
         DOMAIN revokedSubjects' \subseteq Subjects, using' \in [Callers -> Tokens \cup {NoCall}],
         banned' \subseteq Tokens,
         \A t \in banned' : claims[t] # NoClaims /\ (claims[t].exp > ms => StillRevoked(t)')
  PROVE  TokenInv'
BY Zenon DEF TokenInv

(* Pruned or larger revocations cover what was covered. *)
LEMMA CoverKeeps ==
  ASSUME TokenConstants, TokenInv, ms' = ms, claims' = claims, PrunedIds \subseteq revokedIds',
         \A s \in DOMAIN PrunedSubjects : s \in DOMAIN revokedSubjects' /\ PrunedSubjects[s] <= revokedSubjects'[s],
         revokedSubjects' \in [DOMAIN revokedSubjects' -> 0..ms]
  PROVE  \A t \in banned : claims[t] # NoClaims /\ (claims[t].exp > ms => StillRevoked(t)')
<1> SUFFICES ASSUME NEW t \in banned, claims[t].exp > ms PROVE StillRevoked(t)'
  BY Zenon DEF TokenInv
<1>0. t \in Tokens /\ claims[t].iat \in Nat /\ ms \in Nat
  BY Zenon DEF TokenInv
<1>1. CASE t \in PrunedIds
  BY <1>1, Zenon DEF StillRevoked
<1>2. CASE /\ claims[t].subject \in DOMAIN PrunedSubjects
           /\ claims[t].iat <= PrunedSubjects[claims[t].subject]
  <2> DEFINE s == claims[t].subject
             old == PrunedSubjects[s]
             new == revokedSubjects'[s]
             iat == claims[t].iat
  <2>1. s \in DOMAIN revokedSubjects' /\ old <= new /\ iat <= old /\ old \in 0..ms /\ new \in 0..ms
    BY <1>2, PrunedType, Zenon
  <2>2. iat <= new
    <3> HIDE DEF old, new, iat
    <3> QED BY <1>0, <2>1 DEF iat
  <2> QED BY <2>1, <2>2, Zenon DEF StillRevoked
<1> QED BY <1>1, <1>2, PruneKeeps, Zenon

(* Every use, revocation, clean-up and tick keeps the invariant of the capability tokens. *)
LEMMA TokenStep ==
  ASSUME TokenConstants, TokenInv, TokenNext PROVE TokenInv'
<1>0. /\ ms \in Nat /\ banned \subseteq Tokens /\ revokedIds \subseteq Tokens
      /\ claims \in [Tokens -> [subject : Subjects \cup {"none"}, target : Targets \cup {"none"},
                                iat : Nat, exp : Nat]]
      /\ revokedSubjects \in [DOMAIN revokedSubjects -> 0..ms]
      /\ using \in [Callers -> Tokens \cup {NoCall}]
      /\ MaxTtl \in Nat /\ Skew \in Nat
  BY Zenon DEF TokenInv, TokenConstants
<1>1. CASE MsPasses
  <2>1. /\ ms' = ms + 1 /\ claims' = claims /\ revokedIds' = revokedIds /\ using' = using
        /\ revokedSubjects' = revokedSubjects /\ banned' = banned
    BY <1>1, Zenon DEF MsPasses
  <2>2. ms' \in Nat /\ \A n \in Nat : n <= ms => n <= ms'
    BY <1>0, <2>1
  <2>3. \A t \in Tokens : claims[t].exp > ms' => claims[t].exp > ms
    BY <1>0, <2>1
  <2>4. revokedSubjects' \in [DOMAIN revokedSubjects' -> 0..ms']
    BY <1>0, <2>1, <2>2
  <2>5. \A t \in Tokens : StillRevoked(t)' <=> StillRevoked(t)
    BY <2>1, Zenon DEF StillRevoked
  <2>6. \A t \in Tokens : claims'[t].iat <= ms' /\ claims'[t].exp <= claims'[t].iat + MaxTtl
    BY <1>0, <2>1, <2>2, Zenon DEF TokenInv
  <2> QED BY <2>1, <2>2, <2>3, <2>4, <2>5, <2>6, Zenon DEF TokenInv
<1>2. ASSUME NEW t \in Tokens, NEW s \in Subjects, NEW target \in Targets, NEW ttl \in TokenTtls,
             Issue(t, s, target, ttl)
      PROVE  TokenInv'
  <2> DEFINE new == [subject |-> s, target |-> target, iat |-> ms, exp |-> ms + ttl]
  <2>1. /\ claims' = [claims EXCEPT ![t] = new] /\ claims[t] = NoClaims /\ ms' = ms
        /\ revokedIds' = revokedIds /\ using' = using
        /\ revokedSubjects' = revokedSubjects /\ banned' = banned
    BY <1>2, Zenon DEF Issue
  <2>2. ttl \in 1..MaxTtl
    BY Zenon DEF TokenConstants
  <2>3. ms + ttl \in Nat /\ ms <= ms /\ ms + ttl <= ms + MaxTtl
    BY <1>0, <2>2
  <2>4. /\ new \in [subject : Subjects \cup {"none"}, target : Targets \cup {"none"}, iat : Nat, exp : Nat]
        /\ new.iat = ms /\ new.exp = ms + ttl
    BY <1>0, <2>3, Zenon
  <2> HIDE DEF new
  <2>5. /\ claims' \in [Tokens -> [subject : Subjects \cup {"none"}, target : Targets \cup {"none"},
                                   iat : Nat, exp : Nat]]
        /\ claims'[t] = new /\ \A x \in Tokens \ {t} : claims'[x] = claims[x]
    BY <1>0, <2>1, <2>4, Zenon
  <2>6. \A x \in banned : x \in Tokens \ {t}
    BY <1>0, <2>1, Zenon DEF TokenInv
  <2>7. \A x \in banned : StillRevoked(x)' <=> StillRevoked(x)
    BY <2>1, <2>5, <2>6, Zenon DEF StillRevoked
  <2>8. \A x \in banned : claims'[x] # NoClaims /\ (claims'[x].exp > ms' => StillRevoked(x)')
    BY <2>1, <2>5, <2>6, <2>7, Zenon DEF TokenInv
  <2>9. \A x \in Tokens : claims'[x].iat <= ms' /\ claims'[x].exp <= claims'[x].iat + MaxTtl
    BY <2>1, <2>3, <2>4, <2>5, Zenon DEF TokenInv
  <2> QED BY <1>0, <2>1, <2>5, <2>8, <2>9, Zenon DEF TokenInv
<1>3. ASSUME NEW c \in Callers, NEW t \in Tokens, NEW target \in Targets, Use(c, t, target)
      PROVE  TokenInv'
  <2>1. /\ ms' = ms /\ claims' = claims /\ revokedIds' = PrunedIds /\ revokedSubjects' = PrunedSubjects
        /\ banned' = banned
    BY <1>3, Zenon DEF Use
  <2>2. using' \in [Callers -> Tokens \cup {NoCall}]
    BY <1>0, <1>3, Zenon DEF Use
  <2>3. /\ PrunedSubjects \in [DOMAIN PrunedSubjects -> 0..ms]
        /\ DOMAIN PrunedSubjects \subseteq Subjects /\ PrunedIds \subseteq Tokens
    BY PrunedType, Zenon
  <2>4. \A s \in DOMAIN PrunedSubjects : s \in DOMAIN revokedSubjects' /\ PrunedSubjects[s] <= revokedSubjects'[s]
    <3>1. \A s \in DOMAIN PrunedSubjects : PrunedSubjects[s] \in 0..ms
      BY <2>3, Zenon
    <3>2. \A x \in 0..ms : x <= x
      BY <1>0
    <3> QED BY <2>1, <3>1, <3>2, Zenon
  <2>5. \A x \in banned : claims[x] # NoClaims /\ (claims[x].exp > ms => StillRevoked(x)')
    BY <2>1, <2>3, <2>4, CoverKeeps, Zenon
  <2> QED BY <1>0, <2>1, <2>2, <2>3, <2>5, RevocationsKeep, Zenon
<1>4. ASSUME NEW c \in Callers, ActionEnds(c) PROVE TokenInv'
  <2>1. /\ ms' = ms /\ claims' = claims /\ revokedIds' = revokedIds /\ revokedSubjects' = revokedSubjects
        /\ banned' = banned /\ using' = [using EXCEPT ![c] = NoCall]
    BY <1>4, Zenon DEF ActionEnds
  <2>2. using' \in [Callers -> Tokens \cup {NoCall}]
    BY <1>0, <2>1, Zenon
  <2>3. \A x \in banned : StillRevoked(x)' <=> StillRevoked(x)
    BY <2>1, Zenon DEF StillRevoked
  <2> QED BY <2>1, <2>2, <2>3, Zenon DEF TokenInv
<1>5. ASSUME NEW t \in Tokens, RevokeCapability(t) PROVE TokenInv'
  <2>1. /\ ms' = ms /\ claims' = claims /\ revokedIds' = PrunedIds \cup {t} /\ revokedSubjects' = PrunedSubjects
        /\ banned' = banned \cup {t} /\ using' = using /\ claims[t].exp > ms
    BY <1>5, Zenon DEF RevokeCapability
  <2>2. claims[t] # NoClaims
    BY <1>0, <2>1 DEF NoClaims
  <2>3. /\ PrunedSubjects \in [DOMAIN PrunedSubjects -> 0..ms]
        /\ DOMAIN PrunedSubjects \subseteq Subjects /\ PrunedIds \subseteq Tokens
    BY PrunedType, Zenon
  <2>4. \A s \in DOMAIN PrunedSubjects : s \in DOMAIN revokedSubjects' /\ PrunedSubjects[s] <= revokedSubjects'[s]
    <3>1. \A s \in DOMAIN PrunedSubjects : PrunedSubjects[s] \in 0..ms
      BY <2>3, Zenon
    <3>2. \A x \in 0..ms : x <= x
      BY <1>0
    <3> QED BY <2>1, <3>1, <3>2, Zenon
  <2>5. \A x \in banned : claims[x] # NoClaims /\ (claims[x].exp > ms => StillRevoked(x)')
    BY <2>1, <2>3, <2>4, CoverKeeps, Zenon
  <2>6. StillRevoked(t)'
    BY <2>1, Zenon DEF StillRevoked
  <2>7. \A x \in banned' : claims[x] # NoClaims /\ (claims[x].exp > ms => StillRevoked(x)')
    BY <2>1, <2>2, <2>5, <2>6, Zenon
  <2>8. banned' \subseteq Tokens /\ revokedIds' \subseteq Tokens /\ using' \in [Callers -> Tokens \cup {NoCall}]
    BY <1>0, <2>1, <2>3, Zenon
  <2> QED BY <2>1, <2>3, <2>7, <2>8, RevocationsKeep, Zenon
<1>6. ASSUME NEW s \in Subjects, RevokeSubject(s) PROVE TokenInv'
  <2>1. /\ ms' = ms /\ claims' = claims /\ revokedIds' = PrunedIds
        /\ revokedSubjects' = With(PrunedSubjects, s, ms)
        /\ banned' = banned \cup {t \in Tokens : claims[t].subject = s} /\ using' = using
    BY <1>6, Zenon DEF RevokeSubject
  <2>3. /\ PrunedSubjects \in [DOMAIN PrunedSubjects -> 0..ms]
        /\ DOMAIN PrunedSubjects \subseteq Subjects /\ PrunedIds \subseteq Tokens
    BY PrunedType, Zenon
  <2>4. ms \in 0..ms /\ \A x \in 0..ms : x <= x /\ x <= ms
    BY <1>0
  <2>5. /\ DOMAIN revokedSubjects' = DOMAIN PrunedSubjects \cup {s} /\ revokedSubjects'[s] = ms
        /\ \A x \in DOMAIN PrunedSubjects : x # s => revokedSubjects'[x] = PrunedSubjects[x]
    BY <2>1, Zenon DEF With
  <2>6. revokedSubjects' \in [DOMAIN revokedSubjects' -> 0..ms] /\ DOMAIN revokedSubjects' \subseteq Subjects
    <3>1. revokedSubjects' \in [DOMAIN PrunedSubjects \cup {s} -> 0..ms]
      BY <2>1, <2>3, <2>4, Zenon DEF With
    <3> QED BY <2>3, <2>5, <3>1, Zenon
  <2>7. \A x \in DOMAIN PrunedSubjects : x \in DOMAIN revokedSubjects' /\ PrunedSubjects[x] <= revokedSubjects'[x]
    BY <2>3, <2>4, <2>5, Zenon
  <2>8. \A x \in banned : claims[x] # NoClaims /\ (claims[x].exp > ms => StillRevoked(x)')
    BY <2>1, <2>6, <2>7, CoverKeeps, Zenon
  <2>9. \A x \in Tokens : claims[x].subject = s => claims[x] # NoClaims /\ StillRevoked(x)'
    <3>1. \A x \in Tokens : claims[x].subject = s => claims[x] # NoClaims
      BY Zenon DEF TokenConstants
    <3>2. \A x \in Tokens : claims[x].iat <= ms
      BY Zenon DEF TokenInv
    <3> QED BY <2>1, <2>5, <3>1, <3>2, Zenon DEF StillRevoked
  <2>10. \A x \in banned' : claims[x] # NoClaims /\ (claims[x].exp > ms => StillRevoked(x)')
    BY <2>1, <2>8, <2>9, Zenon
  <2>11. banned' \subseteq Tokens /\ revokedIds' \subseteq Tokens /\ using' \in [Callers -> Tokens \cup {NoCall}]
    BY <1>0, <2>1, <2>3, Zenon
  <2> QED BY <2>1, <2>6, <2>10, <2>11, RevocationsKeep, Zenon
<1> QED BY <1>1, <1>2, <1>3, <1>4, <1>5, <1>6, Zenon DEF TokenNext

(* No call begins to use a revoked token, whatever was pruned since. *)
LEMMA TokenFinal ==
  ASSUME TokenConstants, TokenInv, TokenNext PROVE RevokedForGood
<1> SUFFICES ASSUME NEW t \in banned, NEW c \in Callers, using'[c] = t PROVE using[c] = t
  BY Zenon DEF RevokedForGood
<1>0. using \in [Callers -> Tokens \cup {NoCall}] /\ t \in Tokens /\ t # NoCall
  BY Zenon DEF TokenInv, TokenConstants
<1>1. ASSUME NEW d \in Callers, NEW u \in Tokens, NEW target \in Targets, Use(d, u, target)
      PROVE  using[c] = t
  <2>1. CASE using' = using
    BY <2>1, Zenon
  <2>2. CASE using' = [using EXCEPT ![d] = u] /\ ~Revoked(u)
    <3>1. CASE d = c
      <4>1. u = t /\ claims[t].exp > ms
        <5>1. u = t
          BY <1>0, <2>2, <3>1, Zenon
        <5>2. ms < claims[u].exp /\ claims[u].exp \in Nat /\ ms \in Nat
          BY <1>1, Zenon DEF Use, Verified, TokenInv
        <5> QED BY <5>1, <5>2, Zenon
      <4>2. Revoked(t)
        BY <4>1, PruneKeeps, Zenon DEF Revoked
      <4> QED BY <2>2, <4>1, <4>2, Zenon
    <3>2. CASE d # c
      BY <1>0, <2>2, <3>2, Zenon
    <3> QED BY <3>1, <3>2, Zenon
  <2> QED BY <1>1, <2>1, <2>2, Zenon DEF Use
<1>2. ASSUME NEW d \in Callers, ActionEnds(d) PROVE using[c] = t
  BY <1>0, <1>2, Zenon DEF ActionEnds
<1>3. CASE \/ MsPasses
           \/ \E u \in Tokens : RevokeCapability(u)
           \/ \E u \in Tokens, s \in Subjects, target \in Targets, ttl \in TokenTtls : Issue(u, s, target, ttl)
           \/ \E s \in Subjects : RevokeSubject(s)
  BY <1>3, Zenon DEF MsPasses, RevokeCapability, Issue, RevokeSubject
<1> QED BY <1>1, <1>2, <1>3, Zenon DEF TokenNext

---------------------------------------------------------------------------
(* What the invariants give, for each machine by itself *)

(* What is proved of the e-mail queue. *)
LEMMA QueueFacts ==
  /\ Init => QueueInv
  /\ QueueInv /\ [Next]_vars => QueueInv'
  /\ QueueInv => OneDeliveryPerKey /\ NoDoubleSendWithoutFault
  /\ QueueInv /\ Next => TerminalIsFinal
<1>1. Init => QueueInv
  BY QueueStart
<1>2. QueueInv /\ UNCHANGED vars => QueueInv'
  <2> SUFFICES ASSUME QueueInv, UNCHANGED vars PROVE QueueInv'
    BY Zenon
  <2>0. UNCHANGED <<rows, req, worker, accepted, faults>>
    BY Zenon DEF vars
  <2>1. QueueTyped'
    BY <2>0 DEF QueueInv, QueueTyped
  <2>2. WorkerInv'
    BY <2>0 DEF QueueInv, WorkerInv, Existing
  <2>3. Existing' = Existing
    BY <2>0 DEF Existing
  <2>4. OneDeliveryPerKey'
    BY <2>0, <2>3, Zenon DEF QueueInv, OneDeliveryPerKey
  <2> QED BY <2>0, <2>1, <2>2, <2>4 DEF QueueInv, AboutToBeSent
<1>3. QueueInv /\ Next => QueueInv'
  BY QueueStep
<1>4. QueueInv => OneDeliveryPerKey /\ NoDoubleSendWithoutFault
  BY QueueOnce
<1>5. QueueInv /\ Next => TerminalIsFinal
  BY QueueFinal
<1> QED BY <1>1, <1>2, <1>3, <1>4, <1>5

(* One delivery per dedupe key, one accepted send per delivery while no storage error or restart
   falls between a send and its status, and no delivery reopened. *)
THEOREM EmailsGoOutOnce ==
  Init /\ [][Next]_vars => [](OneDeliveryPerKey /\ NoDoubleSendWithoutFault) /\ [][TerminalIsFinal]_vars
<1>1. Init => QueueInv
  BY QueueFacts
<1>2. QueueInv /\ [Next]_vars => QueueInv'
  BY QueueFacts
<1>3. QueueInv => OneDeliveryPerKey /\ NoDoubleSendWithoutFault
  BY QueueFacts
<1>4. QueueInv /\ [Next]_vars => [TerminalIsFinal]_vars
  BY QueueFacts
<1> QED BY <1>1, <1>2, <1>3, <1>4, PTL

(* What is proved of the feed. *)
LEMMA FeedFacts ==
  /\ FeedInit => FeedInv
  /\ FeedInv /\ [FeedNext]_feedVars => FeedInv'
  /\ FeedInv => FeedMatchesStatus /\ MandatoryNeverSuppressed
  /\ FeedInv /\ FeedNext => NotifiedOnce
<1>1. FeedInit => FeedInv
  BY FeedStart
<1>2. FeedInv /\ UNCHANGED feedVars => FeedInv'
  BY DEF feedVars, FeedInv, FeedMatchesStatus, MandatoryNeverSuppressed
<1>3. FeedInv /\ FeedNext => FeedInv'
  BY FeedStep
<1>4. FeedInv => FeedMatchesStatus /\ MandatoryNeverSuppressed
  BY Zenon DEF FeedInv
<1>5. FeedInv /\ FeedNext => NotifiedOnce
  BY FeedFinal
<1> QED BY <1>1, <1>2, <1>3, <1>4, <1>5

(* The feed tells the status its invoice has, no preference hides a mandatory notice, and emitting
   an event again notifies nobody twice. *)
THEOREM TheFeedIsTrue ==
  FeedInit /\ [][FeedNext]_feedVars => [](FeedMatchesStatus /\ MandatoryNeverSuppressed) /\ [][NotifiedOnce]_feedVars
<1>1. FeedInit => FeedInv
  BY FeedFacts
<1>2. FeedInv /\ [FeedNext]_feedVars => FeedInv'
  BY FeedFacts
<1>3. FeedInv => FeedMatchesStatus /\ MandatoryNeverSuppressed
  BY FeedFacts
<1>4. FeedInv /\ [FeedNext]_feedVars => [NotifiedOnce]_feedVars
  BY FeedFacts
<1> QED BY <1>1, <1>2, <1>3, <1>4, PTL

(* What is proved of a mail. *)
LEMMA MailFacts ==
  MailConstants =>
    /\ MailInit => MailInv
    /\ MailInv /\ [MailNext]_mailVars => MailInv'
    /\ MailInv => RetriesSpent /\ ProblemsStay
<1> SUFFICES ASSUME MailConstants
    PROVE  /\ MailInit => MailInv
           /\ MailInv /\ [MailNext]_mailVars => MailInv'
           /\ MailInv => RetriesSpent /\ ProblemsStay
  OBVIOUS
<1>1. MailInit => MailInv
  BY MailStart
<1>2. MailInv /\ UNCHANGED mailVars => MailInv'
  BY DEF mailVars, MailInv, RetriesSpent, ProblemsStay
<1>3. MailInv /\ MailNext => MailInv'
  BY MailStep
<1>4. MailInv => RetriesSpent /\ ProblemsStay
  BY Zenon DEF MailInv
<1> QED BY <1>1, <1>2, <1>3, <1>4

(* A retryable failure is final only after every retry, and the log never takes a bounce or a
   complaint back. *)
THEOREM TheDeliveryLogIsTrue ==
  ASSUME MailConstants
  PROVE  MailInit /\ [][MailNext]_mailVars => [](RetriesSpent /\ ProblemsStay)
<1>1. MailInit => MailInv
  BY MailFacts
<1>2. MailInv /\ [MailNext]_mailVars => MailInv'
  BY MailFacts
<1>3. MailInv => RetriesSpent /\ ProblemsStay
  BY MailFacts
<1> QED BY <1>1, <1>2, <1>3, PTL

(* What is proved of the risk counters. *)
LEMMA RiskFacts ==
  RiskConstants =>
    /\ RiskInit => RiskInv
    /\ RiskInv /\ [RiskNext]_riskVars => RiskInv'
    /\ RiskInv /\ RiskNext => FallsOnlyWithTime
<1> SUFFICES ASSUME RiskConstants
    PROVE  /\ RiskInit => RiskInv
           /\ RiskInv /\ [RiskNext]_riskVars => RiskInv'
           /\ RiskInv /\ RiskNext => FallsOnlyWithTime
  OBVIOUS
<1>1. RiskInit => RiskInv
  BY RiskStart
<1>2. RiskInv /\ UNCHANGED riskVars => RiskInv'
  BY DEF riskVars, RiskInv, Ordered
<1>3. RiskInv /\ RiskNext => RiskInv'
  BY RiskStep
<1>4. RiskInv /\ RiskNext => FallsOnlyWithTime
  BY RiskStep
<1> QED BY <1>1, <1>2, <1>3, <1>4

(* Recording an event never lowers a requester's score, also where a full queue drops its oldest,
   and sweeping changes nothing. *)
THEOREM TheScoreFallsOnlyWithTime ==
  ASSUME RiskConstants
  PROVE  RiskInit /\ [][RiskNext]_riskVars => [][FallsOnlyWithTime]_riskVars
<1>1. RiskInit => RiskInv
  BY RiskFacts
<1>2. RiskInv /\ [RiskNext]_riskVars => RiskInv'
  BY RiskFacts
<1>3. RiskInv /\ [RiskNext]_riskVars => [FallsOnlyWithTime]_riskVars
  BY RiskFacts
<1> QED BY <1>1, <1>2, <1>3, PTL

(* What is proved of a capability. *)
LEMMA TokenFacts ==
  TokenConstants =>
    /\ TokenInit => TokenInv
    /\ TokenInv /\ [TokenNext]_tokenVars => TokenInv'
    /\ TokenInv /\ TokenNext => RevokedForGood
<1> SUFFICES ASSUME TokenConstants
    PROVE  /\ TokenInit => TokenInv
           /\ TokenInv /\ [TokenNext]_tokenVars => TokenInv'
           /\ TokenInv /\ TokenNext => RevokedForGood
  OBVIOUS
<1>1. TokenInit => TokenInv
  BY TokenStart
<1>2. TokenInv /\ UNCHANGED tokenVars => TokenInv'
  BY DEF tokenVars, TokenInv, StillRevoked
<1>3. TokenInv /\ TokenNext => TokenInv'
  BY TokenStep
<1>4. TokenInv /\ TokenNext => RevokedForGood
  BY TokenFinal
<1> QED BY <1>1, <1>2, <1>3, <1>4

(* A capability that was revoked, by its id or by its subject, is never used again, although
   revocations are pruned. *)
THEOREM RevocationsHold ==
  ASSUME TokenConstants
  PROVE  TokenInit /\ [][TokenNext]_tokenVars => [][RevokedForGood]_tokenVars
<1>1. TokenInit => TokenInv
  BY TokenFacts
<1>2. TokenInv /\ [TokenNext]_tokenVars => TokenInv'
  BY TokenFacts
<1>3. TokenInv /\ [TokenNext]_tokenVars => [RevokedForGood]_tokenVars
  BY TokenFacts
<1> QED BY <1>1, <1>2, <1>3, PTL

=============================================================================
