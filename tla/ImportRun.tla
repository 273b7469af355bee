----------------------------- MODULE ImportRun -----------------------------
(***************************************************************************)
(* An import of invoices from a file: the plan against what is stored       *)
(* (imports/import-pipeline.ts), the single transaction that applies it and *)
(* the rollback from its snapshot (imports/import-executor.ts), and the     *)
(* command that runs them (imports/import-cli.ts), while payments arrive,   *)
(* other imports run and processes die.                                     *)
(*                                                                         *)
(* A row of a file is its externalId, the payment terms, one editable       *)
(* field, how it states the expiry and whether it validates (ImportRow      *)
(* says when).  stored is the committed table, evidence the ids that        *)
(* payment_events refers to; job[j].work holds the rows that j's open       *)
(* transaction wrote, which it keeps locked.  job[j].base, fresh and alone  *)
(* are history: the table before j's plan and then its commit, whether the  *)
(* two were the same, and the last to write it.                             *)
(***************************************************************************)
EXTENDS Integers, Sequences, FiniteSets, SequencesExt

CONSTANTS
    Jobs,            \* runs of the import command
    Files,           \* sequences of rows
    NoKey,           \* no externalId
    MaxId, MaxDay, MaxVersion

VARIABLES stored, evidence, job, day, alone, lastId

vars == <<stored, evidence, job, day, alone, lastId>>

NoSnapshot == [created |-> {}, updated |-> {}]

IdleJob == [pc |-> "idle", file |-> <<>>, plan |-> <<>>, next |-> 1, work |-> {}, now |-> 0,
            snapshot |-> NoSnapshot, base |-> {}, fresh |-> FALSE]

Init ==
    /\ stored = {} /\ evidence = {} /\ lastId = 0
    /\ job = [j \in Jobs |-> IdleJob]
    /\ day = 0
    /\ alone = ""

Existing(table, key) == {r \in table : key # NoKey /\ r.key = key}

\* expiryFor and resolveExpiry: a stated instant, or days counted from now.
ExpiryFor(row, now) == IF row.expiry = "fixed" THEN 0 ELSE now + 1

\* The changes a row asks of the stored invoice r; a column left out asks none.
Changed(row, r, now) ==
    [r EXCEPT !.note = IF row.note = "omitted" THEN @ ELSE row.note,
              !.expiresAt = IF row.expiry = "omitted" THEN @ ELSE ExpiryFor(row, now)]

\* planImport for one row: claimed are the identities of the rows above.
PlanRow(row, table, claimed, now) ==
    LET match == Existing(table, row.key)
        planned(action, id, to) == [action |-> action, row |-> row, id |-> id, to |-> to]
    IN IF ~row.valid \/ row.key \in claimed THEN planned("error", 0, 0)
       ELSE IF match = {} THEN planned("create", 0, 0)
       ELSE LET r == CHOOSE m \in match : TRUE
                to == Changed(row, r, now)
            IN IF row.terms # r.terms THEN planned("error", 0, 0)
               ELSE IF to = r THEN planned("skip", r.id, 0)
               ELSE IF r.status = "PAID" THEN planned("error", 0, 0)
               ELSE planned("update", r.id, to.expiresAt)

PlanImport(file, table, now) ==
    LET step(acc, row) ==
          LET p == PlanRow(row, table, acc.claimed, now)
          IN [plan |-> Append(acc.plan, p),
              claimed |-> IF p.action = "error" THEN acc.claimed ELSE acc.claimed \cup ({row.key} \ {NoKey})]
    IN FoldLeft(step, [plan |-> <<>>, claimed |-> {}], file).plan

-----------------------------------------------------------------------------
\* The command reads the table without a lock.  It refuses any plan with an
\* error, whatever --on-error says, and a plan that was not to be applied.
Start(j, file) ==
    LET plan == PlanImport(file, stored, day)
    IN /\ job[j].pc = "idle"
       /\ job' = [job EXCEPT ![j] = [IdleJob EXCEPT !.file = file, !.plan = plan, !.now = day, !.base = stored,
             !.pc = IF \E k \in 1..Len(plan) : plan[k].action = "error" THEN "refused" ELSE "applying"]]
       /\ UNCHANGED <<stored, evidence, day, alone, lastId>>

Locked(j, id) == \E other \in Jobs \ {j} : \E r \in job[other].work : r.id = id

Failed(j) == [job EXCEPT ![j] = [IdleJob EXCEPT !.pc = "failed"]]

\* A row with the same externalId in an open transaction makes the INSERT wait; a
\* committed one fails it and with it the whole file.
ApplyCreate(j) ==
    LET p == job[j].plan[job[j].next]
        new == [id |-> lastId + 1, key |-> p.row.key, terms |-> p.row.terms, status |-> "PENDING",
                note |-> IF p.row.note = "omitted" THEN "null" ELSE p.row.note,
                expiresAt |-> ExpiryFor(p.row, job[j].now), version |-> 1]
    IN /\ job[j].pc = "applying" /\ job[j].next <= Len(job[j].plan) /\ p.action = "create"
       /\ \A other \in Jobs \ {j} : Existing(job[other].work, p.row.key) = {}
       /\ IF Existing(stored, p.row.key) # {}
          THEN job' = Failed(j) /\ UNCHANGED lastId
          ELSE /\ lastId < MaxId /\ lastId' = lastId + 1
               /\ job' = [job EXCEPT ![j].work = @ \cup {new}, ![j].next = @ + 1,
                                     ![j].snapshot.created = @ \cup {new.id}]
       /\ UNCHANGED <<stored, evidence, day, alone>>

\* SELECT ... FOR UPDATE takes the row as it is now into the snapshot; the change
\* is the one that was planned.
ApplyUpdate(j) ==
    LET p == job[j].plan[job[j].next]
        found == {r \in stored : r.id = p.id}
        set(r) == [r EXCEPT !.note = IF p.row.note = "omitted" THEN @ ELSE p.row.note,
                            !.expiresAt = IF p.row.expiry = "omitted" THEN @ ELSE p.to,
                            !.version = @ + 1]
    IN /\ job[j].pc = "applying" /\ job[j].next <= Len(job[j].plan) /\ p.action = "update"
       /\ ~Locked(j, p.id)
       /\ \A r \in found : r.version < MaxVersion
       /\ job' = IF found = {} THEN Failed(j)
                 ELSE [job EXCEPT ![j].work = @ \cup {set(r) : r \in found}, ![j].next = @ + 1,
                                  ![j].snapshot.updated = @ \cup found]
       /\ UNCHANGED <<stored, evidence, day, alone, lastId>>

ApplySkip(j) ==
    /\ job[j].pc = "applying" /\ job[j].next <= Len(job[j].plan)
    /\ job[j].plan[job[j].next].action = "skip"
    /\ job' = [job EXCEPT ![j].next = @ + 1]
    /\ UNCHANGED <<stored, evidence, day, alone, lastId>>

Ids(set) == {r.id : r \in set}

Commit(j) ==
    LET written == {r \in stored : r.id \notin Ids(job[j].work)} \cup job[j].work
    IN /\ job[j].pc = "applying" /\ job[j].next > Len(job[j].plan)
       /\ stored' = written
       /\ job' = [job EXCEPT ![j].pc = "committed", ![j].work = {}, ![j].plan = <<>>,
                             ![j].base = stored, ![j].fresh = job[j].base = stored]
       /\ alone' = j
       /\ UNCHANGED <<evidence, day, lastId>>

\* A signal at a row boundary, a deadlock victim, a lost connection: ROLLBACK.
Abort(j) ==
    /\ job[j].pc = "applying"
    /\ job' = Failed(j)
    /\ UNCHANGED <<stored, evidence, day, alone, lastId>>

\* The undo file is written after COMMIT; a process that dies before has none.
SaveSnapshot(j) ==
    /\ job[j].pc = "committed"
    /\ job' = [job EXCEPT ![j].pc = "saved"]
    /\ UNCHANGED <<stored, evidence, day, alone, lastId>>

Die(j) ==
    /\ job[j].pc = "committed"
    /\ job' = [job EXCEPT ![j] = [IdleJob EXCEPT !.pc = "lost"]]
    /\ UNCHANGED <<stored, evidence, day, alone, lastId>>

-----------------------------------------------------------------------------
\* Mutant: the created rows are not deleted
BadRestored(j) ==
    LET snap == job[j].snapshot
    IN {IF \E b \in snap.updated : b.id = r.id THEN CHOOSE b \in snap.updated : b.id = r.id ELSE r : r \in stored}

\* rollbackImport: every column of the updated rows goes back, the created rows
\* are deleted; a row that payment_events refers to stops it all.
Restored(j) ==
    LET snap == job[j].snapshot
    IN {IF \E b \in snap.updated : b.id = r.id THEN CHOOSE b \in snap.updated : b.id = r.id ELSE r :
           r \in {x \in stored : x.id \notin snap.created}}

\* Mutant: evidence does not stop the deletion
BadRollbackImport(j) ==
    /\ job[j].pc = "saved"
    /\ \A id \in job[j].snapshot.created \cup Ids(job[j].snapshot.updated) : ~Locked(j, id)
    /\ stored' = Restored(j)
    /\ job' = [job EXCEPT ![j] = [IdleJob EXCEPT !.pc = "undone"]]
    /\ alone' = ""
    /\ UNCHANGED <<evidence, day, lastId>>

RollbackImport(j) ==
    LET snap == job[j].snapshot
        refused == snap.created \cap evidence # {}
    IN /\ job[j].pc = "saved"
       /\ \A id \in snap.created \cup Ids(snap.updated) : ~Locked(j, id)
       /\ \/ refused /\ UNCHANGED <<stored, job, alone>>
          \/ /\ ~refused
             /\ stored' = Restored(j)
             /\ job' = [job EXCEPT ![j] = [IdleJob EXCEPT !.pc = "undone"]]
             /\ alone' = ""
       /\ UNCHANGED <<evidence, day, lastId>>

\* The backend settles an invoice and records the evidence.
Pay(id) ==
    /\ \A j \in Jobs : ~\E r \in job[j].work : r.id = id
    /\ \E r \in stored :
          /\ r.id = id /\ r.status = "PENDING" /\ r.version < MaxVersion
          /\ stored' = (stored \ {r}) \cup {[r EXCEPT !.status = "PAID", !.version = @ + 1]}
    /\ evidence' = evidence \cup {id}
    /\ alone' = ""
    /\ UNCHANGED <<job, day, lastId>>

Tick ==
    /\ day < MaxDay /\ day' = day + 1
    /\ UNCHANGED <<stored, evidence, job, alone, lastId>>

Next ==
    \/ \E j \in Jobs : \/ \E f \in Files : Start(j, f)
                       \/ ApplyCreate(j) \/ ApplyUpdate(j) \/ ApplySkip(j) \/ Commit(j) \/ Abort(j)
                       \/ SaveSnapshot(j) \/ Die(j) \/ RollbackImport(j)
    \/ \E id \in 1..MaxId : Pay(id)
    \/ Tick

Spec == Init /\ [][Next]_vars

-----------------------------------------------------------------------------
TypeOK ==
    /\ \A r \in stored : r.id \in 1..MaxId /\ r.version \in 1..MaxVersion /\ r.status \in {"PENDING", "PAID"}
    /\ \A j \in Jobs : job[j].pc \in {"idle", "refused", "applying", "failed", "committed", "saved", "lost", "undone"}
    /\ \A r, q \in stored : r.id = q.id => r = q

\* Neither an import nor its rollback edits the terms of a payment or gives an
\* externalId to two invoices, whatever ran between the dry run and the apply.
TermsStand ==
    /\ \A r \in stored : \A q \in stored' : r.id = q.id => r.terms = q.terms /\ r.key = q.key
    /\ \A r, q \in stored' : r.key # NoKey /\ r.key = q.key => r.id = q.id

\* "re-importing an archived file stays a no-op": after an import that nobody
\* disturbed the same file plans nothing but skips, if its rows have an externalId
\* and none counts its expiry from the day of the import.
ReimportIsNoOp ==
    \A j \in Jobs :
        LET f == job[j].file IN
        /\ job[j].pc \in {"committed", "saved"} /\ alone = j /\ job[j].fresh
        /\ \A k \in 1..Len(f) : f[k].key # NoKey /\ f[k].expiry # "days"
        => LET p == PlanImport(f, stored, day) IN \A k \in 1..Len(p) : p[k].action = "skip"

\* The snapshot is a complete undo: rolled back before anyone else wrote, the
\* table is again what it was when the import committed.
RollbackRestores ==
    \A j \in Jobs : job[j].pc = "saved" /\ job'[j].pc = "undone" /\ alone = j
       => stored' = job[j].base

\* A created invoice that was paid since is never deleted by a rollback.
EvidenceKeepsItsInvoice ==
    \A id \in evidence : \E r \in stored : r.id = id

=============================================================================
