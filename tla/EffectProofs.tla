---------------------------- MODULE EffectProofs ----------------------------
(***************************************************************************)
(* Proofs about what is done once and stays done: side effects under a     *)
(* checkpoint, webhooks in either receiver (OnceOnly), ownership transfers *)
(* and invitations (Collaboration) and the browser's offline operations    *)
(* (OperationQueue), each for any number of actors and any limits.         *)
(***************************************************************************)
EXTENDS OnceOnly, Collaboration, OperationQueue, FiniteSetTheorems, SequenceTheorems, TLAPS

(* A set without two different elements has at most one. *)
LEMMA AtMostOne ==
  ASSUME NEW S, \A a, b \in S : a = b
  PROVE  IsFiniteSet(S) /\ Cardinality(S) <= 1
<1>1. CASE S = {}
  BY <1>1, FS_EmptySet
<1>2. CASE S # {}
  <2>1. PICK x : x \in S
    BY <1>2, Zenon
  <2>2. S = {x}
    BY <2>1, Zenon
  <2>3. IsFiniteSet({x}) /\ Cardinality({x}) = 1
    BY FS_Singleton, Zenon
  <2> QED BY <2>2, <2>3
<1> QED BY <1>1, <1>2, Zenon

---------------------------------------------------------------------------
(* Checkpoints of side effects *)

(* One run changes its record. *)
LEMMA SetRun ==
  ASSUME CheckpointTyped, NEW r \in Runs, NEW n \in RunType,
         run' = [run EXCEPT ![r] = n]
  PROVE  /\ run' \in [Runs -> RunType] /\ run'[r] = n
         /\ \A s \in Runs \ {r} : run'[s] = run[s]
BY Zenon DEF CheckpointTyped

(* A run that has ended keeps the run's side of the invariant. *)
LEMMA EndedRun ==
  ASSUME NEW out \in Ended
  PROVE  /\ [Idle EXCEPT !.pc = out] \in RunType
         /\ [Idle EXCEPT !.pc = out].pc = out
         /\ [Idle EXCEPT !.pc = out].now = 0
BY Zenon DEF Idle, RunType, Nobody

(* A step of one run that neither writes the row nor performs. *)
LEMMA QuietRun ==
  ASSUME CheckpointInv, NEW r \in Runs, NEW n \in RunType,
         run' = [run EXCEPT ![r] = n], clock' = clock, row' = row, effects' = effects,
         slow' = slow, n.now <= clock,
         n.pc \in Ended \cup {"claim", "upsert", "reread", "found"},
         n.pc \notin Ended => run[r].pc \notin Ended \cup {"succeed"},
         n.pc = "upsert" => n.prior = row.state,
         n.pc = "found" => run[r].pc = "reconcile" /\ n.attempt = run[r].attempt /\ effects # {}
  PROVE  CheckpointInv'
<1>0. CheckpointTyped /\ run[r] \in RunType
  BY Zenon DEF CheckpointInv, CheckpointTyped
<1>1. /\ run' \in [Runs -> RunType] /\ run'[r] = n
      /\ \A s \in Runs \ {r} : run'[s] = run[s]
  BY <1>0, SetRun, Zenon
<1>2. Claimed(r)' => n.pc = "found" /\ Claimed(r)
  BY <1>1, Zenon DEF Claimed, Ended
<1>3. \A s \in Runs \ {r} : Claimed(s)' <=> Claimed(s)
  BY <1>1, Zenon DEF Claimed
<1>4. CheckpointTyped'
  BY <1>0, <1>1, Zenon DEF CheckpointTyped
<1>5. \A s \in Runs : RunInv(s)'
  <2>1. \A s \in Runs : Claimed(s)' => Claimed(s) /\ run'[s].attempt = run[s].attempt
    BY <1>1, <1>2, <1>3, Zenon
  <2>2. ASSUME NEW s \in Runs \ {r} PROVE RunInv(s)'
    BY <1>1, <1>3, <2>1, Zenon DEF CheckpointInv, RunInv
  <2>3. RunInv(r)'
    <3>1. RunInv(r)
      BY Zenon DEF CheckpointInv
    <3>2. run'[r].now <= clock' /\ run'[r].pc # "succeed" /\ run'[r].pc # "reconcile"
      BY <1>1, Zenon DEF Ended
    <3>3. Claimed(r)' =>
            /\ run'[r].attempt <= row'.attempt
            /\ row'.state # "started" => run'[r].attempt < row'.attempt
            /\ \A s \in Runs : Claimed(s)' /\ run'[s].attempt = run'[r].attempt => r = s
      BY <1>1, <1>2, <2>1, <3>1, Zenon DEF RunInv
    <3>4. run'[r].pc = "found" => r \in Asks /\ effects' # {}
      BY <1>1, <3>1, Zenon DEF RunInv
    <3>5. run'[r].pc \notin Ended \cup {"succeed"} => r \notin effects'
      BY <1>1, <3>1, Zenon DEF RunInv
    <3> QED BY <3>2, <3>3, <3>4, <3>5, Zenon DEF RunInv
  <2> QED BY <2>2, <2>3, Zenon
<1>6. row'.state = "none" => effects' = {} /\ \A s \in Runs : ~Claimed(s)'
  BY <1>2, <1>3, Zenon DEF CheckpointInv
<1>7. ReplayIsReal'
  BY Zenon DEF CheckpointInv, ReplayIsReal
<1>8. slow = {} => NoneSlowInv'
  <2> SUFFICES ASSUME slow = {} PROVE NoneSlowInv'
    BY Zenon
  <2>0. NoneSlowInv
    BY Zenon DEF CheckpointInv
  <2>1. Performers' \subseteq Performers
    BY <1>1, Zenon DEF Performers, Ended
  <2>2. \A s \in Runs : run'[s].pc = "fail" /\ Holder(s)' => Performers' = {}
    BY <1>1, <2>0, <2>1, Zenon DEF NoneSlowInv, Holder, Claimed, Ended
  <2>3. \A s \in Runs : run'[s].pc = "upsert" /\ run'[s].prior # "started" /\ row'.state = "started"
                          => run'[s].now <= row'.at + StaleAfter
    BY <1>1, <2>0, Zenon DEF NoneSlowInv
  <2> QED BY <2>0, <2>1, <2>2, <2>3, Zenon DEF NoneSlowInv
<1> QED BY <1>4, <1>5, <1>6, <1>7, <1>8, Zenon DEF CheckpointInv
(* A run claims the row.  It performs at once when nobody may have performed before. *)
LEMMA ClaimRun ==
  ASSUME CheckpointInv, CheckpointConstants, NEW r \in Runs, NEW recovered \in BOOLEAN,
         run[r].pc \in {"claim", "upsert"}, MayClaim(r), TakeRow(r, recovered),
         clock' = clock, effects' = effects,
         run[r].pc = "claim" => recovered = (row.state = "started"),
         run[r].pc = "upsert" => recovered = (run[r].prior = "started")
  PROVE  CheckpointInv'
<1> DEFINE pc == IF ~recovered THEN "perform"
                 ELSE IF r \in Asks THEN "reconcile" ELSE "doubt"
           n == [run[r] EXCEPT !.attempt = row.attempt + 1, !.prior = "none", !.pc = pc]
<1>0. /\ CheckpointTyped /\ run[r] \in RunType /\ row \in RowType /\ RunInv(r)
      /\ row.attempt \in Nat /\ run[r].now \in Nat /\ clock \in Nat
  BY Zenon DEF CheckpointInv, CheckpointTyped, RowType, RunType
<1>1. /\ n \in RunType /\ n.attempt = row.attempt + 1 /\ n.now = run[r].now
      /\ n.pc \in {"perform", "reconcile", "doubt"}
      /\ n.pc = "reconcile" => r \in Asks
      /\ (n.pc = "perform" <=> ~recovered)
  <2>1. /\ pc \in {"perform", "reconcile", "doubt"} /\ (pc = "reconcile" => r \in Asks)
        /\ (pc = "perform" <=> ~recovered)
    BY Zenon
  <2> DEFINE next == row.attempt + 1
  <2>2. next \in Nat
    BY <1>0
  <2> HIDE DEF pc, next
  <2>3. [run[r] EXCEPT !.attempt = next, !.prior = "none", !.pc = pc] \in RunType
    BY <1>0, <2>1, <2>2, Zenon DEF RunType
  <2>4. n.attempt = row.attempt + 1 /\ n.now = run[r].now /\ n.pc = pc
    BY <1>0, Zenon DEF RunType
  <2> QED BY <2>1, <2>3, <2>4, Zenon DEF next
<1>2. run' = [run EXCEPT ![r] = n]
  BY <1>0, Zenon DEF TakeRow, RunType
<1> HIDE DEF pc, n
<1>3. /\ run' \in [Runs -> RunType] /\ run'[r] = n
      /\ \A s \in Runs \ {r} : run'[s] = run[s]
  BY <1>0, <1>1, <1>2, SetRun, Zenon
<1>4. /\ row'.state = "started" /\ row'.attempt = row.attempt + 1 /\ row'.at = run[r].now
      /\ row' \in RowType
  BY <1>0 DEF TakeRow, RowType, RunType
<1>5. Claimed(r)' /\ ~Claimed(r)
  BY <1>1, <1>3, Zenon DEF Claimed
<1>6. \A s \in Runs \ {r} : Claimed(s)' <=> Claimed(s)
  BY <1>3, Zenon DEF Claimed
<1>7. slow \subseteq slow' /\ slow' \subseteq Runs /\ (slow' = {} => clock <= run[r].now + StaleAfter)
  <2>1. CASE clock > run[r].now + StaleAfter
    <3>1. slow' = slow \cup {r}
      BY <2>1, Zenon DEF TakeRow
    <3> QED BY <1>0, <3>1, Zenon DEF CheckpointTyped
  <2>2. CASE ~(clock > run[r].now + StaleAfter)
    <3>1. slow' = slow
      BY <2>2, Zenon DEF TakeRow
    <3>2. clock <= run[r].now + StaleAfter
      BY <1>0, <2>2 DEF CheckpointConstants
    <3> QED BY <1>0, <3>1, <3>2, Zenon DEF CheckpointTyped
  <2> QED BY <2>1, <2>2, Zenon
<1>8. CheckpointTyped'
  BY <1>0, <1>3, <1>4, <1>7, Zenon DEF CheckpointTyped
<1>9. ASSUME NEW s \in Runs, s # r, Claimed(s)
      PROVE  run[s].attempt \in Nat /\ run[s].attempt <= row.attempt
  BY <1>9, Zenon DEF CheckpointInv, RunInv, CheckpointTyped, RunType
<1>10. \A s \in Runs : RunInv(s)'
  <2>1. ASSUME NEW s \in Runs \ {r} PROVE RunInv(s)'
    <3>1. RunInv(s) /\ run'[s] = run[s]
      BY <1>3, Zenon DEF CheckpointInv
    <3>2. ASSUME Claimed(s)'
          PROVE  /\ run'[s].attempt <= row'.attempt
                 /\ \A t \in Runs : Claimed(t)' /\ run'[t].attempt = run'[s].attempt => s = t
      <4>1. Claimed(s) /\ run[s].attempt \in Nat /\ run[s].attempt <= row.attempt
        BY <1>6, <1>9, <3>2, Zenon
      <4>2. run'[r].attempt # run'[s].attempt
        BY <1>0, <1>1, <1>3, <3>1, <4>1
      <4>3. run'[s].attempt <= row'.attempt
        BY <1>0, <1>4, <3>1, <4>1
      <4> QED BY <1>3, <1>6, <3>1, <4>1, <4>2, <4>3, Zenon DEF RunInv
    <3> QED BY <1>4, <3>1, <3>2, Zenon DEF RunInv
  <2>2. RunInv(r)'
    <3>1. \A s \in Runs : Claimed(s)' /\ run'[s].attempt = run'[r].attempt => r = s
      <4> SUFFICES ASSUME NEW s \in Runs, s # r, Claimed(s), run[s].attempt = row.attempt + 1
                   PROVE  FALSE
        BY <1>1, <1>3, <1>6
      <4> QED BY <1>0, <1>9
    <3>2. r \notin effects
      BY <1>0, Zenon DEF RunInv, Ended
    <3>3. run'[r].attempt <= row'.attempt
      BY <1>0, <1>1, <1>3, <1>4
    <3>4. run'[r].now <= clock'
      BY <1>0, <1>1, <1>3, Zenon DEF RunInv
    <3> QED BY <1>1, <1>3, <1>4, <3>1, <3>2, <3>3, <3>4, Zenon DEF RunInv
  <2> QED BY <2>1, <2>2, Zenon
<1>11. slow' = {} => NoneSlowInv'
  <2> SUFFICES ASSUME slow' = {} PROVE NoneSlowInv'
    BY Zenon
  <2>0. NoneSlowInv /\ clock <= run[r].now + StaleAfter
    BY <1>7, Zenon DEF CheckpointInv
  <2>1. recovered => Performers' = Performers
    BY <1>0, <1>1, <1>3 DEF Performers
  <2>2. ~recovered => Performers' = {r}
    <3> SUFFICES ASSUME ~recovered PROVE Performers = {}
      BY <1>0, <1>1, <1>3 DEF Performers
    <3>1. row.state \in {"none", "failed"} \/ Stale(r)
      BY Zenon DEF MayClaim
    <3>2. ~Stale(r)
      <4> SUFFICES ASSUME row.state = "started", row.at < run[r].now - StaleAfter PROVE FALSE
        BY Zenon DEF Stale
      <4>1. run[r].pc = "upsert" /\ run[r].prior # "started"
        BY Zenon
      <4>2. run[r].now <= row.at + StaleAfter
        BY <2>0, <4>1, Zenon DEF NoneSlowInv
      <4> QED BY <1>0, <4>2 DEF RowType, CheckpointConstants
    <3>3. row.state = "none" => Performers = {}
      BY Zenon DEF CheckpointInv, Claimed, Performers
    <3> QED BY <2>0, <3>1, <3>2, <3>3, Zenon DEF NoneSlowInv
  <2>3. \A a, b \in Performers' : a = b
    BY <2>0, <2>1, <2>2, Zenon DEF NoneSlowInv
  <2>4. ~\E s \in Runs : run'[s].pc = "fail" /\ Holder(s)'
    <3> SUFFICES ASSUME NEW s \in Runs, run'[s].pc = "fail", Holder(s)' PROVE FALSE
      BY Zenon
    <3>1. s # r /\ Claimed(s) /\ run[s].attempt = row.attempt + 1
      BY <1>1, <1>3, <1>4, <1>6, Zenon DEF Holder
    <3> QED BY <1>0, <1>9, <3>1
  <2>5. \A s \in Runs : run'[s].pc = "upsert" => run'[s].now <= row'.at + StaleAfter
    <3> SUFFICES ASSUME NEW s \in Runs, run'[s].pc = "upsert"
                 PROVE  run'[s].now <= row'.at + StaleAfter
      BY Zenon
    <3>1. s # r /\ run'[s] = run[s]
      BY <1>1, <1>3, Zenon
    <3>2. run[s].now <= clock /\ run[s].now \in Nat
      BY Zenon DEF CheckpointInv, RunInv, CheckpointTyped, RunType
    <3> QED BY <1>0, <1>4, <2>0, <3>1, <3>2 DEF CheckpointConstants
  <2> QED BY <1>4, <2>3, <2>4, <2>5, Zenon DEF NoneSlowInv
<1> QED BY <1>4, <1>8, <1>10, <1>11, Zenon DEF CheckpointInv, ReplayIsReal
(* A run settles the row as its last step, or leaves it as it is. *)
LEMMA SettleRun ==
  ASSUME CheckpointInv, CheckpointConstants, NEW r \in Runs, Claimed(r),
         NEW state \in {"succeeded", "failed", "in_doubt"},
         row' = row \/ row' = Settled(r, state),
         NEW out \in Ended, End(r, out), clock' = clock, effects' = effects, slow' = slow,
         state = "succeeded" => effects # {} /\ r \in effects \cup Asks,
         state = "failed" => run[r].pc = "fail"
  PROVE  CheckpointInv'
<1> DEFINE n == [Idle EXCEPT !.pc = out]
<1>0. /\ CheckpointTyped /\ row \in RowType /\ run[r] \in RunType /\ clock \in Nat
      /\ RunInv(r)
  BY Zenon DEF CheckpointInv, CheckpointTyped
<1>1. n \in RunType /\ n.pc = out /\ n.now = 0
  BY EndedRun, Zenon
<1>2. run' = [run EXCEPT ![r] = n]
  BY Zenon DEF End
<1> HIDE DEF n
<1>3. /\ run' \in [Runs -> RunType] /\ run'[r] = n
      /\ \A s \in Runs \ {r} : run'[s] = run[s]
  BY <1>0, <1>1, <1>2, SetRun, Zenon
<1>4. ~Claimed(r)'
  BY <1>1, <1>3, Zenon DEF Claimed, Ended
<1>5. \A s \in Runs \ {r} : Claimed(s)' <=> Claimed(s)
  BY <1>3, Zenon DEF Claimed
<1>6. /\ row' \in RowType /\ row'.attempt = row.attempt
      /\ \/ row' = row
         \/ Holder(r) /\ row'.state = state /\ (state = "succeeded" => row'.by = r)
  BY <1>0, Zenon DEF Settled, RowType, Holder
<1>7. CheckpointTyped'
  BY <1>0, <1>3, <1>6, Zenon DEF CheckpointTyped
<1>8. \A s \in Runs : RunInv(s)'
  <2>1. ASSUME NEW s \in Runs \ {r} PROVE RunInv(s)'
    <3>1. RunInv(s) /\ run'[s] = run[s] /\ run[s] \in RunType
      BY <1>0, <1>3, Zenon DEF CheckpointInv, CheckpointTyped
    <3>2. Claimed(s) /\ row'.state # "started" => run[s].attempt < row.attempt
      <4>1. CASE row' = row
        BY <3>1, <4>1, Zenon DEF RunInv
      <4>2. CASE Holder(r)
        <5>1. Claimed(s) => run[s].attempt # row.attempt /\ run[s].attempt <= row.attempt
          BY <3>1, <4>2, Zenon DEF RunInv, Holder
        <5> QED BY <1>0, <3>1, <5>1 DEF RunType, RowType
      <4> QED BY <1>6, <4>1, <4>2, Zenon
    <3>3. \A t \in Runs : Claimed(t)' => t # r /\ Claimed(t) /\ run'[t] = run[t]
      BY <1>3, <1>4, <1>5, Zenon
    <3> QED BY <1>6, <3>1, <3>2, <3>3, Zenon DEF RunInv
  <2>2. RunInv(r)'
    BY <1>0, <1>1, <1>3, <1>4 DEF RunInv, Ended
  <2> QED BY <2>1, <2>2, Zenon
<1>9. row'.state # "none"
  BY <1>6, Zenon DEF CheckpointInv, Holder
<1>10. ReplayIsReal'
  BY <1>6, Zenon DEF CheckpointInv, ReplayIsReal
<1>11. slow' = {} => NoneSlowInv'
  <2> SUFFICES ASSUME slow = {} PROVE NoneSlowInv'
    BY Zenon
  <2>0. NoneSlowInv
    BY Zenon DEF CheckpointInv
  <2>1. Performers' \subseteq Performers
    BY <1>1, <1>3, Zenon DEF Performers, Ended
  <2>2. row'.state = "failed" => Performers = {}
    BY <1>6, <2>0, Zenon DEF NoneSlowInv
  <2>3. \A s \in Runs : run'[s].pc = "fail" /\ Holder(s)' => Performers = {}
    <3> SUFFICES ASSUME NEW s \in Runs, run'[s].pc = "fail", Holder(s)' PROVE Performers = {}
      BY Zenon
    <3>1. s # r /\ run'[s] = run[s] /\ Claimed(s)
      BY <1>3, <1>4, <1>5, Zenon DEF Holder
    <3>2. row' = row
      BY <1>6, Zenon DEF Holder
    <3> QED BY <2>0, <3>1, <3>2, Zenon DEF NoneSlowInv, Holder
  <2>4. \A s \in Runs : run'[s].pc = "upsert" /\ run'[s].prior # "started" /\ row'.state = "started"
                          => run'[s].now <= row'.at + StaleAfter
    <3> SUFFICES ASSUME NEW s \in Runs, run'[s].pc = "upsert", run'[s].prior # "started",
                        row'.state = "started"
                 PROVE  run'[s].now <= row'.at + StaleAfter
      BY Zenon
    <3>1. run'[s] = run[s] /\ row' = row
      BY <1>1, <1>3, <1>6, Zenon DEF Ended
    <3> QED BY <2>0, <3>1, Zenon DEF NoneSlowInv
  <2> QED BY <2>0, <2>1, <2>2, <2>3, <2>4, Zenon DEF NoneSlowInv
<1> QED BY <1>7, <1>8, <1>9, <1>10, <1>11, Zenon DEF CheckpointInv

(* perform() succeeds or throws. *)
LEMMA PerformRun ==
  ASSUME CheckpointInv, NEW r \in Runs, Perform(r)
  PROVE  CheckpointInv'
<1>0. CheckpointTyped /\ run[r] \in RunType /\ RunInv(r) /\ run[r].pc = "perform"
  BY Zenon DEF CheckpointInv, CheckpointTyped, Perform
<1>1. PICK n \in RunType :
        /\ run' = [run EXCEPT ![r] = n] /\ n.now = run[r].now /\ n.attempt = run[r].attempt
        /\ \/ n.pc = "succeed" /\ effects' = effects \cup {r}
           \/ n.pc = "fail" /\ effects' = effects
  <2>1. CASE effects' = effects \cup {r} /\ Goto(r, "succeed")
    <3> DEFINE m == [run[r] EXCEPT !.pc = "succeed"]
    <3>1. m \in RunType /\ m.now = run[r].now /\ m.attempt = run[r].attempt /\ m.pc = "succeed"
      BY <1>0, Zenon DEF RunType, Ended
    <3>2. run' = [run EXCEPT ![r] = m]
      BY <1>0, <2>1, Zenon DEF Goto
    <3> QED BY <2>1, <3>1, <3>2, Zenon
  <2>2. CASE effects' = effects /\ Goto(r, "fail")
    <3> DEFINE m == [run[r] EXCEPT !.pc = "fail"]
    <3>1. m \in RunType /\ m.now = run[r].now /\ m.attempt = run[r].attempt /\ m.pc = "fail"
      BY <1>0, Zenon DEF RunType, Ended
    <3>2. run' = [run EXCEPT ![r] = m]
      BY <1>0, <2>2, Zenon DEF Goto
    <3> QED BY <2>2, <3>1, <3>2, Zenon
  <2> QED BY <2>1, <2>2, Zenon DEF Perform
<1>2. /\ run' \in [Runs -> RunType] /\ run'[r] = n
      /\ \A s \in Runs \ {r} : run'[s] = run[s]
  BY <1>0, <1>1, SetRun, Zenon
<1>3. clock' = clock /\ row' = row /\ slow' = slow
  BY Zenon DEF Perform
<1>4. \A s \in Runs : (Claimed(s)' <=> Claimed(s)) /\ run'[s].attempt = run[s].attempt
                        /\ run'[s].now = run[s].now
  BY <1>0, <1>1, <1>2, Zenon DEF Claimed
<1>5. CheckpointTyped'
  BY <1>0, <1>1, <1>2, <1>3, Zenon DEF CheckpointTyped
<1>6. \A s \in Runs : RunInv(s)'
  <2>1. ASSUME NEW s \in Runs \ {r} PROVE RunInv(s)'
    BY <1>1, <1>2, <1>3, <1>4 DEF CheckpointInv, RunInv
  <2>2. RunInv(r)'
    BY <1>0, <1>1, <1>2, <1>3, <1>4, Zenon DEF RunInv, Ended
  <2> QED BY <2>1, <2>2, Zenon
<1>7. row.state # "none"
  BY <1>0, Zenon DEF CheckpointInv, Claimed
<1>8. ReplayIsReal'
  BY <1>1, <1>3, Zenon DEF CheckpointInv, ReplayIsReal
<1>9. slow' = {} => NoneSlowInv'
  <2> SUFFICES ASSUME slow = {} PROVE NoneSlowInv'
    BY <1>3, Zenon
  <2>0. NoneSlowInv
    BY Zenon DEF CheckpointInv
  <2>1. r \in Performers /\ row.state # "failed"
    BY <1>0, <2>0, Zenon DEF Performers, NoneSlowInv
  <2>2. Performers' \subseteq Performers
    BY <1>1, <1>2, <2>1, Zenon DEF Performers
  <2>3. n.pc = "fail" => Performers' = {}
    <3> SUFFICES ASSUME n.pc = "fail", NEW s \in Performers' PROVE FALSE
      BY Zenon
    <3>1. s = r
      BY <2>0, <2>1, <2>2, Zenon DEF NoneSlowInv
    <3>2. r \notin effects'
      BY <1>0, <1>1, Zenon DEF RunInv, Ended
    <3> QED BY <1>2, <3>1, <3>2, Zenon DEF Performers
  <2>4. \A s \in Runs : run'[s].pc = "fail" /\ Holder(s)' => Performers' = {}
    <3> SUFFICES ASSUME NEW s \in Runs, s # r, run'[s].pc = "fail", Holder(s)' PROVE FALSE
      BY <1>2, <2>3, Zenon
    <3>1. run[s].pc = "fail" /\ Holder(s)
      BY <1>2, <1>3, <1>4, Zenon DEF Holder
    <3> QED BY <2>0, <2>1, <3>1, Zenon DEF NoneSlowInv
  <2>5. \A s \in Runs : run'[s].pc = "upsert" /\ run'[s].prior # "started" /\ row'.state = "started"
                          => run'[s].now <= row'.at + StaleAfter
    BY <1>1, <1>2, <1>3, <2>0, Zenon DEF NoneSlowInv
  <2> QED BY <1>3, <2>0, <2>1, <2>2, <2>4, <2>5, Zenon DEF NoneSlowInv
<1> QED BY <1>3, <1>5, <1>6, <1>7, <1>8, <1>9, Zenon DEF CheckpointInv
(* reconcile finds the effect, finds nothing, or throws. *)
LEMMA ReconcileRun ==
  ASSUME CheckpointInv, NEW r \in Runs, Reconcile(r)
  PROVE  CheckpointInv'
<1>0. /\ CheckpointTyped /\ run[r] \in RunType /\ RunInv(r) /\ run[r].pc = "reconcile"
      /\ clock' = clock /\ row' = row /\ effects' = effects /\ clock \in Nat
  BY Zenon DEF CheckpointInv, CheckpointTyped, Reconcile
<1>1. CASE effects # {} /\ Goto(r, "found") /\ slow' = slow
  <2> DEFINE n == [run[r] EXCEPT !.pc = "found"]
  <2>1. n \in RunType /\ n.now = run[r].now /\ n.attempt = run[r].attempt /\ n.pc = "found"
    BY <1>0, Zenon DEF RunType, Ended
  <2>2. run' = [run EXCEPT ![r] = n] /\ effects # {} /\ slow' = slow
    BY <1>0, <1>1, Zenon DEF Goto
  <2> HIDE DEF n
  <2>3. n.now <= clock
    BY <1>0, <2>1, Zenon DEF RunInv
  <2> QED BY <1>0, <2>1, <2>2, <2>3, QuietRun, Zenon DEF Ended
<1>2. CASE effects = {} /\ Goto(r, "perform") /\ slow' = slow \cup Overtaken
  <2> DEFINE n == [run[r] EXCEPT !.pc = "perform"]
  <2>1. n \in RunType /\ n.now = run[r].now /\ n.attempt = run[r].attempt /\ n.pc = "perform"
    BY <1>0, Zenon DEF RunType, Ended
  <2>2. run' = [run EXCEPT ![r] = n] /\ effects = {} /\ slow' = slow \cup Overtaken
    BY <1>0, <1>2, Zenon DEF Goto
  <2> HIDE DEF n
  <2>3. /\ run' \in [Runs -> RunType] /\ run'[r] = n
        /\ \A s \in Runs \ {r} : run'[s] = run[s]
    BY <1>0, <2>1, <2>2, SetRun, Zenon
  <2>4. \A s \in Runs : (Claimed(s)' <=> Claimed(s)) /\ run'[s].attempt = run[s].attempt
                          /\ run'[s].now = run[s].now
    BY <1>0, <2>1, <2>3, Zenon DEF Claimed
  <2>5. CheckpointTyped'
    BY <1>0, <2>2, <2>3, Zenon DEF CheckpointTyped, Overtaken
  <2>6. \A s \in Runs : RunInv(s)'
    <3>1. ASSUME NEW s \in Runs \ {r} PROVE RunInv(s)'
      BY <1>0, <2>3, <2>4, Zenon DEF CheckpointInv, RunInv
    <3>2. RunInv(r)'
      BY <1>0, <2>1, <2>2, <2>3, <2>4, Zenon DEF RunInv
    <3> QED BY <3>1, <3>2, Zenon
  <2>7. row.state # "none"
    BY <1>0, Zenon DEF CheckpointInv, Claimed
  <2>8. slow' = {} => NoneSlowInv'
    <3> SUFFICES ASSUME slow' = {} PROVE NoneSlowInv'
      BY Zenon
    <3>0. NoneSlowInv /\ Overtaken = {}
      BY <2>2, Zenon DEF CheckpointInv
    <3>1. \A s \in Runs : run[s].pc \in {"reconcile", "perform"} => Holder(s)
      <4> SUFFICES ASSUME NEW s \in Runs, run[s].pc \in {"reconcile", "perform"} PROVE Holder(s)
        BY Zenon
      <4>1. /\ Claimed(s) /\ ~(run[s].attempt < row.attempt) /\ RunInv(s)
            /\ run[s].attempt \in Nat /\ row.attempt \in Nat
        BY <1>0, <3>0, Zenon DEF Claimed, Overtaken, CheckpointInv, CheckpointTyped, RunType, RowType
      <4> QED BY <4>1 DEF RunInv, Holder
    <3>2. row.state = "started" /\ run[r].attempt = row.attempt
      BY <1>0, <3>1, Zenon DEF Holder
    <3>3. \A s \in Runs : Claimed(s) /\ run[s].attempt = row.attempt => s = r
      BY <1>0, <3>2, Zenon DEF RunInv, Claimed
    <3>4. Performers' = {r}
      <4>1. \A s \in Runs : run[s].pc = "perform" => s = r
        BY <3>1, <3>3, Zenon DEF Holder
      <4> QED BY <1>0, <2>1, <2>2, <2>3, <4>1, Zenon DEF Performers
    <3>5. ~\E s \in Runs : run'[s].pc = "fail" /\ Holder(s)'
      <4> SUFFICES ASSUME NEW s \in Runs, run'[s].pc = "fail", Holder(s)' PROVE FALSE
        BY Zenon
      <4>1. s = r
        BY <1>0, <2>4, <3>3, Zenon DEF Holder
      <4> QED BY <2>1, <2>3, <4>1, Zenon
    <3>6. \A s \in Runs : run'[s].pc = "upsert" => run'[s] = run[s]
      BY <2>1, <2>3, Zenon
    <3> QED BY <1>0, <3>0, <3>2, <3>4, <3>5, <3>6, Zenon DEF NoneSlowInv
  <2>9. ReplayIsReal'
    BY <1>0, Zenon DEF CheckpointInv, ReplayIsReal
  <2> QED BY <1>0, <2>5, <2>6, <2>7, <2>8, <2>9, Zenon DEF CheckpointInv
<1>3. CASE End(r, "failed") /\ slow' = slow
  <2> DEFINE n == [Idle EXCEPT !.pc = "failed"]
  <2>1. n \in RunType /\ n.pc = "failed" /\ n.now = 0
    BY EndedRun, Zenon DEF Ended
  <2>2. run' = [run EXCEPT ![r] = n] /\ slow' = slow
    BY <1>3, Zenon DEF End
  <2>3. n.now <= clock
    BY <1>0, <2>1
  <2> HIDE DEF n
  <2> QED BY <1>0, <2>1, <2>2, <2>3, QuietRun, Zenon DEF Ended
<1> QED BY <1>1, <1>2, <1>3, Zenon DEF Reconcile

(* The steps before the claim, and a crash. *)
LEMMA OtherRun ==
  ASSUME CheckpointInv, NEW r \in Runs,
         \/ Start(r) \/ ClaimSnapshot(r) \/ ClaimReread(r) \/ Crash(r)
         \/ (ClaimMemory(r) \/ ClaimUpsert(r)) /\ ~MayClaim(r)
  PROVE  CheckpointInv'
<1>0. CheckpointTyped /\ run[r] \in RunType /\ RunInv(r) /\ clock \in Nat /\ row \in RowType
  BY Zenon DEF CheckpointInv, CheckpointTyped
<1>1. CASE Start(r)
  <2>1. PICK fp \in Prints :
          run' = [run EXCEPT ![r] = [Idle EXCEPT !.pc = "claim", !.fp = fp, !.now = clock]]
    BY <1>1, Zenon DEF Start
  <2> DEFINE n == [Idle EXCEPT !.pc = "claim", !.fp = fp, !.now = clock]
  <2>2. n \in RunType /\ n.pc = "claim" /\ n.now = clock
    BY <1>0, Zenon DEF RunType, Idle, Nobody
  <2>3. /\ run' = [run EXCEPT ![r] = n] /\ run[r].pc = "idle"
        /\ clock' = clock /\ row' = row /\ effects' = effects /\ slow' = slow
    BY <1>1, <2>1, Zenon DEF Start
  <2>4. n.now <= clock
    BY <1>0, <2>2
  <2> HIDE DEF n
  <2> QED BY <1>0, <2>2, <2>3, <2>4, QuietRun, Zenon DEF Ended
<1>2. CASE ClaimSnapshot(r) \/ (ClaimUpsert(r) /\ ~MayClaim(r))
  <2>1. PICK p \in {"upsert", "reread"}, prior \in {row.state, "none"} :
          /\ run' = [run EXCEPT ![r].pc = p, ![r].prior = prior]
          /\ p = "upsert" => prior = row.state
          /\ run[r].pc \in {"claim", "upsert"}
          /\ clock' = clock /\ row' = row /\ effects' = effects /\ slow' = slow
    BY <1>2, Zenon DEF ClaimSnapshot, ClaimUpsert
  <2> DEFINE n == [run[r] EXCEPT !.pc = p, !.prior = prior]
  <2>2. n \in RunType /\ n.pc = p /\ n.prior = prior /\ n.now = run[r].now
    BY <1>0, Zenon DEF RunType, RowType
  <2>3. run' = [run EXCEPT ![r] = n]
    BY <1>0, <2>1, Zenon DEF CheckpointTyped
  <2>4. n.now <= clock
    BY <1>0, <2>2, Zenon DEF RunInv
  <2> HIDE DEF n
  <2> QED BY <1>0, <2>1, <2>2, <2>3, <2>4, QuietRun, Zenon DEF Ended
<1>3. CASE ClaimReread(r) \/ Crash(r) \/ (ClaimMemory(r) /\ ~MayClaim(r))
  <2>1. PICK out \in Ended :
          /\ End(r, out) /\ run[r].pc \notin Ended
          /\ clock' = clock /\ row' = row /\ effects' = effects /\ slow' = slow
    BY <1>3, Zenon DEF ClaimReread, Crash, ClaimMemory, Answer, Ended
  <2> DEFINE n == [Idle EXCEPT !.pc = out]
  <2>2. n \in RunType /\ n.pc = out /\ n.now = 0
    BY EndedRun, Zenon
  <2>3. run' = [run EXCEPT ![r] = n]
    BY <2>1, Zenon DEF End
  <2>4. n.now <= clock
    BY <1>0, <2>2
  <2> HIDE DEF n
  <2> QED BY <1>0, <2>1, <2>2, <2>3, <2>4, QuietRun, Zenon DEF Ended
<1> QED BY <1>1, <1>2, <1>3, Zenon

(* A checkpoint starts with nothing performed and nothing claimed. *)
LEMMA CheckpointStart ==
  ASSUME CheckpointInit PROVE CheckpointInv
<1>1. row = NoRow /\ run = [r \in Runs |-> Idle] /\ effects = {} /\ slow = {} /\ clock = 0
  BY Zenon DEF CheckpointInit
<1>2. Idle \in RunType /\ Idle.pc = "idle" /\ Idle.now = 0 /\ NoRow \in RowType /\ NoRow.state = "none"
  BY Zenon DEF Idle, NoRow, RunType, RowType, Nobody
<1>3. \A r \in Runs : run[r] = Idle /\ ~Claimed(r)
  BY <1>1, <1>2, Zenon DEF Claimed
<1>4. CheckpointTyped
  BY <1>1, <1>2, Zenon DEF CheckpointTyped
<1>5. \A r \in Runs : RunInv(r)
  BY <1>1, <1>2, <1>3 DEF RunInv
<1>6. ReplayIsReal /\ NoneSlowInv
  BY <1>1, <1>2, <1>3, Zenon DEF ReplayIsReal, NoneSlowInv, Performers
<1> QED BY <1>1, <1>2, <1>3, <1>4, <1>5, <1>6, Zenon DEF CheckpointInv

(* Every step of a run, of the memory or of the database keeps the invariant of the checkpoint. *)
LEMMA CheckpointStep ==
  ASSUME CheckpointInv, CheckpointConstants, CheckpointNext PROVE CheckpointInv'
<1>1. CASE CheckpointTick
  <2>1. /\ clock' = clock + 1 /\ row' = row /\ run' = run /\ effects' = effects /\ slow' = slow
        /\ clock \in Nat
    BY <1>1, Zenon DEF CheckpointTick, CheckpointInv, CheckpointTyped
  <2>2. CheckpointTyped'
    BY <2>1 DEF CheckpointInv, CheckpointTyped
  <2>3. \A r \in Runs : RunInv(r)'
    <3> SUFFICES ASSUME NEW r \in Runs PROVE RunInv(r)'
      BY Zenon
    <3>1. run[r].now \in Nat /\ run[r].now <= clock
      BY Zenon DEF CheckpointInv, RunInv, CheckpointTyped, RunType
    <3>2. run'[r].now <= clock'
      BY <2>1, <3>1
    <3> QED BY <2>1, <3>2, Zenon DEF CheckpointInv, RunInv, Claimed
  <2> QED BY <2>1, <2>2, <2>3, Zenon
          DEF CheckpointInv, NoneSlowInv, ReplayIsReal, Claimed, Holder, Performers
<1>2. ASSUME NEW r \in Runs,
             \/ Start(r) \/ ClaimMemory(r)
             \/ ClaimSnapshot(r) \/ ClaimUpsert(r) \/ ClaimReread(r)
             \/ PutInDoubt(r) \/ Reconcile(r) \/ RecordFound(r)
             \/ Perform(r) \/ Record(r) \/ Crash(r)
      PROVE  CheckpointInv'
  <2>1. CASE (ClaimMemory(r) \/ ClaimUpsert(r)) /\ MayClaim(r)
    <3>1. PICK recovered \in BOOLEAN :
            /\ run[r].pc \in {"claim", "upsert"} /\ TakeRow(r, recovered)
            /\ clock' = clock /\ effects' = effects
            /\ run[r].pc = "claim" => recovered = (row.state = "started")
            /\ run[r].pc = "upsert" => recovered = (run[r].prior = "started")
      BY <2>1, Zenon DEF ClaimMemory, ClaimUpsert
    <3> QED BY <2>1, <3>1, ClaimRun, Zenon
  <2>2. CASE PutInDoubt(r)
    BY <2>2, SettleRun, Zenon DEF PutInDoubt, Claimed, Ended
  <2>3. CASE RecordFound(r)
    <3>1. effects # {} /\ r \in Asks
      BY <2>3, Zenon DEF RecordFound, CheckpointInv, RunInv
    <3> QED BY <2>3, <3>1, SettleRun, Zenon DEF RecordFound, Claimed, Ended
  <2>4. CASE Record(r)
    <3>1. run[r].pc = "succeed" => r \in effects
      BY Zenon DEF CheckpointInv, RunInv
    <3> QED BY <2>4, <3>1, SettleRun, Zenon DEF Record, Claimed, Ended
  <2>5. CASE Reconcile(r) \/ Perform(r)
    BY <2>5, ReconcileRun, PerformRun, Zenon
  <2> QED BY <1>2, <2>1, <2>2, <2>3, <2>4, <2>5, OtherRun, Zenon
<1> QED BY <1>1, <1>2, Zenon DEF CheckpointNext

(* Under the invariant the effect happens at most once, unless a run was slow. *)
LEMMA CheckpointOnce ==
  ASSUME CheckpointInv PROVE EffectAtMostOnce
<1>1. slow = {} => \A a, b \in effects : a = b
  BY Zenon DEF CheckpointInv, NoneSlowInv, Performers
<1> QED BY <1>1, AtMostOne, Zenon DEF EffectAtMostOnce

(* A settled row is neither claimed nor settled again. *)
LEMMA CheckpointFinal ==
  ASSUME CheckpointNext PROVE OutcomeIsFinal
<1> SUFFICES ASSUME row.state \in {"succeeded", "in_doubt"} PROVE row' = row
  BY Zenon DEF OutcomeIsFinal
<1>1. \A r \in Runs : ~MayClaim(r)
  BY Zenon DEF MayClaim, Stale
<1>2. \A r \in Runs : \A state : Settled(r, state) = row
  BY Zenon DEF Settled
<1>3. CASE CheckpointTick
  BY <1>3, Zenon DEF CheckpointTick
<1>4. ASSUME NEW r \in Runs, Start(r) \/ ClaimMemory(r) \/ ClaimSnapshot(r) \/ ClaimUpsert(r) \/ ClaimReread(r)
      PROVE  row' = row
  BY <1>1, <1>4, Zenon DEF Start, ClaimMemory, ClaimSnapshot, ClaimUpsert, ClaimReread
<1>5. ASSUME NEW r \in Runs, PutInDoubt(r) \/ RecordFound(r) \/ Record(r)
      PROVE  row' = row
  BY <1>2, <1>5 DEF PutInDoubt, RecordFound, Record
<1>6. ASSUME NEW r \in Runs, Reconcile(r) \/ Perform(r) \/ Crash(r)
      PROVE  row' = row
  BY <1>6, Zenon DEF Reconcile, Perform, Crash
<1> QED BY <1>3, <1>4, <1>5, <1>6, Zenon DEF CheckpointNext
---------------------------------------------------------------------------
(* Handling of a webhook *)

(* A webhook starts unhandled. *)
LEMMA ProcessStart ==
  ASSUME ProcessInit PROVE ProcessInv
<1>1. /\ record = NoRecord /\ handled = {} /\ outlived = {}
      /\ call = [c \in Calls |-> [pc |-> "idle", body |-> "none"]]
  BY Zenon DEF ProcessInit
<1>2. \A c \in Calls : call[c].pc = "idle"
  BY <1>1, Zenon
<1>3. Busy = {}
  BY <1>2, Zenon DEF Busy
<1> QED BY <1>1, <1>2, <1>3, Zenon DEF ProcessInv, OneHolder, ReplayedWasHandled, NoRecord, CallPcs

(* What a step of one call does to it and to the record. *)
LEMMA SetCall ==
  ASSUME ProcessInv, NEW c \in Calls, NEW pc \in CallPcs, NEW body \in Bodies \cup {"none"},
         call' = [call EXCEPT ![c] = [pc |-> pc, body |-> body]]
  PROVE  /\ call' \in [Calls -> [pc : CallPcs, body : Bodies \cup {"none"}]]
         /\ call'[c].pc = pc /\ \A d \in Calls \ {c} : call'[d] = call[d]
BY Zenon DEF ProcessInv

(* One call of processWebhook moves on. *)
LEMMA MoveCall ==
  ASSUME ProcessInv, NEW c \in Calls, NEW pc \in CallPcs, At(c, pc)
  PROVE  /\ call' \in [Calls -> [pc : CallPcs, body : Bodies \cup {"none"}]]
         /\ call'[c].pc = pc /\ \A d \in Calls \ {c} : call'[d] = call[d]
BY Zenon DEF ProcessInv, At

(* A call that ends, or has not yet asked the store. *)
LEMMA QuietCall ==
  ASSUME ProcessInv, NEW c \in Calls, NEW pc \in CallPcs,
         /\ call' \in [Calls -> [pc : CallPcs, body : Bodies \cup {"none"}]]
         /\ call'[c].pc = pc /\ \A d \in Calls \ {c} : call'[d] = call[d],
         pc \notin {"handle", "complete", "release", "200"},
         call[c].pc \in {"idle", "begin"}, pc = "replay" => record.kind = "done",
         record' = record, handled' = handled, outlived' = outlived
  PROVE  ProcessInv'
<1>1. Busy' = Busy
  BY Zenon DEF Busy
<1>2. pc = "replay" => handled # {}
  BY Zenon DEF ProcessInv
<1>3. outlived = {} => OneHolder'
  <2> SUFFICES ASSUME OneHolder PROVE OneHolder'
    BY Zenon DEF ProcessInv
  <2>1. c \notin handled \/ record.kind \in {"done", "expired"}
    BY Zenon DEF OneHolder
  <2> QED BY <1>1, <2>1 DEF OneHolder, ProcessInv
<1>4. ReplayedWasHandled'
  BY <1>2, Zenon DEF ProcessInv, ReplayedWasHandled
<1>5. \A d \in Calls : call'[d].pc = "complete" => d \in handled
  BY Zenon DEF ProcessInv
<1> QED BY <1>3, <1>4, <1>5, Zenon DEF ProcessInv, CallPcs

(* beginProcessing keeps the invariant: it claims a free record, or answers from the one it finds. *)
LEMMA BeginCall ==
  ASSUME ProcessInv, NEW c \in Calls, Begin(c)
  PROVE  ProcessInv'
<1>0. /\ call[c].pc = "begin" /\ handled' = handled
      /\ call[c].body \in Bodies \cup {"none"} /\ record.kind \in {"none", "locked", "done", "expired"}
  BY Zenon DEF Begin, ProcessInv
<1>1. ASSUME At(c, "handle"), record'.kind = "locked", record.kind \in {"none", "locked"},
             record' \in [kind : {"none", "locked", "done", "expired"}, body : Bodies \cup {"none"}],
             outlived \subseteq outlived', outlived' \subseteq Calls,
             outlived' = {} => Busy = {}
      PROVE  ProcessInv'
  <2>1. /\ call' \in [Calls -> [pc : CallPcs, body : Bodies \cup {"none"}]]
        /\ call'[c].pc = "handle" /\ \A d \in Calls \ {c} : call'[d] = call[d]
    BY <1>1, MoveCall, Zenon DEF CallPcs
  <2>2. outlived' = {} => OneHolder'
    <3> SUFFICES ASSUME outlived' = {} PROVE OneHolder'
      BY Zenon
    <3>1. OneHolder /\ Busy = {}
      BY <1>1, Zenon DEF ProcessInv
    <3>2. handled = {}
      <4> SUFFICES ASSUME NEW d \in handled PROVE FALSE
        BY Zenon
      <4>1. call[d].pc = "complete" /\ d \in Calls
        BY <1>1, <3>1, Zenon DEF OneHolder, ProcessInv
      <4> QED BY <3>1, <4>1, Zenon DEF Busy
    <3>3. \A d \in Calls : call'[d].pc # "200"
      BY <1>1, <2>1, <3>1, Zenon DEF OneHolder
    <3>4. Busy' = {c}
      BY <2>1, <3>1, Zenon DEF Busy
    <3> QED BY <1>0, <1>1, <3>2, <3>3, <3>4, Zenon DEF OneHolder
  <2>3. ReplayedWasHandled'
    BY <1>0, <2>1, Zenon DEF ProcessInv, ReplayedWasHandled
  <2>4. \A d \in Calls : call'[d].pc = "complete" => d \in handled'
    BY <1>0, <2>1, Zenon DEF ProcessInv
  <2> QED BY <1>0, <1>1, <2>1, <2>2, <2>3, <2>4, Zenon DEF ProcessInv, CallPcs
<1>2. CASE BeginResult(c) = "handle" /\ record' = [kind |-> "locked", body |-> call[c].body]
           /\ At(c, "handle") /\ outlived' = outlived
  <2>1. record.kind = "none"
    BY <1>0, <1>2, Zenon DEF BeginResult
  <2>2. outlived = {} => Busy = {}
    BY <2>1, Zenon DEF ProcessInv, OneHolder
  <2> QED BY <1>0, <1>1, <1>2, <2>1, <2>2, Zenon DEF ProcessInv
<1>3. CASE BeginResult(c) = "409" /\ At(c, "handle") /\ record' = record
           /\ outlived' = outlived \cup Busy
  <2>1. record.kind = "locked"
    BY <1>0, <1>3, Zenon DEF BeginResult
  <2>2. outlived' \subseteq Calls
    BY <1>3, Zenon DEF ProcessInv, Busy
  <2> QED BY <1>0, <1>1, <1>3, <2>1, <2>2, Zenon DEF ProcessInv
<1>4. CASE \E pc \in {"422", "replay", "410", "409", "503"} :
             /\ At(c, pc) /\ (pc = "replay" => record.kind = "done")
             /\ record' = record /\ outlived' = outlived
  <2>1. PICK pc \in {"422", "replay", "410", "409", "503"} :
             /\ At(c, pc) /\ (pc = "replay" => record.kind = "done")
             /\ record' = record /\ outlived' = outlived
    BY <1>4, Zenon
  <2>2. pc \in CallPcs /\ pc \notin {"handle", "complete", "release", "200"}
    BY Zenon DEF CallPcs
  <2>3. /\ call' \in [Calls -> [pc : CallPcs, body : Bodies \cup {"none"}]]
        /\ call'[c].pc = pc /\ \A d \in Calls \ {c} : call'[d] = call[d]
    BY <2>1, <2>2, MoveCall, Zenon
  <2> QED BY <1>0, <2>1, <2>2, <2>3, QuietCall, Zenon
<1>5. BeginResult(c) \in {"handle", "422", "replay", "410", "409"}
      /\ (BeginResult(c) = "replay" => record.kind = "done")
  BY Zenon DEF BeginResult
<1>6. CASE BeginResult(c) # "handle" /\ At(c, BeginResult(c)) /\ record' = record /\ outlived' = outlived
  BY <1>4, <1>5, <1>6, Zenon
<1>7. CASE At(c, "503") /\ record' = record /\ outlived' = outlived
  BY <1>4, <1>7, Zenon
<1> QED BY <1>2, <1>3, <1>6, <1>7, Zenon DEF Begin, Busy

(* The handler runs under its claim. *)
LEMMA HandleCall ==
  ASSUME ProcessInv, NEW c \in Calls, Handle(c)
  PROVE  ProcessInv'
<1>1. PICK pc \in {"complete", "release"} :
        /\ At(c, pc) /\ handled' = IF pc = "complete" THEN handled \cup {c} ELSE handled
        /\ call[c].pc = "handle" /\ record' = record /\ outlived' = outlived
  BY Zenon DEF Handle
<1>2. /\ call' \in [Calls -> [pc : CallPcs, body : Bodies \cup {"none"}]]
      /\ call'[c].pc = pc /\ \A d \in Calls \ {c} : call'[d] = call[d]
  BY <1>1, MoveCall, Zenon DEF CallPcs
<1>3. Busy' = Busy /\ c \in Busy
  BY <1>1, <1>2, Zenon DEF Busy
<1>4. handled \subseteq handled' /\ handled' \subseteq handled \cup {c} /\ (pc = "complete" => c \in handled')
      /\ (pc = "release" => handled' = handled)
  BY <1>1, Zenon
<1>5. outlived = {} => OneHolder'
  <2> SUFFICES ASSUME OneHolder PROVE OneHolder'
    BY Zenon DEF ProcessInv
  <2>1. handled = {}
    <3> SUFFICES ASSUME NEW d \in handled PROVE FALSE
      BY Zenon
    <3>1. record.kind = "locked" /\ d \in Calls
      BY <1>3, Zenon DEF OneHolder, ProcessInv
    <3>2. call[d].pc = "complete"
      BY <3>1, Zenon DEF OneHolder
    <3>3. d \in Busy
      BY <3>1, <3>2, Zenon DEF Busy
    <3> QED BY <1>1, <1>3, <3>2, <3>3, Zenon DEF OneHolder
  <2>2. \A d \in handled' : d = c /\ call'[d].pc = "complete"
    BY <1>2, <1>4, <2>1, Zenon
  <2> QED BY <1>1, <1>2, <1>3, <2>2, Zenon DEF OneHolder
<1>6. \A d \in Calls : call'[d].pc = "complete" => d \in handled'
  BY <1>2, <1>4, Zenon DEF ProcessInv
<1>7. ReplayedWasHandled'
  BY <1>2, <1>4, Zenon DEF ProcessInv, ReplayedWasHandled
<1> QED BY <1>1, <1>2, <1>4, <1>5, <1>6, <1>7, Zenon DEF ProcessInv, CallPcs

(* completeProcessing writes the outcome of a claim that is still held. *)
LEMMA CompleteCall ==
  ASSUME ProcessInv, NEW c \in Calls, Complete(c)
  PROVE  ProcessInv'
<1>0. /\ call[c].pc = "complete" /\ handled' = handled /\ c \in handled /\ c \in Busy
      /\ call[c].body \in Bodies \cup {"none"}
  BY Zenon DEF Complete, ProcessInv, Busy
<1>1. CASE record' = [kind |-> "done", body |-> call[c].body] /\ At(c, "200") /\ outlived' = outlived
  <2>1. /\ call' \in [Calls -> [pc : CallPcs, body : Bodies \cup {"none"}]]
        /\ call'[c].pc = "200" /\ \A d \in Calls \ {c} : call'[d] = call[d]
    BY <1>1, MoveCall, Zenon DEF CallPcs
  <2>2. Busy' = Busy \ {c}
    BY <2>1, Zenon DEF Busy
  <2>3. outlived = {} => OneHolder'
    <3> SUFFICES ASSUME OneHolder PROVE OneHolder'
      BY Zenon DEF ProcessInv
    <3>1. Busy' = {} /\ \A d \in Calls : call[d].pc # "200"
      BY <1>0, <2>2, Zenon DEF OneHolder
    <3> QED BY <1>0, <1>1, <2>1, <3>1 DEF OneHolder
  <2>4. ReplayedWasHandled'
    BY <1>0, Zenon DEF ReplayedWasHandled
  <2> QED BY <1>0, <1>1, <2>1, <2>3, <2>4, Zenon DEF ProcessInv, CallPcs
<1>2. CASE At(c, "release") /\ outlived' = outlived \cup {c} /\ record' = record
  <2>1. /\ call' \in [Calls -> [pc : CallPcs, body : Bodies \cup {"none"}]]
        /\ call'[c].pc = "release" /\ \A d \in Calls \ {c} : call'[d] = call[d]
    BY <1>2, MoveCall, Zenon DEF CallPcs
  <2>2. ReplayedWasHandled'
    BY <1>0, Zenon DEF ReplayedWasHandled
  <2> QED BY <1>0, <1>2, <2>1, <2>2, Zenon DEF ProcessInv, CallPcs
<1> QED BY <1>1, <1>2, Zenon DEF Complete

(* A claim whose handler failed is released, and the webhook may be handled again. *)
LEMMA ReleaseCall ==
  ASSUME ProcessInv, NEW c \in Calls, Release(c)
  PROVE  ProcessInv'
<1>0. /\ call[c].pc = "release" /\ At(c, "threw") /\ handled' = handled /\ outlived' = outlived
      /\ record' = record \/ (record.kind = "locked" /\ record' = NoRecord)
      /\ c \in Busy
  BY Zenon DEF Release, Busy
<1>1. /\ call' \in [Calls -> [pc : CallPcs, body : Bodies \cup {"none"}]]
      /\ call'[c].pc = "threw" /\ \A d \in Calls \ {c} : call'[d] = call[d]
  BY <1>0, MoveCall, Zenon DEF CallPcs
<1>2. Busy' = Busy \ {c}
  BY <1>1, Zenon DEF Busy
<1>3. outlived = {} => OneHolder'
  <2> SUFFICES ASSUME OneHolder PROVE OneHolder'
    BY Zenon DEF ProcessInv
  <2>1. Busy' = {} /\ record.kind = "locked"
    BY <1>0, <1>2, Zenon DEF OneHolder
  <2>2. handled = {}
    <3> SUFFICES ASSUME NEW d \in handled PROVE FALSE
      BY Zenon
    <3>1. call[d].pc = "complete" /\ d \in Calls
      BY <2>1, Zenon DEF OneHolder, ProcessInv
    <3>2. d \in Busy
      BY <3>1, Zenon DEF Busy
    <3> QED BY <1>0, <3>1, <3>2, Zenon DEF OneHolder
  <2>3. \A d \in Calls : call'[d].pc # "200"
    BY <1>1, <2>1, Zenon DEF OneHolder
  <2> QED BY <1>0, <2>1, <2>2, <2>3, Zenon DEF OneHolder
<1>4. record' \in [kind : {"none", "locked", "done", "expired"}, body : Bodies \cup {"none"}]
      /\ (record'.kind \in {"done", "expired"} => record.kind \in {"done", "expired"})
  BY <1>0 DEF ProcessInv, NoRecord
<1>5. ReplayedWasHandled'
  BY <1>0, <1>1, Zenon DEF ProcessInv, ReplayedWasHandled
<1>6. \A d \in Calls : call'[d].pc = "complete" => d \in handled'
  BY <1>0, <1>1, Zenon DEF ProcessInv
<1> QED BY <1>0, <1>1, <1>3, <1>4, <1>5, <1>6, Zenon DEF ProcessInv, CallPcs

(* Every step of a call keeps the invariant of the processing records. *)
LEMMA ProcessStep ==
  ASSUME ProcessInv, ProcessNext PROVE ProcessInv'
<1>1. CASE Expire
  <2>1. /\ record' \in [kind : {"none", "locked", "done", "expired"}, body : Bodies \cup {"none"}]
        /\ record.kind = "done" /\ record'.kind = "expired"
        /\ call' = call /\ handled' = handled /\ outlived' = outlived
    BY <1>1, Zenon DEF Expire, ProcessInv
  <2>2. OneHolder => OneHolder'
    BY <2>1, Zenon DEF OneHolder, Busy
  <2> QED BY <2>1, <2>2, Zenon DEF ProcessInv, ReplayedWasHandled
<1>2. ASSUME NEW c \in Calls, Deliver(c) PROVE ProcessInv'
  <2>1. PICK pc \in {"begin", "400", "401"}, body \in Bodies \cup {"none"} :
          /\ call' = [call EXCEPT ![c] = [pc |-> pc, body |-> body]]
          /\ call[c].pc = "idle" /\ record' = record /\ handled' = handled /\ outlived' = outlived
    <3>1. CASE \E b \in Bodies : call' = [call EXCEPT ![c] = [pc |-> "begin", body |-> b]]
      BY <1>2, <3>1, Zenon DEF Deliver
    <3>2. CASE \E code \in {"400", "401"} : call' = [call EXCEPT ![c].pc = code]
      <4>1. PICK code \in {"400", "401"} : call' = [call EXCEPT ![c].pc = code]
        BY <3>2, Zenon
      <4>2. call[c] \in [pc : CallPcs, body : Bodies \cup {"none"}]
        BY Zenon DEF ProcessInv
      <4>3. [call[c] EXCEPT !.pc = code] = [pc |-> code, body |-> call[c].body]
            /\ call[c].body \in Bodies \cup {"none"}
        BY <4>2
      <4>4. call' = [call EXCEPT ![c] = [pc |-> code, body |-> call[c].body]]
        BY <4>1, <4>3, Zenon
      <4> QED BY <1>2, <4>3, <4>4, Zenon DEF Deliver
    <3> QED BY <1>2, <3>1, <3>2, Zenon DEF Deliver
  <2>2. pc \in CallPcs /\ pc \notin {"handle", "complete", "release", "200", "replay"}
    BY Zenon DEF CallPcs
  <2>3. /\ call' \in [Calls -> [pc : CallPcs, body : Bodies \cup {"none"}]]
        /\ call'[c].pc = pc /\ \A d \in Calls \ {c} : call'[d] = call[d]
    BY <2>1, <2>2, SetCall, Zenon
  <2> QED BY <2>1, <2>2, <2>3, QuietCall, Zenon
<1> QED BY <1>1, <1>2, BeginCall, HandleCall, CompleteCall, ReleaseCall, Zenon DEF ProcessNext

(* Under the invariant an event is handled and acknowledged once, unless a lock was outlived. *)
LEMMA ProcessOnce ==
  ASSUME ProcessInv PROVE HandledOnce /\ ReplayedWasHandled
<1> DEFINE acknowledged == {c \in Calls : call[c].pc = "200"}
<1>1. outlived = {} => \A c, d \in acknowledged : c = d
  BY Zenon DEF ProcessInv, OneHolder
<1>2. outlived = {} => \A c, d \in handled : c = d
  BY Zenon DEF ProcessInv, OneHolder
<1> HIDE DEF acknowledged
<1>3. outlived = {} => Cardinality(acknowledged) <= 1 /\ Cardinality(handled) <= 1
  BY <1>1, <1>2, AtMostOne, Zenon
<1>4. ReplayedWasHandled
  BY Zenon DEF ProcessInv
<1> QED BY <1>3, <1>4, Zenon DEF HandledOnce, acknowledged
---------------------------------------------------------------------------
(* The replay store *)

(* A downward closed set of positions is an interval. *)
LEMMA Prefix ==
  ASSUME NEW n \in Nat, NEW S \in SUBSET (1..n), \A i \in S : \A j \in 1..i : j \in S
  PROVE  Cardinality(S) \in 0..n /\ S = 1..Cardinality(S)
<1>1. IsFiniteSet(1..n) /\ Cardinality(1..n) = n
  BY FS_Interval
<1>2. IsFiniteSet(S) /\ Cardinality(S) <= n
  BY <1>1, FS_Subset, Zenon
<1>3. Cardinality(S) \in Nat
  BY <1>2, FS_CardinalityType, Zenon
<1> DEFINE c == Cardinality(S)
<1>4. \A i \in S : i <= c
  <2> SUFFICES ASSUME NEW i \in S PROVE i <= c
    BY Zenon
  <2>1. 1..i \in SUBSET S /\ i \in Nat /\ i >= 1
    OBVIOUS
  <2>2. Cardinality(1..i) <= Cardinality(S)
    BY <1>2, <2>1, FS_Subset, Zenon
  <2>3. Cardinality(1..i) = i
    BY <2>1, FS_Interval
  <2> QED BY <2>2, <2>3, Zenon
<1>5. S \in SUBSET (1..c)
  BY <1>3, <1>4
<1>6. IsFiniteSet(1..c) /\ Cardinality(1..c) = c
  BY <1>3, FS_Interval
<1>7. S = 1..c
  BY <1>5, <1>6, FS_Subset, Zenon
<1> QED BY <1>2, <1>3, <1>7

(* Positions after the first c of n. *)
LEMMA Shift ==
  ASSUME NEW n \in Nat, NEW c \in 0..n
  PROVE  /\ n - c \in Nat /\ n - (c + 1) + 1 = n - c
         /\ (IF c + 1 <= n THEN n - (c + 1) + 1 ELSE 0) = n - c
         /\ \A i \in 1..(n - c) : i \in Nat /\ c + i \in 1..n /\ (c + 1) + i - 1 = c + i /\ i + c = c + i
         /\ \A i, j \in 1..(n - c) : (i < j => c + i < c + j) /\ (c + i = c + j => i = j)
OBVIOUS

(* Cleaning up forgets nothing but old entries. *)
LEMMA CleanupKeeps ==
  ASSUME ReplayInv, ReplayConstants
  PROVE  Stored(Cleanup(entries))
<1> DEFINE n == Len(entries)
           stale == {i \in 1..n : \A j \in 1..i : entries[j].at < now - Window}
           c == Cardinality(stale)
           kept == SubSeq(entries, c + 1, n)
<1>0. /\ entries \in Seq(passed) /\ n \in Nat /\ now \in Nat /\ Window \in Nat
      /\ passed \subseteq [id : Events, at : 0..now]
      /\ \A i \in 1..n : entries[i] \in passed
  BY LenProperties, ElementOfSeq, Zenon DEF ReplayInv, Stored, ReplayConstants
<1>1. c \in 0..n /\ stale = 1..c
  <2>1. stale \in SUBSET (1..n)
    BY Zenon
  <2>2. \A i \in stale : \A j \in 1..i : j \in stale
    BY <1>0
  <2> HIDE DEF stale
  <2> QED BY <1>0, <2>1, <2>2, Prefix, Zenon
<1>2. Cleanup(entries) = kept
  BY Zenon DEF Cleanup
<1>3. \A i \in 1..c : now - entries[i].at > Window
  <2> SUFFICES ASSUME NEW i \in 1..c PROVE now - entries[i].at > Window
    BY Zenon
  <2>1. i \in stale
    BY <1>1, Zenon
  <2>2. i \in 1..n /\ entries[i].at < now - Window
    BY <2>1
  <2>3. entries[i].at \in Nat
    BY <1>0, <2>2
  <2> QED BY <1>0, <2>2, <2>3
<1> HIDE DEF stale, c
<1>4. /\ kept \in Seq(passed) /\ Len(kept) = n - c
      /\ \A i \in 1..(n - c) : kept[i] = entries[c + i] /\ c + i \in 1..n
  <2>1. \A i \in (c + 1)..n : entries[i] \in passed
    BY <1>0, <1>1
  <2>2. /\ kept \in Seq(passed)
        /\ Len(kept) = IF c + 1 <= n THEN n - (c + 1) + 1 ELSE 0
        /\ \A i \in 1..(n - (c + 1) + 1) : kept[i] = entries[(c + 1) + i - 1]
    BY <1>0, <1>1, <2>1, SubSeqProperties
  <2> HIDE DEF kept, n
  <2>3. Len(kept) = n - c
    BY <1>0, <1>1, <2>2, Shift, Zenon
  <2>4. \A i \in 1..(n - c) : kept[i] = entries[c + i] /\ c + i \in 1..n
    BY <1>0, <1>1, <2>2, Shift
  <2> QED BY <2>2, <2>3, <2>4, Zenon
<1> HIDE DEF kept, n
<1>5. \A i, j \in 1..Len(kept) : i < j => kept[i].at <= kept[j].at
  <2> SUFFICES ASSUME NEW i \in 1..(n - c), NEW j \in 1..(n - c), i < j
               PROVE  kept[i].at <= kept[j].at
    BY <1>4, Zenon
  <2>1. c + i < c + j
    BY <1>0, <1>1, Shift, Zenon
  <2> QED BY <1>4, <2>1, Zenon DEF ReplayInv, Stored, n
<1>6. \A i, j \in 1..Len(kept) : kept[i].id = kept[j].id => i = j
  <2> SUFFICES ASSUME NEW i \in 1..(n - c), NEW j \in 1..(n - c), kept[i].id = kept[j].id
               PROVE  i = j
    BY <1>4, Zenon
  <2>1. \A a, b \in 1..n : entries[a].id = entries[b].id => a = b
    BY Zenon DEF ReplayInv, Stored, n
  <2>2. c + i = c + j
    BY <1>4, <2>1
  <2> QED BY <1>0, <1>1, <2>2, Shift
<1>7. \A i \in 1..n : (\E k \in 1..Len(kept) : kept[k] = entries[i]) \/ now - entries[i].at > Window
  <2> SUFFICES ASSUME NEW i \in 1..n
               PROVE (\E k \in 1..Len(kept) : kept[k] = entries[i]) \/ now - entries[i].at > Window
    BY Zenon
  <2>1. CASE i <= c
    BY <1>1, <1>3, <2>1
  <2>2. CASE ~(i <= c)
    <3>1. i - c \in 1..(n - c) /\ c + (i - c) = i
      BY <1>0, <1>1, <2>2
    <3> QED BY <1>4, <3>1, Zenon
  <2> QED BY <2>1, <2>2, Zenon
<1>8. \A p \in passed : \/ \E k \in 1..Len(kept) : kept[k] = p
                        \/ now - p.at > Window
                        \/ Cardinality(Others(p, now)) >= Capacity
  BY <1>7, Zenon DEF ReplayInv, Stored, n
<1> QED BY <1>2, <1>4, <1>5, <1>6, <1>8, Zenon DEF Stored

(* More deliveries only add others. *)
LEMMA OthersGrow ==
  ASSUME passed \subseteq passed', IsFiniteSet(passed'), NEW p, NEW until, NEW later,
         \A x \in passed : x.at <= until => x.at <= later
  PROVE  /\ Cardinality(Others(p, until)) \in Nat /\ Cardinality(Others(p, later)') \in Nat
         /\ Cardinality(Others(p, until)) <= Cardinality(Others(p, later)')
<1> DEFINE A == {x \in passed : x.id # p.id /\ p.at <= x.at /\ x.at <= until}
           B == {x \in passed' : x.id # p.id /\ p.at <= x.at /\ x.at <= later}
<1>1. A \in SUBSET B /\ B \in SUBSET passed'
  BY Zenon
<1> HIDE DEF A, B
<1>2. IsFiniteSet(B)
  BY <1>1, FS_Subset, Zenon
<1>3. IsFiniteSet(A) /\ Cardinality(A) <= Cardinality(B)
  BY <1>1, <1>2, FS_Subset, Zenon
<1>4. Cardinality(A) \in Nat /\ Cardinality(B) \in Nat
  BY <1>2, <1>3, FS_CardinalityType, Zenon
<1> QED BY <1>3, <1>4, Zenon DEF Others, A, B

(* A new delivery is stored, at the expense of the oldest one when the store is full. *)
LEMMA StoreNew ==
  ASSUME ReplayInv, ReplayConstants, NEW kept, Stored(kept), NEW e \in Events, ~Has(kept, e),
         entries' = Append(IF Len(kept) >= Capacity THEN Tail(kept) ELSE kept, [id |-> e, at |-> now]),
         passed' = passed \cup {[id |-> e, at |-> now]}, now' = now
  PROVE  ReplayInv'
<1> DEFINE new == [id |-> e, at |-> now]
           room == IF Len(kept) >= Capacity THEN Tail(kept) ELSE kept
           L == Len(kept)
<1>0. /\ now \in Nat /\ Window \in Nat /\ Capacity \in Nat /\ Capacity > 0 /\ IsFiniteSet(passed)
      /\ passed \subseteq [id : Events, at : 0..now]
      /\ kept \in Seq(passed) /\ L \in Nat /\ \A i \in 1..L : kept[i] \in passed
  BY LenProperties, ElementOfSeq DEF ReplayInv, Stored, ReplayConstants
<1>1. new \in [id : Events, at : 0..now] /\ new.id = e /\ new.at = now
  BY <1>0
<1> HIDE DEF new
<1>2. /\ passed' = passed \cup {new} /\ IsFiniteSet(passed') /\ passed \subseteq passed'
      /\ passed' \subseteq [id : Events, at : 0..now]
  BY <1>0, <1>1, FS_AddElement, Zenon DEF new
<1>3. PICK k \in {0, 1} :
        /\ room \in Seq(passed) /\ Len(room) = L - k /\ L - k \in Nat
        /\ \A i \in 1..(L - k) : room[i] = kept[i + k] /\ i + k \in 1..L
        /\ k = 1 => L >= Capacity
  <2>1. CASE L >= Capacity
    <3>1. kept # << >>
      BY <1>0, <2>1
    <3>2. room = Tail(kept)
      BY <2>1, Zenon
    <3>3. /\ Tail(kept) \in Seq(passed) /\ Len(Tail(kept)) = L - 1
          /\ \A i \in 1..Len(Tail(kept)) : Tail(kept)[i] = kept[i + 1]
      BY <1>0, <3>1, HeadTailProperties, Zenon
    <3>4. L - 1 \in Nat /\ \A i \in 1..(L - 1) : i + 1 \in 1..L
      BY <1>0, <2>1
    <3> QED BY <2>1, <3>2, <3>3, <3>4, Zenon
  <2>2. CASE ~(L >= Capacity)
    <3>1. room = kept
      BY <2>2, Zenon
    <3> HIDE DEF room, L
    <3>2. L - 0 = L /\ \A i \in 1..(L - 0) : i + 0 = i /\ i + 0 \in 1..L
      BY <1>0
    <3>3. room \in Seq(passed) /\ Len(room) = L
      BY <1>0, <3>1, Zenon DEF L
    <3>4. Len(room) = L - 0 /\ L - 0 \in Nat
      BY <1>0, <3>2, <3>3, Zenon
    <3>5. \A i \in 1..(L - 0) : room[i] = kept[i + 0] /\ i + 0 \in 1..L
      BY <3>1, <3>2, Zenon
    <3>6. 0 \in {0, 1} /\ (0 = 1 => L >= Capacity)
      OBVIOUS
    <3> QED BY <3>3, <3>4, <3>5, <3>6, Zenon
  <2> QED BY <2>1, <2>2, Zenon
<1>4. entries' = Append(room, new)
  BY Zenon DEF new
<1> HIDE DEF room
<1> DEFINE m == L - k + 1
<1>5. /\ entries' \in Seq(passed') /\ Len(entries') = m /\ m \in Nat /\ m > 0 /\ m <= L + 1
      /\ entries'[m] = new
      /\ \A i \in 1..m : i # m => entries'[i] = kept[i + k] /\ i + k \in 1..L
  <2>1. room \in Seq(passed') /\ new \in passed'
    BY <1>2, <1>3
  <2>2. /\ entries' \in Seq(passed') /\ Len(entries') = Len(room) + 1
        /\ \A i \in 1..Len(room) : entries'[i] = room[i]
        /\ entries'[Len(room) + 1] = new
    <3> DEFINE longer == Append(room, new)
    <3>1. /\ longer \in Seq(passed') /\ Len(longer) = Len(room) + 1
          /\ \A i \in 1..Len(room) : longer[i] = room[i]
          /\ longer[Len(room) + 1] = new
      BY <2>1, AppendProperties
    <3> QED BY <1>4, <3>1, Zenon
  <2> HIDE DEF L
  <2>3. m \in Nat /\ m > 0 /\ m <= L + 1 /\ \A i \in 1..m : i # m => i \in 1..(L - k)
    BY <1>0, <1>3
  <2> QED BY <1>3, <2>2, <2>3, Zenon
<1> HIDE DEF m
<1>6. \A i \in 1..L : kept[i].id # e /\ kept[i].at \in Nat /\ kept[i].at <= now
  BY <1>0 DEF Has
<1>7. \A i, j \in 1..Len(entries') : i < j => entries'[i].at <= entries'[j].at
  <2> SUFFICES ASSUME NEW i \in 1..m, NEW j \in 1..m, i < j PROVE entries'[i].at <= entries'[j].at
    BY <1>5, Zenon
  <2>1. i # m /\ i + k \in 1..L /\ entries'[i] = kept[i + k]
    BY <1>5
  <2>2. CASE j = m
    BY <1>1, <1>5, <1>6, <2>1, <2>2, Zenon
  <2>3. CASE j # m
    <3>1. j + k \in 1..L /\ entries'[j] = kept[j + k]
      BY <1>5, <2>3, Zenon
    <3>2. i + k < j + k
      BY <1>3, <1>5
    <3> QED BY <2>1, <3>1, <3>2, Zenon DEF Stored
  <2> QED BY <2>2, <2>3, Zenon
<1>8. \A i, j \in 1..Len(entries') : entries'[i].id = entries'[j].id => i = j
  <2> SUFFICES ASSUME NEW i \in 1..m, NEW j \in 1..m, entries'[i].id = entries'[j].id PROVE i = j
    BY <1>5, Zenon
  <2>0. \A p \in 1..m : p # m => entries'[p].id # e
    BY <1>5, <1>6, Zenon
  <2>00. entries'[m].id = e
    BY <1>1, <1>5, Zenon
  <2>1. CASE i = m \/ j = m
    BY <2>0, <2>00, <2>1, Zenon
  <2>2. CASE i # m /\ j # m
    <3>1. i + k \in 1..L /\ entries'[i] = kept[i + k] /\ j + k \in 1..L /\ entries'[j] = kept[j + k]
      BY <1>5, <2>2, Zenon
    <3>2. i + k = j + k
      BY <3>1, Zenon DEF Stored
    <3> QED BY <1>3, <1>5, <3>2
  <2> QED BY <2>1, <2>2, Zenon
<1>9. \A p, until : /\ Cardinality(Others(p, until)) \in Nat /\ Cardinality(Others(p, until)') \in Nat
                    /\ Cardinality(Others(p, until)) <= Cardinality(Others(p, until)')
  BY <1>2, OthersGrow, Zenon
<1>10. ASSUME k = 1 PROVE Cardinality(Others(kept[1], now)') >= Capacity
  <2> DEFINE T == {x \in passed' : x.id # kept[1].id /\ kept[1].at <= x.at /\ x.at <= now}
  <2>1. m = L /\ L >= Capacity /\ 1 \in 1..L
    BY <1>0, <1>3, <1>10 DEF m
  <2>2. \A i \in 1..m : entries'[i] \in T
    <3> SUFFICES ASSUME NEW i \in 1..m PROVE entries'[i] \in T
      BY Zenon
    <3>1. entries'[i] \in passed'
      BY <1>5, ElementOfSeq, Zenon
    <3>2. CASE i = m
      BY <1>1, <1>5, <1>6, <2>1, <3>1, <3>2
    <3>3. CASE i # m
      <4>1. i + 1 \in 1..L /\ entries'[i] = kept[i + 1] /\ 1 < i + 1 /\ i + 1 # 1
        BY <1>5, <1>10, <3>3
      <4>2. kept[1].at <= kept[i + 1].at /\ kept[i + 1].id # kept[1].id
        BY <2>1, <4>1, Zenon DEF Stored
      <4> QED BY <1>6, <3>1, <4>1, <4>2, Zenon
    <3> QED BY <3>2, <3>3, Zenon
  <2>3. entries' \in [1..m -> T]
    <3>1. entries' \in [1..m -> passed']
      BY <1>5, LenProperties, Zenon
    <3> HIDE DEF T
    <3> QED BY <2>2, <3>1, Zenon
  <2>4. IsFiniteSet(T)
    <3>1. T \in SUBSET passed'
      BY Zenon
    <3> HIDE DEF T
    <3> QED BY <1>2, <3>1, FS_Subset, Zenon
  <2> HIDE DEF T
  <2>5. entries' \in Injection(1..m, T)
    <3>1. \A a, b \in 1..m : entries'[a] = entries'[b] => a = b
      BY <1>5, <1>8, Zenon
    <3> QED BY <2>3, <3>1, Zenon DEF Injection, IsInjective
  <2>6. Cardinality(1..m) <= Cardinality(T)
    BY <2>4, <2>5, FS_Injection, Zenon
  <2>7. Cardinality(1..m) = m
    BY <1>5, FS_Interval
  <2>8. Cardinality(T) \in Nat
    BY <2>4, FS_CardinalityType, Zenon
  <2>9. Cardinality(T) >= Capacity
    BY <1>0, <1>5, <2>1, <2>6, <2>7, <2>8
  <2> QED BY <2>9, Zenon DEF T, Others
<1>11. \A i \in 1..L : (\E j \in 1..m : entries'[j] = kept[i]) \/ (i = 1 /\ k = 1)
  <2> SUFFICES ASSUME NEW i \in 1..L, ~(i = 1 /\ k = 1) PROVE \E j \in 1..m : entries'[j] = kept[i]
    BY Zenon
  <2>1. i - k \in 1..m /\ i - k # m /\ (i - k) + k = i
    <3>1. L \in Nat
      BY <1>0
    <3> HIDE DEF L
    <3>2. CASE k = 0
      BY <3>1, <3>2 DEF m
    <3>3. CASE k = 1
      BY <3>1, <3>3 DEF m
    <3> QED BY <3>2, <3>3
  <2> QED BY <1>5, <2>1, Zenon
<1>12. \A p \in passed' : \/ \E i \in 1..Len(entries') : entries'[i] = p
                          \/ now - p.at > Window
                          \/ Cardinality(Others(p, now)') >= Capacity
  <2> SUFFICES ASSUME NEW p \in passed', ~\E i \in 1..m : entries'[i] = p, ~(now - p.at > Window)
               PROVE  Cardinality(Others(p, now)') >= Capacity
    BY <1>5, Zenon
  <2>1. p \in passed
    BY <1>2, <1>5
  <2>2. (\E i \in 1..L : kept[i] = p) \/ Cardinality(Others(p, now)) >= Capacity
    BY <2>1, Zenon DEF Stored
  <2>3. CASE \E i \in 1..L : kept[i] = p
    <3>1. k = 1 /\ kept[1] = p
      BY <1>11, <2>3, Zenon
    <3> QED BY <1>10, <3>1, Zenon
  <2>4. CASE Cardinality(Others(p, now)) >= Capacity
    <3>1. /\ Cardinality(Others(p, now)) \in Nat /\ Cardinality(Others(p, now)') \in Nat
          /\ Cardinality(Others(p, now)) <= Cardinality(Others(p, now)')
      BY <1>2, OthersGrow, Zenon
    <3> QED BY <1>0, <2>4, <3>1
  <2> QED BY <2>2, <2>3, <2>4, Zenon
<1>13. DuplicateStopped'
  <2> SUFFICES ASSUME NEW p \in passed', NEW q \in passed', p.id = q.id, p.at < q.at
               PROVE  q.at - p.at > Window \/ Cardinality(Others(p, q.at)') >= Capacity
    BY Zenon DEF DuplicateStopped
  <2>0. p.at \in 0..now /\ q.at \in 0..now
    BY <1>2, Zenon
  <2>1. p # new
    BY <1>0, <1>1, <2>0
  <2>2. CASE q \in passed /\ ~(q.at - p.at > Window)
    <3>1. Cardinality(Others(p, q.at)) >= Capacity
      BY <1>2, <2>1, <2>2, Zenon DEF ReplayInv, DuplicateStopped
    <3>2. /\ Cardinality(Others(p, q.at)) \in Nat /\ Cardinality(Others(p, q.at)') \in Nat
          /\ Cardinality(Others(p, q.at)) <= Cardinality(Others(p, q.at)')
      BY <1>2, OthersGrow, Zenon
    <3> QED BY <1>0, <3>1, <3>2
  <2>3. CASE q = new
    <3>1. p.id = e /\ p \in passed /\ q.at = now
      BY <1>1, <1>2, <2>1, <2>3, Zenon
    <3>2. ~\E i \in 1..Len(entries') : entries'[i] = p
      <4> SUFFICES ASSUME NEW i \in 1..m, entries'[i] = p PROVE FALSE
        BY <1>5, Zenon
      <4>1. i # m /\ i + k \in 1..L /\ kept[i + k] = p
        BY <1>5, <2>1, Zenon
      <4> QED BY <1>6, <3>1, <4>1, Zenon
    <3> QED BY <1>12, <3>1, <3>2, Zenon
  <2> QED BY <1>2, <2>2, <2>3, Zenon
<1> QED BY <1>0, <1>2, <1>5, <1>7, <1>8, <1>12, <1>13, Zenon DEF ReplayInv, Stored

(* The replay store starts empty. *)
LEMMA ReplayStart ==
  ASSUME ReplayInit PROVE ReplayInv
BY FS_EmptySet DEF ReplayInit, ReplayInv, Stored, DuplicateStopped

(* Accepting an event, cleaning up and the passing of time keep the invariant of the replay store. *)
LEMMA ReplayStep ==
  ASSUME ReplayInv, ReplayConstants, ReplayNext PROVE ReplayInv'
<1>1. CASE ReplayTick
  <2>1. now' = now + 1 /\ now \in Nat /\ entries' = entries /\ passed' = passed /\ IsFiniteSet(passed)
        /\ passed \subseteq [id : Events, at : 0..now] /\ Window \in Nat
    BY <1>1, Zenon DEF ReplayTick, ReplayInv, ReplayConstants
  <2>2. passed' \subseteq [id : Events, at : 0..now'] /\ \A p \in passed : p.at \in Nat
    BY <2>1
  <2>3. \A p, until : Others(p, until)' = Others(p, until)
    BY <2>1, Zenon DEF Others
  <2>4. DuplicateStopped'
    BY <2>1, <2>3, Zenon DEF ReplayInv, DuplicateStopped
  <2>5. \A p \in passed : Others(p, now + 1) = Others(p, now)
    <3> SUFFICES ASSUME NEW p \in passed PROVE Others(p, now + 1) = Others(p, now)
      BY Zenon
    <3>1. \A x \in passed : x.at <= now /\ x.at <= now + 1
      BY <2>1
    <3> QED BY <3>1, Zenon DEF Others
  <2>6. \A p \in passed : now - p.at > Window => now' - p.at > Window
    BY <2>1, <2>2
  <2>7. \A p \in passed : \/ \E i \in 1..Len(entries) : entries[i] = p
                          \/ now' - p.at > Window
                          \/ Cardinality(Others(p, now)') >= Capacity
    BY <2>1, <2>3, <2>5, <2>6, Zenon DEF ReplayInv, Stored
  <2> QED BY <2>1, <2>2, <2>4, <2>7 DEF ReplayInv, Stored
<1>2. ASSUME NEW e \in Events, Receive(e) PROVE ReplayInv'
  <2> DEFINE kept == Cleanup(entries)
             room == IF Len(kept) >= Capacity THEN Tail(kept) ELSE kept
             new == [id |-> e, at |-> now]
  <2>1. /\ now' = now
        /\ IF Has(kept, e) THEN entries' = kept /\ passed' = passed
           ELSE entries' = Append(room, new) /\ passed' = passed \cup {new}
    BY <1>2, Zenon DEF Receive
  <2>2. Stored(kept)
    BY CleanupKeeps, Zenon
  <2>3. CASE Has(kept, e)
    <3>1. entries' = kept /\ passed' = passed /\ now' = now
      BY <2>1, <2>3, Zenon
    <3> HIDE DEF kept
    <3>2. \A p, until : Others(p, until)' = Others(p, until)
      BY <3>1, Zenon DEF Others
    <3>3. DuplicateStopped'
      BY <3>1, <3>2, Zenon DEF ReplayInv, DuplicateStopped
    <3>4. \A p \in passed : \/ \E i \in 1..Len(kept) : kept[i] = p
                            \/ now - p.at > Window
                            \/ Cardinality(Others(p, now)') >= Capacity
      BY <2>2, <3>1, <3>2, Zenon DEF Stored
    <3> QED BY <2>2, <3>1, <3>3, <3>4, Zenon DEF ReplayInv, Stored
  <2>4. CASE ~Has(kept, e)
    <3>1. entries' = Append(room, new) /\ passed' = passed \cup {new} /\ now' = now
      BY <2>1, <2>4, Zenon
    <3> HIDE DEF kept
    <3> QED BY <2>2, <2>4, <3>1, StoreNew, Zenon
  <2> QED BY <2>3, <2>4, Zenon
<1> QED BY <1>1, <1>2, Zenon DEF ReplayNext
---------------------------------------------------------------------------
(* Ownership transfers *)

(* The resource starts without an owner and without a transfer. *)
LEMMA TransferStart ==
  ASSUME TransferConstants, TransferInit PROVE TransferInv
<1>1. /\ time = 0 /\ owner = NoOne /\ transfer = [t \in Transfers |-> NoTransfer] /\ active = 0 /\ seized = {}
  BY Zenon DEF TransferInit
<1>2. /\ NoTransfer \in [status : {"none", "PENDING_ACCEPTANCE", "ACCEPTED", "EXPIRED", "CANCELLED", "REJECTED"},
                         from : Users \cup {NoOne}, to : Users \cup {NoOne}, exp : Nat]
      /\ NoTransfer.status = "none"
  BY Zenon DEF NoTransfer
<1>3. \A t \in Transfers : transfer[t].status = "none"
  BY <1>1, <1>2, Zenon
<1>4. 0 \notin Transfers
  <2>1. Cardinality(Transfers) \in Nat /\ Transfers = 1..Cardinality(Transfers)
    BY FS_CardinalityType, Zenon DEF TransferConstants
  <2> QED BY <2>1
<1>5. OnePendingTransfer
  BY <1>1, <1>3, <1>4, Zenon DEF OnePendingTransfer, Pending
<1>6. \A t \in Transfers : ~Pending(t)
  BY <1>3, Zenon DEF Pending
<1> QED BY <1>1, <1>2, <1>3, <1>5, <1>6, Zenon DEF TransferInv

(* A pending transfer is closed: nothing else changes but the owner, who may. *)
LEMMA CloseKeeps ==
  ASSUME TransferConstants, TransferInv, NEW t \in Transfers, Pending(t),
         NEW s \in {"ACCEPTED", "EXPIRED", "CANCELLED", "REJECTED"}, Close(t, s),
         owner' \in Users \cup {NoOne}
  PROVE  /\ TransferInv' /\ transfer'[t].status = s
         /\ \A x \in Transfers \ {t} : transfer'[x] = transfer[x]
<1> DEFINE TransferType == [status : {"none", "PENDING_ACCEPTANCE", "ACCEPTED", "EXPIRED", "CANCELLED", "REJECTED"},
                            from : Users \cup {NoOne}, to : Users \cup {NoOne}, exp : Nat]
           n == [transfer[t] EXCEPT !.status = s]
<1>1. transfer \in [Transfers -> TransferType] /\ transfer[t] \in TransferType /\ transfer[t].status # "none"
  BY Zenon DEF TransferInv, Pending
<1>2. n \in TransferType /\ n.status = s
  BY <1>1, Zenon
<1>3. transfer' = [transfer EXCEPT ![t] = n] /\ active' = 0 /\ time' = time /\ seized' = seized
  BY <1>1, Zenon DEF Close
<1> HIDE DEF n
<1>4. /\ transfer' \in [Transfers -> TransferType] /\ transfer'[t] = n
      /\ \A x \in Transfers \ {t} : transfer'[x] = transfer[x]
  BY <1>1, <1>2, <1>3, Zenon
<1>5. \A x \in Transfers : x # t => ~Pending(x)
  BY Zenon DEF TransferInv, OnePendingTransfer
<1>6. \A x \in Transfers : ~Pending(x)'
  BY <1>2, <1>4, <1>5, Zenon DEF Pending
<1>7. 0 \notin Transfers
  <2>1. Cardinality(Transfers) \in Nat /\ Transfers = 1..Cardinality(Transfers)
    BY FS_CardinalityType, Zenon DEF TransferConstants
  <2> QED BY <2>1
<1>8. \A x \in Transfers : transfer'[x].status # "none" <=> transfer[x].status # "none"
  BY <1>1, <1>2, <1>4, Zenon
<1>9. \A x \in Transfers : \A y \in 1..x : y \in Transfers
  <2>1. Cardinality(Transfers) \in Nat /\ Transfers = 1..Cardinality(Transfers)
    BY FS_CardinalityType, Zenon DEF TransferConstants
  <2> QED BY <2>1
<1>10. \A x \in Transfers : transfer'[x].status # "none" => \A y \in 1..x : transfer'[y].status # "none"
  BY <1>8, <1>9, Zenon DEF TransferInv
<1>11. OnePendingTransfer'
  BY <1>3, <1>6, <1>7, Zenon DEF OnePendingTransfer
<1> QED BY <1>2, <1>3, <1>4, <1>6, <1>10, <1>11, Zenon DEF TransferInv

(* The next id is one no transfer has had. *)
LEMMA NextId ==
  ASSUME TransferConstants, TransferInv
  PROVE  LET used == {x \in Transfers : transfer[x].status # "none"} IN
         used = 1..Cardinality(used) /\ Cardinality(used) \in Nat
<1> DEFINE used == {x \in Transfers : transfer[x].status # "none"}
           n == Cardinality(Transfers)
<1>1. n \in Nat /\ Transfers = 1..n
  BY FS_CardinalityType, Zenon DEF TransferConstants
<1>2. used \in SUBSET (1..n)
  BY <1>1, Zenon
<1>3. \A x \in used : \A y \in 1..x : y \in Transfers
  BY <1>1
<1>4. \A x \in used : \A y \in 1..x : y \in used
  BY <1>3, Zenon DEF TransferInv
<1> HIDE DEF used, n
<1>5. Cardinality(used) \in 0..n /\ used = 1..Cardinality(used)
  BY <1>1, <1>2, <1>4, Prefix, Zenon
<1>6. Cardinality(used) \in Nat
  BY <1>1, <1>5
<1> QED BY <1>5, <1>6, Zenon DEF used

(* Offering the resource: a new transfer is pending, and one that ran out made room. *)
LEMMA InitiateKeeps ==
  ASSUME TransferConstants, TransferInv, NEW u \in Users, NEW v \in Users, NEW ttl \in Ttls,
         InitiateTransfer(u, v, ttl)
  PROVE  TransferInv' /\ OwnerHandsOn
<1> DEFINE TransferType == [status : {"none", "PENDING_ACCEPTANCE", "ACCEPTED", "EXPIRED", "CANCELLED", "REJECTED"},
                            from : Users \cup {NoOne}, to : Users \cup {NoOne}, exp : Nat]
           used == {x \in Transfers : transfer[x].status # "none"}
           c == Cardinality(used)
           t == c + 1
           blocks == active # 0 /\ Pending(active)
           cleared == IF blocks THEN [transfer EXCEPT ![active].status = "EXPIRED"] ELSE transfer
           new == [status |-> "PENDING_ACCEPTANCE", from |-> u, to |-> v, exp |-> time + ttl]
<1>1. /\ t \in Transfers /\ transfer' = [cleared EXCEPT ![t] = new] /\ active' = t /\ owner' = u
      /\ time' = time /\ seized' = seized
  BY Zenon DEF InitiateTransfer
<1>2. used = 1..c /\ c \in Nat
  BY NextId, Zenon
<1>3. t \notin used /\ \A x \in 1..t : x \in used \/ x = t
  <2> HIDE DEF c, used
  <2> QED BY <1>2
<1>4. transfer[t].status = "none"
  BY <1>1, <1>3, Zenon
<1>5. time + ttl \in Nat
  BY DEF TransferInv, TransferConstants
<1>6. new \in TransferType /\ new.status = "PENDING_ACCEPTANCE" /\ new.from = u
  BY <1>5, Zenon
<1>7. 0 \notin Transfers /\ \A x \in Transfers : \A y \in 1..x : y \in Transfers /\ (y \in 1..x)
  <2>1. Cardinality(Transfers) \in Nat /\ Transfers = 1..Cardinality(Transfers)
    BY FS_CardinalityType, Zenon DEF TransferConstants
  <2> QED BY <2>1
<1>8. transfer \in [Transfers -> TransferType] /\ active \in Transfers \cup {0}
  BY Zenon DEF TransferInv
<1> HIDE DEF c, t, used, new
<1>9. /\ cleared \in [Transfers -> TransferType]
      /\ \A x \in Transfers : \/ cleared[x] = transfer[x] /\ ~Pending(x)
                              \/ Pending(x) /\ cleared[x].status = "EXPIRED"
  <2>0. \A x \in Transfers : Pending(x) <=> active = x
    BY Zenon DEF TransferInv, OnePendingTransfer
  <2>1. CASE blocks
    <3> DEFINE e == [transfer[active] EXCEPT !.status = "EXPIRED"]
    <3>1. active \in Transfers
      BY <1>8, <2>1, Zenon
    <3>2. e \in TransferType /\ e.status = "EXPIRED" /\ cleared = [transfer EXCEPT ![active] = e]
      BY <1>8, <2>1, <3>1, Zenon
    <3> HIDE DEF e, cleared
    <3> QED BY <1>8, <2>0, <3>1, <3>2, Zenon
  <2>2. CASE ~blocks
    BY <1>7, <1>8, <2>0, <2>2, Zenon
  <2> QED BY <2>1, <2>2, Zenon
<1> HIDE DEF cleared, blocks
<1>10. /\ transfer' \in [Transfers -> TransferType] /\ transfer'[t] = new
       /\ \A x \in Transfers \ {t} : transfer'[x] = cleared[x]
  BY <1>1, <1>6, <1>9, Zenon
<1>11. \A x \in Transfers : Pending(x)' <=> x = t
  BY <1>6, <1>9, <1>10 DEF Pending
<1>12. OnePendingTransfer'
  BY <1>1, <1>11, Zenon DEF OnePendingTransfer
<1>13. \A x \in Transfers : transfer'[x].status # "none" <=> (x \in used \/ x = t)
  BY <1>6, <1>9, <1>10, Zenon DEF used, Pending
<1>14. \A x \in Transfers : transfer'[x].status # "none" => \A y \in 1..x : transfer'[y].status # "none"
  <2> SUFFICES ASSUME NEW x \in Transfers, x \in used \/ x = t, NEW y \in 1..x
               PROVE  y \in used \/ y = t
    BY <1>7, <1>13, Zenon
  <2>1. CASE x = t
    BY <1>3, <2>1, Zenon
  <2>2. CASE x \in used
    <3>1. y \in Transfers /\ transfer[y].status # "none"
      BY <1>7, <2>2, Zenon DEF TransferInv, used
    <3> QED BY <3>1, Zenon DEF used
  <2> QED BY <2>1, <2>2, Zenon
<1>15. TransferInv'
  BY <1>1, <1>6, <1>10, <1>11, <1>12, <1>14, Zenon DEF TransferInv
<1>16. OwnerHandsOn
  <2> SUFFICES ASSUME NEW x \in Transfers
               PROVE  /\ transfer[x].status \notin {"none", "PENDING_ACCEPTANCE"}
                           => transfer'[x].status = transfer[x].status
                      /\ ~(Pending(x) /\ transfer'[x].status = "ACCEPTED")
    BY Zenon DEF OwnerHandsOn
  <2>1. CASE x = t
    BY <1>4, <2>1, Zenon DEF Pending
  <2>2. CASE x # t
    BY <1>9, <1>10, <2>2, Zenon DEF Pending
  <2> QED BY <2>1, <2>2, Zenon
<1> QED BY <1>15, <1>16, Zenon

(* Every step of a transfer keeps the invariant, and hands the resource on as OwnerHandsOn says. *)
LEMMA TransferStep ==
  ASSUME TransferConstants, TransferInv, TransferNext PROVE TransferInv' /\ OwnerHandsOn
<1>0. /\ time \in Nat /\ owner \in Users \cup {NoOne}
      /\ \A t \in Transfers : Pending(t) => owner = transfer[t].from \/ t \in seized
      /\ \A t \in Transfers : transfer[t].exp \in Nat
  BY Zenon DEF TransferInv
<1>1. CASE TimePasses
  <2>1. time' \in Nat /\ owner' = owner /\ transfer' = transfer /\ active' = active /\ seized' = seized
    BY <1>0, <1>1 DEF TimePasses
  <2>2. \A t \in Transfers : Pending(t)' <=> Pending(t)
    BY <2>1, Zenon DEF Pending
  <2>3. TransferInv'
    BY <2>1, <2>2, Zenon DEF TransferInv, OnePendingTransfer
  <2> QED BY <2>1, <2>3, Zenon DEF OwnerHandsOn, Pending
<1>2. ASSUME NEW u \in Users, RegisterResourceOwner(u) PROVE TransferInv' /\ OwnerHandsOn
  <2>1. /\ owner' = u /\ transfer' = transfer /\ active' = active /\ time' = time
        /\ seized' = seized \cup {t \in Transfers : Pending(t) /\ owner # u}
    BY <1>2, Zenon DEF RegisterResourceOwner
  <2>2. \A t \in Transfers : Pending(t)' <=> Pending(t)
    BY <2>1, Zenon DEF Pending
  <2>3. seized' \subseteq Transfers
    BY <2>1, Zenon DEF TransferInv
  <2>4. \A t \in Transfers : Pending(t)' => owner' = transfer'[t].from \/ t \in seized'
    BY <1>0, <2>1, <2>2, Zenon
  <2>5. TransferInv'
    BY <2>1, <2>2, <2>3, <2>4, Zenon DEF TransferInv, OnePendingTransfer
  <2> QED BY <2>1, <2>5, Zenon DEF OwnerHandsOn, Pending
<1>3. ASSUME NEW u \in Users, NEW v \in Users, NEW ttl \in Ttls, InitiateTransfer(u, v, ttl)
      PROVE  TransferInv' /\ OwnerHandsOn
  BY <1>3, InitiateKeeps, Zenon
<1>4. ASSUME NEW t \in Transfers, NEW s \in {"ACCEPTED", "EXPIRED", "CANCELLED", "REJECTED"}, Pending(t),
             Close(t, s), owner' \in Users \cup {NoOne},
             s = "ACCEPTED" => owner' = transfer[t].to /\ time <= transfer[t].exp
      PROVE  TransferInv' /\ OwnerHandsOn
  <2>1. /\ TransferInv' /\ transfer'[t].status = s
        /\ \A x \in Transfers \ {t} : transfer'[x] = transfer[x]
    BY <1>4, CloseKeeps, Zenon
  <2>2. ASSUME NEW x \in Transfers
        PROVE  /\ transfer[x].status \notin {"none", "PENDING_ACCEPTANCE"}
                    => transfer'[x].status = transfer[x].status
               /\ Pending(x) /\ transfer'[x].status = "ACCEPTED"
                    => /\ owner' = transfer[x].to
                       /\ time <= transfer[x].exp
                       /\ owner = transfer[x].from \/ x \in seized
    <3>1. CASE x = t
      BY <1>0, <1>4, <2>1, <3>1, Zenon DEF Pending
    <3>2. CASE x # t
      BY <2>1, <3>2, Zenon DEF Pending
    <3> QED BY <3>1, <3>2, Zenon
  <2> QED BY <2>1, <2>2, Zenon DEF OwnerHandsOn
<1>5. ASSUME NEW t \in Transfers, NEW u \in Users, AcceptTransfer(t, u) PROVE TransferInv' /\ OwnerHandsOn
  <2>1. CASE Expired(t)
    <3>1. Pending(t) /\ Close(t, "EXPIRED") /\ owner' = owner
      BY <1>5, <2>1, Zenon DEF AcceptTransfer
    <3>2. owner' \in Users \cup {NoOne}
      BY <1>0, <3>1, Zenon
    <3> QED BY <1>4, <3>1, <3>2, Zenon
  <2>2. CASE ~Expired(t)
    <3>1. Pending(t) /\ Close(t, "ACCEPTED") /\ owner' = u /\ transfer[t].to = u
      BY <1>5, <2>2, Zenon DEF AcceptTransfer
    <3>2. time <= transfer[t].exp
      BY <1>0, <2>2 DEF Expired
    <3>3. owner' \in Users \cup {NoOne} /\ owner' = transfer[t].to
      BY <3>1, Zenon
    <3> QED BY <1>4, <3>1, <3>2, <3>3, Zenon
  <2> QED BY <2>1, <2>2, Zenon
<1>6. ASSUME NEW t \in Transfers, NEW u \in Users, CancelTransfer(t, u) PROVE TransferInv' /\ OwnerHandsOn
  <2>1. Pending(t) /\ Close(t, "CANCELLED") /\ owner' \in Users \cup {NoOne}
    BY <1>0, <1>6, Zenon DEF CancelTransfer
  <2> QED BY <1>4, <2>1, Zenon
<1>7. ASSUME NEW t \in Transfers, NEW u \in Users, RejectTransfer(t, u) PROVE TransferInv' /\ OwnerHandsOn
  <2>1. Pending(t) /\ Close(t, "REJECTED") /\ owner' \in Users \cup {NoOne}
    BY <1>0, <1>7, Zenon DEF RejectTransfer
  <2> QED BY <1>4, <2>1, Zenon
<1>8. ASSUME NEW t \in Transfers, LookUp(t) PROVE TransferInv' /\ OwnerHandsOn
  <2>1. Pending(t) /\ Close(t, "EXPIRED") /\ owner' \in Users \cup {NoOne}
    BY <1>0, <1>8, Zenon DEF LookUp
  <2> QED BY <1>4, <2>1, Zenon
<1> QED BY <1>1, <1>2, <1>3, <1>5, <1>6, <1>7, <1>8, Zenon DEF TransferNext

---------------------------------------------------------------------------
(* Invitations *)

(* No invitation exists at the start. *)
LEMMA InviteStart ==
  ASSUME InviteInit PROVE InviteInv
<1>1. day = 0 /\ invites = <<>>
  BY Zenon DEF InviteInit
<1> QED BY <1>1 DEF InviteInv

(* Every step of an invitation keeps the invariant, and nobody joins late. *)
LEMMA InviteStep ==
  ASSUME InviteConstants, InviteInv, InviteNext PROVE InviteInv' /\ NoLateJoin
<1> DEFINE InviteType == [by : Inviters, email : Emails, at : Nat, exp : Nat,
                          status : {"PENDING", "ACCEPTED", "EXPIRED", "REVOKED"}]
<1>0. /\ day \in Nat /\ invites \in Seq(InviteType) /\ Lifetime \in Nat /\ Len(invites) \in Nat
      /\ \A n \in 1..Len(invites) : invites[n] \in InviteType
      /\ \A n \in 1..Len(invites) : invites[n].status = "EXPIRED" => day > invites[n].exp
  BY LenProperties, ElementOfSeq, Zenon DEF InviteInv, InviteConstants
<1>1. CASE DayPasses
  <2>1. day' = day + 1 /\ invites' = invites
    BY <1>1, Zenon DEF DayPasses
  <2>2. \A n \in 1..Len(invites) : invites[n].exp \in Nat
    BY <1>0, Zenon
  <2>3. \A n \in 1..Len(invites) : day > invites[n].exp => day' > invites[n].exp
    BY <1>0, <2>1, <2>2
  <2>4. day' \in Nat
    BY <1>0, <2>1
  <2>5. InviteInv'
    BY <1>0, <2>1, <2>3, <2>4, Zenon DEF InviteInv
  <2> QED BY <2>1, <2>5, Zenon DEF NoLateJoin
<1>2. ASSUME NEW i \in Inviters, NEW e \in Emails, NEW role \in Roles, CreateInvitation(i, e, role)
      PROVE  InviteInv' /\ NoLateJoin
  <2> DEFINE x == day + Lifetime
             new == [by |-> i, email |-> e, status |-> "PENDING", at |-> day, exp |-> x]
  <2>1. invites' = Append(invites, new) /\ day' = day
    BY <1>2, Zenon DEF CreateInvitation
  <2>2. x \in Nat
    BY <1>0
  <2> HIDE DEF x
  <2>3. new \in InviteType /\ new.status = "PENDING"
    BY <1>0, <2>2, Zenon
  <2> HIDE DEF new, InviteType
  <2>4. /\ invites' \in Seq(InviteType) /\ Len(invites') = Len(invites) + 1 /\ invites'[Len(invites) + 1] = new
        /\ \A n \in 1..Len(invites) : invites'[n] = invites[n]
    BY <1>0, <2>1, <2>3, AppendProperties
  <2>5. \A n \in 1..Len(invites') : n \in 1..Len(invites) \/ n = Len(invites) + 1
    BY <1>0, <2>4
  <2>6. \A n \in 1..Len(invites') : invites'[n].status = "EXPIRED" => day' > invites'[n].exp
    BY <1>0, <2>1, <2>3, <2>4, <2>5, Zenon
  <2>7. InviteInv'
    BY <1>0, <2>1, <2>4, <2>6, Zenon DEF InviteInv, InviteType
  <2> QED BY <2>4, <2>7, Zenon DEF NoLateJoin
<1>3. ASSUME NEW n \in 1..Len(invites), NEW s \in {"ACCEPTED", "EXPIRED", "REVOKED"},
             invites' = [invites EXCEPT ![n].status = s], day' = day,
             s = "EXPIRED" => day > invites[n].exp,
             s = "EXPIRED" => invites[n].status \notin {"REVOKED", "ACCEPTED"},
             s = "ACCEPTED" => invites[n].status \notin {"REVOKED", "ACCEPTED"} /\ day <= invites[n].exp
      PROVE  InviteInv' /\ NoLateJoin
  <2> DEFINE new == [invites[n] EXCEPT !.status = s]
  <2>1. new \in InviteType /\ new.status = s /\ new.exp = invites[n].exp
    BY <1>0, Zenon
  <2>2. invites' = [invites EXCEPT ![n] = new]
    BY <1>3, Zenon
  <2>3. invites[n].exp \in Nat /\ invites[n].status \in {"PENDING", "ACCEPTED", "EXPIRED", "REVOKED"}
    BY <1>0, Zenon
  <2> HIDE DEF new, InviteType
  <2>4. /\ invites' \in Seq(InviteType) /\ Len(invites') = Len(invites) /\ invites'[n] = new
        /\ \A m \in 1..Len(invites) : m # n => invites'[m] = invites[m]
    BY <1>0, <2>1, <2>2, ExceptSeq
  <2>5. \A m \in 1..Len(invites') : invites'[m].status = "EXPIRED" => day' > invites'[m].exp
    BY <1>0, <1>3, <2>1, <2>4, Zenon
  <2>6. InviteInv'
    BY <1>0, <1>3, <2>4, <2>5, Zenon DEF InviteInv, InviteType
  <2>7. s = "ACCEPTED" => invites[n].status = "PENDING"
    <3>1. ~(day > invites[n].exp /\ day <= invites[n].exp)
      BY <1>0, <2>3
    <3> QED BY <1>0, <1>3, <2>3, <3>1, Zenon
  <2>8. NoLateJoin
    <3> SUFFICES ASSUME NEW m \in 1..Len(invites)
                 PROVE  /\ invites'[m].status = "ACCEPTED" /\ invites[m].status # "ACCEPTED"
                             => invites[m].status = "PENDING" /\ day <= invites[m].exp
                        /\ invites[m].status \in {"EXPIRED", "REVOKED"}
                             => invites'[m].status \in {invites[m].status, "REVOKED"}
      BY Zenon DEF NoLateJoin
    <3>1. CASE m = n
      BY <1>3, <2>1, <2>4, <2>7, <3>1, Zenon
    <3>2. CASE m # n
      BY <2>4, <3>2, Zenon
    <3> QED BY <3>1, <3>2, Zenon
  <2> QED BY <2>6, <2>8, Zenon
<1>4. ASSUME NEW n \in 1..Len(invites), AcceptInvitation(n) PROVE InviteInv' /\ NoLateJoin
  <2>0. invites[n].exp \in Nat
    BY <1>0, Zenon
  <2>1. CASE day > invites[n].exp
    <3>1. /\ invites' = [invites EXCEPT ![n].status = "EXPIRED"] /\ day' = day
          /\ invites[n].status \notin {"REVOKED", "ACCEPTED"}
      BY <1>4, <2>1, Zenon DEF AcceptInvitation
    <3> QED BY <1>3, <2>1, <3>1, Zenon
  <2>2. CASE ~(day > invites[n].exp)
    <3>1. /\ invites' = [invites EXCEPT ![n].status = "ACCEPTED"] /\ day' = day
          /\ invites[n].status \notin {"REVOKED", "ACCEPTED"}
      BY <1>4, <2>2, Zenon DEF AcceptInvitation
    <3>2. day <= invites[n].exp
      BY <1>0, <2>0, <2>2
    <3> QED BY <1>3, <3>1, <3>2, Zenon
  <2> QED BY <2>1, <2>2, Zenon
<1>5. ASSUME NEW n \in 1..Len(invites), NEW i \in Inviters, RevokeInvitation(n, i)
      PROVE  InviteInv' /\ NoLateJoin
  BY <1>3, <1>5, Zenon DEF RevokeInvitation
<1> QED BY <1>1, <1>2, <1>4, <1>5, Zenon DEF InviteNext
---------------------------------------------------------------------------
(* The queue of offline operations *)

(* The browser's queue starts empty. *)
LEMMA OfflineStart ==
  ASSUME Init PROVE OfflineInv
<1>1. Gone \in OpType /\ Gone.status = "none"
  BY Zenon DEF Gone, OpType, Statuses
<1>2. /\ IdleTab \in [pc : {"idle", "fetch", "execute", "executed", "lost"}, op : Ops \cup {"none"},
                   attached : BOOLEAN, held : OpType]
      /\ IdleTab.pc = "idle"
  BY <1>1, Zenon DEF IdleTab
<1>3. /\ storage = [o \in Ops |-> Gone] /\ map = [t \in Tabs |-> storage] /\ tabRun = [t \in Tabs |-> IdleTab]
      /\ entity = [version |-> 1, status |-> "PENDING"]
  BY Zenon DEF Init
<1>4. \A o \in Ops : storage[o].status = "none" /\ \A t \in Tabs : map[t][o].status = "none"
  BY <1>1, <1>3, Zenon
<1> QED BY <1>1, <1>2, <1>3, <1>4, Zenon DEF OfflineInv

(* A tab writes a Map of which what is completed was carried out or discarded. *)
LEMMA PersistKeeps ==
  ASSUME OfflineInv, NEW t \in Tabs, NEW ops \in [Ops -> OpType], NEW freed,
         map' = [map EXCEPT ![t] = ops], Persist(t, ops, freed), entity' = entity,
         \A o \in Ops : ops[o].status \in {"COMMITTED", "DISCARDED"} => o \in released \cup freed,
         tabRun' \in [Tabs -> [pc : {"idle", "fetch", "execute", "executed", "lost"}, op : Ops \cup {"none"},
                            attached : BOOLEAN, held : OpType]],
         \A u \in Tabs : /\ tabRun'[u].pc # "idle" => tabRun'[u].op \in Ops
                         /\ tabRun'[u].pc = "executed" => tabRun'[u].op \in released
  PROVE  OfflineInv'
<1>1. storage' = ops /\ released \subseteq released' /\ freed \subseteq released'
  BY Zenon DEF Persist
<1>2. /\ map' \in [Tabs -> [Ops -> OpType]] /\ map'[t] = ops
      /\ \A u \in Tabs \ {t} : map'[u] = map[u]
  BY Zenon DEF OfflineInv
<1>3. \A o \in Ops : /\ storage'[o].status \in {"COMMITTED", "DISCARDED"} => o \in released'
                     /\ \A u \in Tabs : map'[u][o].status \in {"COMMITTED", "DISCARDED"} => o \in released'
  BY <1>1, <1>2, Zenon DEF OfflineInv
<1> QED BY <1>1, <1>2, <1>3, Zenon DEF OfflineInv

(* What a load finds completed storage has completed. *)
LEMMA LoadedType ==
  ASSUME OfflineInv
  PROVE  /\ Loaded \in [Ops -> OpType]
         /\ \A o \in Ops : /\ Loaded[o].status \in {"COMMITTED", "DISCARDED"} => o \in released
                           /\ (Loaded[o].status = "none" <=> storage[o].status = "none")
<1>0. Loaded = [o \in Ops |-> IF storage[o].status = "IN_FLIGHT" THEN [storage[o] EXCEPT !.status = "QUEUED"]
                              ELSE storage[o]]
  BY Zenon DEF Loaded
<1> SUFFICES ASSUME NEW o \in Ops
             PROVE  /\ Loaded[o] \in OpType
                    /\ Loaded[o].status \in {"COMMITTED", "DISCARDED"} => o \in released
                    /\ (Loaded[o].status = "none" <=> storage[o].status = "none")
  BY <1>0, Zenon
<1>1. storage[o] \in OpType
  BY Zenon DEF OfflineInv
<1>2. CASE storage[o].status = "IN_FLIGHT"
  <2> DEFINE n == [storage[o] EXCEPT !.status = "QUEUED"]
  <2>1. Loaded[o] = n
    BY <1>0, <1>2, Zenon
  <2>2. n \in OpType /\ n.status = "QUEUED"
    BY <1>1, Zenon DEF OpType, Statuses
  <2> HIDE DEF n
  <2> QED BY <1>2, <2>1, <2>2, Zenon
<1>3. CASE storage[o].status # "IN_FLIGHT"
  BY <1>0, <1>1, <1>3, Zenon DEF OfflineInv
<1> QED BY <1>2, <1>3, Zenon

(* What the map of a tab becomes when a run leaves its operation in a status. *)
LEMMA LeaveKeeps ==
  ASSUME OfflineInv, NEW t \in Tabs, NEW s \in Statuses \ {"DISCARDED", "none"}, Leave(t, s),
         tabRun[t].pc # "idle", s = "COMMITTED" => tabRun[t].op \in released, entity' = entity
  PROVE  OfflineInv' /\ (\A o \in Ops : map[t][o].status # "none" => storage'[o].status # "none")
<1> DEFINE o == tabRun[t].op
           n == [tabRun[t].held EXCEPT !.status = s]
           ops == IF tabRun[t].attached THEN [map[t] EXCEPT ![o] = n] ELSE map[t]
           TabType == [pc : {"idle", "fetch", "execute", "executed", "lost"}, op : Ops \cup {"none"},
                       attached : BOOLEAN, held : OpType]
<1>1. /\ map' = [map EXCEPT ![t] = ops] /\ Persist(t, ops, {}) /\ tabRun' = [tabRun EXCEPT ![t] = IdleTab]
      /\ storage' = ops
  BY Zenon DEF Leave, Persist
<1>2. /\ o \in Ops /\ tabRun[t] \in TabType /\ tabRun \in [Tabs -> TabType] /\ map[t] \in [Ops -> OpType]
  BY Zenon DEF OfflineInv
<1>3. n \in OpType /\ n.status = s
  BY <1>2, Zenon DEF OpType
<1> HIDE DEF n
<1>4. /\ ops \in [Ops -> OpType]
      /\ \A p \in Ops : ops[p] = map[t][p] \/ (p = o /\ ops[p] = n)
  <2>1. CASE tabRun[t].attached
    BY <1>2, <1>3, <2>1, Zenon
  <2>2. CASE ~tabRun[t].attached
    BY <1>2, <2>2, Zenon
  <2> QED BY <2>1, <2>2, Zenon
<1> HIDE DEF ops
<1>5. \A p \in Ops : ops[p].status \in {"COMMITTED", "DISCARDED"} => p \in released \cup {}
  BY <1>3, <1>4, Zenon DEF OfflineInv
<1>6. /\ IdleTab \in TabType /\ IdleTab.pc = "idle"
  BY Zenon DEF IdleTab, Gone, OpType, Statuses
<1>7. /\ tabRun' \in [Tabs -> TabType] /\ tabRun'[t] = IdleTab /\ \A u \in Tabs \ {t} : tabRun'[u] = tabRun[u]
  BY <1>1, <1>2, <1>6, Zenon
<1>8. \A u \in Tabs : /\ tabRun'[u].pc # "idle" => tabRun'[u].op \in Ops
                      /\ tabRun'[u].pc = "executed" => tabRun'[u].op \in released
  BY <1>6, <1>7, Zenon DEF OfflineInv
<1>9. OfflineInv'
  BY <1>1, <1>4, <1>5, <1>7, <1>8, PersistKeeps, Zenon
<1>10. \A p \in Ops : map[t][p].status # "none" => storage'[p].status # "none"
  BY <1>1, <1>3, <1>4, Zenon
<1> QED BY <1>9, <1>10, Zenon

(* What Persist overwrites unheard of counts as released. *)
LEMMA PersistReleases ==
  ASSUME NEW t \in Tabs, NEW ops, NEW freed, Persist(t, ops, freed),
         \A o \in Ops : map[t][o].status # "none" /\ ops[o].status = "none" => o \in released
  PROVE  NotDropped
<1> SUFFICES ASSUME NEW o \in Ops, storage[o].status # "none", storage'[o].status = "none"
             PROVE  o \in released'
  BY Zenon DEF NotDropped
<1>1. ops[o].status = "none"
  BY Zenon DEF Persist
<1>2. CASE map[t][o].status = "none"
  BY <1>1, <1>2, Zenon DEF Persist
<1>3. CASE map[t][o].status # "none"
  BY <1>1, <1>3, Zenon DEF Persist
<1> QED BY <1>2, <1>3, Zenon

(* Only the run of one tab changes, or the entity, or what was released. *)
LEMMA OtherKeeps ==
  ASSUME OfflineInv, storage' = storage, map' = map, released \subseteq released',
         entity' \in [version : Nat, status : {"PENDING", "PAID"}],
         tabRun' \in [Tabs -> [pc : {"idle", "fetch", "execute", "executed", "lost"}, op : Ops \cup {"none"},
                            attached : BOOLEAN, held : OpType]],
         \A u \in Tabs : /\ tabRun'[u].pc # "idle" => tabRun'[u].op \in Ops
                         /\ tabRun'[u].pc = "executed" => tabRun'[u].op \in released'
  PROVE  OfflineInv' /\ NotDropped
BY Zenon DEF OfflineInv, NotDropped

(* A tab that writes its Map, runs going on as they were. *)
LEMMA WriteKeeps ==
  ASSUME OfflineInv, NEW t \in Tabs, NEW ops \in [Ops -> OpType], NEW freed, map' = [map EXCEPT ![t] = ops],
         Persist(t, ops, freed), entity' = entity, tabRun' = tabRun,
         \A o \in Ops : ops[o].status \in {"COMMITTED", "DISCARDED"} => o \in released \cup freed,
         \A o \in Ops : map[t][o].status # "none" /\ ops[o].status = "none" => o \in released
  PROVE  OfflineInv' /\ NotDropped
<1>0. /\ tabRun' \in [Tabs -> [pc : {"idle", "fetch", "execute", "executed", "lost"}, op : Ops \cup {"none"},
                            attached : BOOLEAN, held : OpType]]
      /\ \A u \in Tabs : /\ tabRun'[u].pc # "idle" => tabRun'[u].op \in Ops
                         /\ tabRun'[u].pc = "executed" => tabRun'[u].op \in released
  BY Zenon DEF OfflineInv
<1>1. OfflineInv'
  BY <1>0, PersistKeeps, Zenon
<1>2. NotDropped
  BY PersistReleases, Zenon
<1> QED BY <1>1, <1>2, Zenon

(* Every step of a tab or of the backend keeps the invariant of the browser's queue, and drops nothing. *)
LEMMA OfflineStep ==
  ASSUME OfflineInv, Next PROVE OfflineInv' /\ NotDropped
<1> DEFINE TabType == [pc : {"idle", "fetch", "execute", "executed", "lost"}, op : Ops \cup {"none"},
                       attached : BOOLEAN, held : OpType]
<1>0. /\ tabRun \in [Tabs -> TabType] /\ map \in [Tabs -> [Ops -> OpType]] /\ storage \in [Ops -> OpType]
      /\ \A u \in Tabs : /\ tabRun[u].pc # "idle" => tabRun[u].op \in Ops
                         /\ tabRun[u].pc = "executed" => tabRun[u].op \in released
  BY Zenon DEF OfflineInv
<1>00. entity \in [version : Nat, status : {"PENDING", "PAID"}] /\ entity.version \in Nat /\ entity.status \in {"PENDING", "PAID"}
  BY Zenon DEF OfflineInv
<1>000. Loaded \in [Ops -> OpType] /\ \A o \in Ops :
           /\ Loaded[o].status \in {"COMMITTED", "DISCARDED"} => o \in released
           /\ (Loaded[o].status = "none" <=> storage[o].status = "none")
  BY LoadedType, Zenon
<1>1. ASSUME NEW t \in Tabs, RemoteSync(t) PROVE OfflineInv' /\ NotDropped
  <2>1. /\ storage' = storage /\ map' = [map EXCEPT ![t] = Loaded] /\ released' = released
        /\ tabRun' = [tabRun EXCEPT ![t].attached = FALSE] /\ entity' = entity
    BY <1>1, Zenon DEF RemoteSync
  <2>2. /\ map' \in [Tabs -> [Ops -> OpType]] /\ map'[t] = Loaded
        /\ \A u \in Tabs \ {t} : map'[u] = map[u]
    BY <1>0, <1>000, <2>1, Zenon
  <2> DEFINE n == [tabRun[t] EXCEPT !.attached = FALSE]
  <2>3. n \in TabType /\ n.pc = tabRun[t].pc /\ n.op = tabRun[t].op /\ tabRun' = [tabRun EXCEPT ![t] = n]
    BY <1>0, <2>1, Zenon
  <2> HIDE DEF n
  <2>4. tabRun' \in [Tabs -> TabType] /\ tabRun'[t] = n /\ \A u \in Tabs \ {t} : tabRun'[u] = tabRun[u]
    BY <1>0, <2>3, Zenon
  <2>5. \A u \in Tabs : /\ tabRun'[u].pc # "idle" => tabRun'[u].op \in Ops
                        /\ tabRun'[u].pc = "executed" => tabRun'[u].op \in released
    BY <1>0, <2>3, <2>4, Zenon
  <2>6. \A o \in Ops : \A u \in Tabs : map'[u][o].status \in {"COMMITTED", "DISCARDED"} => o \in released
    BY <1>000, <2>2, Zenon DEF OfflineInv
  <2>7. OfflineInv'
    BY <2>1, <2>2, <2>4, <2>5, <2>6 DEF OfflineInv
  <2> QED BY <2>1, <2>7, Zenon DEF NotDropped
<1>2. ASSUME NEW t \in Tabs, Refresh(t) PROVE OfflineInv' /\ NotDropped
  <2>1. /\ storage' = Loaded /\ map' = [map EXCEPT ![t] = Loaded] /\ released' = released
        /\ tabRun' = [tabRun EXCEPT ![t] = IdleTab] /\ entity' = entity
    BY <1>2, Zenon DEF Refresh
  <2>2. /\ map' \in [Tabs -> [Ops -> OpType]] /\ map'[t] = Loaded
        /\ \A u \in Tabs \ {t} : map'[u] = map[u]
    BY <1>0, <1>000, <2>1, Zenon
  <2>3. IdleTab \in TabType /\ IdleTab.pc = "idle"
    BY Zenon DEF IdleTab, Gone, OpType, Statuses
  <2>4. tabRun' \in [Tabs -> TabType] /\ tabRun'[t] = IdleTab /\ \A u \in Tabs \ {t} : tabRun'[u] = tabRun[u]
    BY <1>0, <2>1, <2>3, Zenon
  <2>5. \A u \in Tabs : /\ tabRun'[u].pc # "idle" => tabRun'[u].op \in Ops
                        /\ tabRun'[u].pc = "executed" => tabRun'[u].op \in released
    BY <1>0, <2>3, <2>4, Zenon
  <2>6. \A o \in Ops : \A u \in Tabs : map'[u][o].status \in {"COMMITTED", "DISCARDED"} => o \in released
    BY <1>000, <2>2, Zenon DEF OfflineInv
  <2>7. OfflineInv'
    BY <1>000, <2>1, <2>2, <2>4, <2>5, <2>6, Zenon DEF OfflineInv
  <2> QED BY <1>000, <2>1, <2>7, Zenon DEF NotDropped
<1>3. ASSUME NEW t \in Tabs, CurrentState(t) PROVE OfflineInv' /\ NotDropped
  <2>0. tabRun[t].pc = "fetch" /\ entity' = entity
    BY <1>3, Zenon DEF CurrentState
  <2>1. CASE Leave(t, "CONFLICT")
    <3>1. /\ OfflineInv' /\ \A o \in Ops : map[t][o].status # "none" => storage'[o].status # "none"
      BY <2>0, <2>1, LeaveKeeps, Zenon DEF Statuses
    <3>2. NotDropped
      <4>1. PICK ops : Persist(t, ops, {}) /\ storage' = ops
        BY <2>1, Zenon DEF Leave, Persist
      <4> QED BY <3>1, <4>1, PersistReleases, Zenon
    <3> QED BY <3>1, <3>2, Zenon
  <2>2. CASE tabRun' = [tabRun EXCEPT ![t].pc = "execute"] /\ storage' = storage /\ map' = map /\ released' = released
    <3> DEFINE n == [tabRun[t] EXCEPT !.pc = "execute"]
    <3>1. n \in TabType /\ n.pc = "execute" /\ n.op = tabRun[t].op /\ tabRun' = [tabRun EXCEPT ![t] = n]
      BY <1>0, <2>2, Zenon
    <3> HIDE DEF n
    <3>2. tabRun' \in [Tabs -> TabType] /\ tabRun'[t] = n /\ \A u \in Tabs \ {t} : tabRun'[u] = tabRun[u]
      BY <1>0, <3>1, Zenon
    <3>3. \A u \in Tabs : /\ tabRun'[u].pc # "idle" => tabRun'[u].op \in Ops
                          /\ tabRun'[u].pc = "executed" => tabRun'[u].op \in released'
      BY <1>0, <2>0, <2>2, <3>1, <3>2, Zenon
    <3>4. released \subseteq released' /\ entity' \in [version : Nat, status : {"PENDING", "PAID"}]
      BY <1>00, <2>0, <2>2, Zenon
    <3> QED BY <2>2, <3>2, <3>3, <3>4, OtherKeeps, Zenon
  <2> QED BY <1>3, <2>1, <2>2, Zenon DEF CurrentState
<1>4. ASSUME NEW o \in Ops, Apply(o)
      PROVE  /\ storage' = storage /\ map' = map /\ released' = released \cup {o}
             /\ entity' \in [version : Nat, status : {"PENDING", "PAID"}]
  <2> DEFINE v == entity.version + 1
  <2>1. entity' = [entity EXCEPT !.version = v]
    BY <1>4, Zenon DEF Apply
  <2>2. v \in Nat
    BY <1>00
  <2> HIDE DEF v
  <2> QED BY <1>4, <1>00, <2>1, <2>2, Zenon DEF Apply
<1>5. ASSUME NEW t \in Tabs, Execute(t) PROVE OfflineInv' /\ NotDropped
  <2>0. tabRun[t].pc = "execute" /\ Apply(tabRun[t].op) /\ tabRun[t].op \in Ops
    BY <1>0, <1>5, Zenon DEF Execute
  <2>1. /\ storage' = storage /\ map' = map /\ released' = released \cup {tabRun[t].op}
        /\ entity' \in [version : Nat, status : {"PENDING", "PAID"}]
    BY <1>4, <2>0, Zenon
  <2>2. ASSUME NEW pc \in {"executed", "lost"}, tabRun' = [tabRun EXCEPT ![t].pc = pc] PROVE OfflineInv' /\ NotDropped
    <3> DEFINE n == [tabRun[t] EXCEPT !.pc = pc]
    <3>1. n \in TabType /\ n.pc = pc /\ n.op = tabRun[t].op /\ tabRun' = [tabRun EXCEPT ![t] = n]
      BY <1>0, <2>2, Zenon
    <3> HIDE DEF n
    <3>2. tabRun' \in [Tabs -> TabType] /\ tabRun'[t] = n /\ \A u \in Tabs \ {t} : tabRun'[u] = tabRun[u]
      BY <1>0, <3>1, Zenon
    <3>3. \A u \in Tabs : /\ tabRun'[u].pc # "idle" => tabRun'[u].op \in Ops
                          /\ tabRun'[u].pc = "executed" => tabRun'[u].op \in released'
      BY <1>0, <2>0, <2>1, <3>1, <3>2, Zenon
    <3> QED BY <2>1, <3>2, <3>3, OtherKeeps, Zenon
  <2> QED BY <1>5, <2>2, Zenon DEF Execute
<1>6. ASSUME NEW o \in Ops, ArriveLate(o) PROVE OfflineInv' /\ NotDropped
  <2>1. /\ storage' = storage /\ map' = map /\ released' = released \cup {o}
        /\ entity' \in [version : Nat, status : {"PENDING", "PAID"}] /\ tabRun' = tabRun
    BY <1>4, <1>6, Zenon DEF ArriveLate
  <2>2. \A u \in Tabs : /\ tabRun'[u].pc # "idle" => tabRun'[u].op \in Ops
                        /\ tabRun'[u].pc = "executed" => tabRun'[u].op \in released'
    BY <1>0, <2>1, Zenon
  <2>3. tabRun' \in [Tabs -> TabType] /\ released \subseteq released'
    BY <1>0, <2>1, Zenon
  <2> QED BY <2>1, <2>2, <2>3, OtherKeeps, Zenon
<1>7. ASSUME NEW t \in Tabs, Commit(t) \/ Caught(t) PROVE OfflineInv' /\ NotDropped
  <2>1. PICK s \in {"COMMITTED", "FAILED", "QUEUED"} :
          Leave(t, s) /\ (s = "COMMITTED" => tabRun[t].pc = "executed")
    BY <1>7, Zenon DEF Commit, Caught
  <2>2. tabRun[t].pc # "idle" /\ entity' = entity
    BY <1>7, Zenon DEF Commit, Caught
  <2>3. s = "COMMITTED" => tabRun[t].op \in released
    BY <1>0, <2>1, Zenon
  <2>4. s \in Statuses \ {"DISCARDED", "none"}
    BY Zenon DEF Statuses
  <2>5. /\ OfflineInv' /\ \A o \in Ops : map[t][o].status # "none" => storage'[o].status # "none"
    BY <2>1, <2>2, <2>3, <2>4, LeaveKeeps, Zenon
  <2>6. PICK ops : Persist(t, ops, {}) /\ storage' = ops
    BY <2>1, Zenon DEF Leave, Persist
  <2> QED BY <2>5, <2>6, PersistReleases, Zenon
<1>8. ASSUME NEW t \in Tabs, ClearCompleted(t) PROVE OfflineInv' /\ NotDropped
  <2> DEFINE ops == [o \in Ops |-> IF o \in Completed(t) THEN Gone ELSE map[t][o]]
  <2>1. map' = [map EXCEPT ![t] = ops] /\ Persist(t, ops, {}) /\ entity' = entity /\ tabRun' = tabRun
    BY <1>8, Zenon DEF ClearCompleted
  <2>2. Gone \in OpType /\ Gone.status = "none"
    BY Zenon DEF Gone, OpType, Statuses
  <2>3. \A o \in Completed(t) : o \in released
    BY Zenon DEF Completed, OfflineInv
  <2>4. ops \in [Ops -> OpType]
    BY <1>0, <2>2, Zenon
  <2>5. \A o \in Ops : (o \in Completed(t) /\ ops[o] = Gone) \/ (o \notin Completed(t) /\ ops[o] = map[t][o])
    BY Zenon
  <2> HIDE DEF ops
  <2>6. \A o \in Ops : ops[o].status \in {"COMMITTED", "DISCARDED"} => o \in released \cup {}
    BY <2>2, <2>5, Zenon DEF OfflineInv
  <2>7. \A o \in Ops : map[t][o].status # "none" /\ ops[o].status = "none" => o \in released
    BY <2>3, <2>5, Zenon
  <2> QED BY WriteKeeps, <2>1, <2>4, <2>6, <2>7, Zenon
<1>9. ASSUME NEW t \in Tabs, NEW o \in Ops, Enqueue(t, o) PROVE OfflineInv' /\ NotDropped
  <2> DEFINE n == [status |-> "QUEUED", attempts |-> 0, version |-> entity.version, base |-> entity.status]
             ops == [map[t] EXCEPT ![o] = n]
  <2>1. map' = [map EXCEPT ![t] = ops] /\ Persist(t, ops, {}) /\ entity' = entity /\ tabRun' = tabRun
    BY <1>9, Zenon DEF Enqueue
  <2>2. n \in OpType /\ n.status = "QUEUED"
    BY <1>00, Zenon DEF OpType, Statuses
  <2> HIDE DEF n
  <2>3. ops \in [Ops -> OpType] /\ ops[o] = n /\ \A p \in Ops \ {o} : ops[p] = map[t][p]
    BY <1>0, <2>2, Zenon
  <2> HIDE DEF ops
  <2>4. \A p \in Ops : ops[p].status \in {"COMMITTED", "DISCARDED"} => p \in released \cup {}
    BY <2>2, <2>3, Zenon DEF OfflineInv
  <2>5. \A p \in Ops : map[t][p].status # "none" /\ ops[p].status = "none" => p \in released
    BY <2>2, <2>3, Zenon
  <2>6. ops \in [Ops -> OpType]
    BY <2>3, Zenon
  <2>7. OfflineInv
    OBVIOUS
  <2> QED BY WriteKeeps, <2>1, <2>4, <2>5, <2>6, <2>7, ZenonT(30)
<1>10. ASSUME NEW t \in Tabs, NEW o \in Ops, ProcessOperation(t, o) PROVE OfflineInv' /\ NotDropped
  <2> DEFINE k == map[t][o].attempts + 1
             n == [map[t][o] EXCEPT !.status = "IN_FLIGHT", !.attempts = k]
             ops == [map[t] EXCEPT ![o] = n]
             r == [pc |-> "fetch", op |-> o, attached |-> TRUE, held |-> n]
  <2>1. /\ map' = [map EXCEPT ![t] = ops] /\ Persist(t, ops, {}) /\ entity' = entity
        /\ tabRun' = [tabRun EXCEPT ![t] = r]
    BY <1>10, Zenon DEF ProcessOperation
  <2>2. map[t][o] \in OpType
    BY <1>0, Zenon
  <2>3. map[t][o].attempts \in Nat
    BY <2>2, Zenon DEF OpType
  <2>4. k \in Nat
    BY <2>3
  <2> HIDE DEF k
  <2>5. n \in OpType /\ n.status = "IN_FLIGHT"
    BY <2>2, <2>4, Zenon DEF OpType, Statuses
  <2> HIDE DEF n
  <2>6. ops \in [Ops -> OpType] /\ ops[o] = n /\ \A p \in Ops \ {o} : ops[p] = map[t][p]
    BY <1>0, <2>5, Zenon
  <2>7. r \in TabType /\ r.pc = "fetch" /\ r.op = o
    BY <2>5, Zenon
  <2> HIDE DEF ops, r
  <2>8. tabRun' \in [Tabs -> TabType] /\ tabRun'[t] = r /\ \A u \in Tabs \ {t} : tabRun'[u] = tabRun[u]
    BY <1>0, <2>1, <2>7, Zenon
  <2>9. \A u \in Tabs : /\ tabRun'[u].pc # "idle" => tabRun'[u].op \in Ops
                        /\ tabRun'[u].pc = "executed" => tabRun'[u].op \in released
    BY <1>0, <2>7, <2>8, Zenon
  <2>10. \A p \in Ops : ops[p].status \in {"COMMITTED", "DISCARDED"} => p \in released \cup {}
    BY <2>5, <2>6, Zenon DEF OfflineInv
  <2>11. \A p \in Ops : map[t][p].status # "none" /\ ops[p].status = "none" => p \in released
    BY <2>5, <2>6, Zenon
  <2>12. OfflineInv'
    BY <2>1, <2>6, <2>8, <2>9, <2>10, PersistKeeps, Zenon
  <2> QED BY <2>1, <2>11, <2>12, PersistReleases, Zenon
<1>11. ASSUME NEW t \in Tabs, NEW o \in Ops, NEW a \in {"DISCARD", "RETRY_WITH_LATEST", "FORCE_APPLY"},
              ResolveConflict(t, o, a)
       PROVE  OfflineInv' /\ NotDropped
  <2> DEFINE n == Resolved(map[t][o], a)
             ops == [map[t] EXCEPT ![o] = n]
             freed == {p \in {o} : a = "DISCARD"}
  <2>1. map' = [map EXCEPT ![t] = ops] /\ Persist(t, ops, freed) /\ entity' = entity /\ tabRun' = tabRun
    BY <1>11, Zenon DEF ResolveConflict
  <2>2. map[t][o] \in OpType
    BY <1>0, Zenon
  <2>3. n \in OpType /\ n.status \in {"QUEUED", "DISCARDED"} /\ (n.status = "DISCARDED" => a = "DISCARD")
    <3>1. CASE a = "DISCARD"
      <4>1. n = [map[t][o] EXCEPT !.status = "DISCARDED"]
        BY <3>1, Zenon DEF Resolved
      <4> QED BY <2>2, <3>1, <4>1, Zenon DEF OpType, Statuses
    <3>2. CASE a = "RETRY_WITH_LATEST"
      <4>1. n = [map[t][o] EXCEPT !.status = "QUEUED", !.version = entity.version, !.base = entity.status]
        BY <3>2, Zenon DEF Resolved
      <4> QED BY <1>00, <2>2, <4>1, Zenon DEF OpType, Statuses
    <3>3. CASE a = "FORCE_APPLY"
      <4>1. n = [map[t][o] EXCEPT !.status = "QUEUED", !.version = entity.version]
        BY <3>3, Zenon DEF Resolved
      <4> QED BY <1>00, <2>2, <4>1, Zenon DEF OpType, Statuses
    <3> QED BY <3>1, <3>2, <3>3, Zenon
  <2> HIDE DEF n
  <2>4. ops \in [Ops -> OpType] /\ ops[o] = n /\ \A p \in Ops \ {o} : ops[p] = map[t][p]
    BY <1>0, <2>3, Zenon
  <2>5. a = "DISCARD" => o \in freed
    BY Zenon
  <2> HIDE DEF ops, freed
  <2>6. \A p \in Ops : ops[p].status \in {"COMMITTED", "DISCARDED"} => p \in released \cup freed
    BY <2>3, <2>4, <2>5, Zenon DEF OfflineInv
  <2>7. \A p \in Ops : map[t][p].status # "none" /\ ops[p].status = "none" => p \in released
    BY <2>3, <2>4, Zenon
  <2>8. ops \in [Ops -> OpType]
    BY <2>4, Zenon
  <2> QED BY WriteKeeps, <2>1, <2>6, <2>7, <2>8, Zenon
<1>12. ASSUME Settle PROVE OfflineInv' /\ NotDropped
  <2> DEFINE v == entity.version + 1
  <2>1. /\ storage' = storage /\ map' = map /\ released' = released /\ tabRun' = tabRun
        /\ entity' = [version |-> v, status |-> "PAID"]
    BY <1>12, Zenon DEF Settle
  <2>2. v \in Nat
    BY <1>00
  <2> HIDE DEF v
  <2>3. entity' \in [version : Nat, status : {"PENDING", "PAID"}] /\ released \subseteq released'
    BY <2>1, <2>2, Zenon
  <2> QED BY <1>0, <2>1, <2>3, OtherKeeps, Zenon
<1> QED BY <1>1, <1>2, <1>3, <1>5, <1>6, <1>7, <1>8, <1>9, <1>10, <1>11, <1>12, Zenon DEF Next

---------------------------------------------------------------------------
(* What the invariants give, for each machine by itself *)

(* What is proved of a checkpoint. *)
LEMMA CheckpointFacts ==
  CheckpointConstants =>
    /\ CheckpointInit => CheckpointInv
    /\ CheckpointInv /\ [CheckpointNext]_checkpointVars => CheckpointInv'
    /\ CheckpointInv => EffectAtMostOnce /\ ReplayIsReal
    /\ CheckpointInv /\ CheckpointNext => OutcomeIsFinal
<1> SUFFICES ASSUME CheckpointConstants
    PROVE  /\ CheckpointInit => CheckpointInv
           /\ CheckpointInv /\ [CheckpointNext]_checkpointVars => CheckpointInv'
           /\ CheckpointInv => EffectAtMostOnce /\ ReplayIsReal
           /\ CheckpointInv /\ CheckpointNext => OutcomeIsFinal
  OBVIOUS
<1>1. CheckpointInit => CheckpointInv
  BY CheckpointStart
<1>2. CheckpointInv /\ UNCHANGED checkpointVars => CheckpointInv'
  BY DEF checkpointVars, CheckpointInv, CheckpointTyped, RunInv, Claimed, ReplayIsReal, NoneSlowInv, Performers, Holder
<1>3. CheckpointInv /\ CheckpointNext => CheckpointInv'
  BY CheckpointStep
<1>4. CheckpointInv => EffectAtMostOnce /\ ReplayIsReal
  BY CheckpointOnce DEF CheckpointInv
<1>5. CheckpointInv /\ CheckpointNext => OutcomeIsFinal
  BY CheckpointFinal
<1> QED BY <1>1, <1>2, <1>3, <1>4, <1>5

(* SideEffectCheckpoint performs an effect at most once while no run outlives its claim, replays
   only what happened, and never changes a settled outcome. *)
THEOREM EffectsHappenOnce ==
  ASSUME CheckpointConstants
  PROVE  CheckpointInit /\ [][CheckpointNext]_checkpointVars => [](EffectAtMostOnce /\ ReplayIsReal) /\ [][OutcomeIsFinal]_checkpointVars
<1>1. CheckpointInit => CheckpointInv
  BY CheckpointFacts
<1>2. CheckpointInv /\ [CheckpointNext]_checkpointVars => CheckpointInv'
  BY CheckpointFacts
<1>3. CheckpointInv => EffectAtMostOnce /\ ReplayIsReal
  BY CheckpointFacts
<1>4. CheckpointInv /\ [CheckpointNext]_checkpointVars => [OutcomeIsFinal]_checkpointVars
  BY CheckpointFacts
<1> QED BY <1>1, <1>2, <1>3, <1>4, PTL

(* What is proved of the replay store. *)
LEMMA ReplayFacts ==
  ReplayConstants =>
    /\ ReplayInit => ReplayInv
    /\ ReplayInv /\ [ReplayNext]_replayVars => ReplayInv'
    /\ ReplayInv => DuplicateStopped
<1> SUFFICES ASSUME ReplayConstants
    PROVE  /\ ReplayInit => ReplayInv
           /\ ReplayInv /\ [ReplayNext]_replayVars => ReplayInv'
           /\ ReplayInv => DuplicateStopped
  OBVIOUS
<1>1. ReplayInit => ReplayInv
  BY ReplayStart
<1>2. ReplayInv /\ UNCHANGED replayVars => ReplayInv'
  BY DEF replayVars, ReplayInv, Stored, Others, DuplicateStopped
<1>3. ReplayInv /\ ReplayNext => ReplayInv'
  BY ReplayStep
<1>4. ReplayInv => DuplicateStopped
  BY Zenon DEF ReplayInv
<1> QED BY <1>1, <1>2, <1>3, <1>4

(* The replay store lets an event through again only after its window, or after as many other
   events as the store holds. *)
THEOREM RepeatedWebhooksAreStopped ==
  ASSUME ReplayConstants
  PROVE  ReplayInit /\ [][ReplayNext]_replayVars => [](DuplicateStopped)
<1>1. ReplayInit => ReplayInv
  BY ReplayFacts
<1>2. ReplayInv /\ [ReplayNext]_replayVars => ReplayInv'
  BY ReplayFacts
<1>3. ReplayInv => DuplicateStopped
  BY ReplayFacts
<1> QED BY <1>1, <1>2, <1>3, PTL

(* What is proved of a webhook. *)
LEMMA ProcessFacts ==
  /\ ProcessInit => ProcessInv
  /\ ProcessInv /\ [ProcessNext]_processVars => ProcessInv'
  /\ ProcessInv => HandledOnce /\ ReplayedWasHandled
<1>1. ProcessInit => ProcessInv
  BY ProcessStart
<1>2. ProcessInv /\ UNCHANGED processVars => ProcessInv'
  BY DEF processVars, ProcessInv, ReplayedWasHandled, OneHolder, Busy
<1>3. ProcessInv /\ ProcessNext => ProcessInv'
  BY ProcessStep
<1>4. ProcessInv => HandledOnce /\ ReplayedWasHandled
  BY ProcessOnce
<1> QED BY <1>1, <1>2, <1>3, <1>4

(* processWebhook handles an event once while no lock runs out under its call, and acknowledges a
   duplicate only of an event that was handled. *)
THEOREM WebhooksAreHandledOnce ==
  ProcessInit /\ [][ProcessNext]_processVars => [](HandledOnce /\ ReplayedWasHandled)
<1>1. ProcessInit => ProcessInv
  BY ProcessFacts
<1>2. ProcessInv /\ [ProcessNext]_processVars => ProcessInv'
  BY ProcessFacts
<1>3. ProcessInv => HandledOnce /\ ReplayedWasHandled
  BY ProcessFacts
<1> QED BY <1>1, <1>2, <1>3, PTL

(* What is proved of a resource. *)
LEMMA TransferFacts ==
  TransferConstants =>
    /\ TransferInit => TransferInv
    /\ TransferInv /\ [TransferNext]_transferVars => TransferInv'
    /\ TransferInv => OnePendingTransfer
    /\ TransferInv /\ TransferNext => OwnerHandsOn
<1> SUFFICES ASSUME TransferConstants
    PROVE  /\ TransferInit => TransferInv
           /\ TransferInv /\ [TransferNext]_transferVars => TransferInv'
           /\ TransferInv => OnePendingTransfer
           /\ TransferInv /\ TransferNext => OwnerHandsOn
  OBVIOUS
<1>1. TransferInit => TransferInv
  BY TransferStart
<1>2. TransferInv /\ UNCHANGED transferVars => TransferInv'
  BY DEF transferVars, TransferInv, OnePendingTransfer, Pending
<1>3. TransferInv /\ TransferNext => TransferInv'
  BY TransferStep
<1>4. TransferInv => OnePendingTransfer
  BY Zenon DEF TransferInv
<1>5. TransferInv /\ TransferNext => OwnerHandsOn
  BY TransferStep
<1> QED BY <1>1, <1>2, <1>3, <1>4, <1>5

(* A resource has at most one pending transfer; it is closed once, and accepting it in time hands the
   resource on from the owner who offered it. *)
THEOREM OneOwnerAtATime ==
  ASSUME TransferConstants
  PROVE  TransferInit /\ [][TransferNext]_transferVars => [](OnePendingTransfer) /\ [][OwnerHandsOn]_transferVars
<1>1. TransferInit => TransferInv
  BY TransferFacts
<1>2. TransferInv /\ [TransferNext]_transferVars => TransferInv'
  BY TransferFacts
<1>3. TransferInv => OnePendingTransfer
  BY TransferFacts
<1>4. TransferInv /\ [TransferNext]_transferVars => [OwnerHandsOn]_transferVars
  BY TransferFacts
<1> QED BY <1>1, <1>2, <1>3, <1>4, PTL

(* What is proved of an invitation. *)
LEMMA InviteFacts ==
  InviteConstants =>
    /\ InviteInit => InviteInv
    /\ InviteInv /\ [InviteNext]_inviteVars => InviteInv'
    /\ InviteInv /\ InviteNext => NoLateJoin
<1> SUFFICES ASSUME InviteConstants
    PROVE  /\ InviteInit => InviteInv
           /\ InviteInv /\ [InviteNext]_inviteVars => InviteInv'
           /\ InviteInv /\ InviteNext => NoLateJoin
  OBVIOUS
<1>1. InviteInit => InviteInv
  BY InviteStart
<1>2. InviteInv /\ UNCHANGED inviteVars => InviteInv'
  BY DEF inviteVars, InviteInv
<1>3. InviteInv /\ InviteNext => InviteInv'
  BY InviteStep
<1>4. InviteInv /\ InviteNext => NoLateJoin
  BY InviteStep
<1> QED BY <1>1, <1>2, <1>3, <1>4

(* Nobody joins on an invitation that was revoked or has expired. *)
THEOREM NobodyJoinsLate ==
  ASSUME InviteConstants
  PROVE  InviteInit /\ [][InviteNext]_inviteVars => [][NoLateJoin]_inviteVars
<1>1. InviteInit => InviteInv
  BY InviteFacts
<1>2. InviteInv /\ [InviteNext]_inviteVars => InviteInv'
  BY InviteFacts
<1>3. InviteInv /\ [InviteNext]_inviteVars => [NoLateJoin]_inviteVars
  BY InviteFacts
<1> QED BY <1>1, <1>2, <1>3, PTL

(* What is proved of the browser's queue. *)
LEMMA OfflineFacts ==
  /\ Init => OfflineInv
  /\ OfflineInv /\ [Next]_vars => OfflineInv'
  /\ OfflineInv /\ Next => NotDropped
<1>1. Init => OfflineInv
  BY OfflineStart
<1>2. OfflineInv /\ UNCHANGED vars => OfflineInv'
  BY DEF vars, OfflineInv
<1>3. OfflineInv /\ Next => OfflineInv'
  BY OfflineStep
<1>4. OfflineInv /\ Next => NotDropped
  BY OfflineStep
<1> QED BY <1>1, <1>2, <1>3, <1>4

(* No operation leaves the browser's storage undone, unless a tab wrote over an enqueue it had not
   heard of. *)
THEOREM OperationsAreNotDropped ==
  Init /\ [][Next]_vars => [][NotDropped]_vars
<1>1. Init => OfflineInv
  BY OfflineFacts
<1>2. OfflineInv /\ [Next]_vars => OfflineInv'
  BY OfflineFacts
<1>3. OfflineInv /\ [Next]_vars => [NotDropped]_vars
  BY OfflineFacts
<1> QED BY <1>1, <1>2, <1>3, PTL

=============================================================================
