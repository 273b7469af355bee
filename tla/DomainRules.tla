---------------------------- MODULE DomainRules -----------------------------
(***************************************************************************)
(* The gates of the domain: lawful changes of state, and deadlines of      *)
(* workflows.  Two machines that share no state.                           *)
(***************************************************************************)
EXTENDS Integers, FiniteSetsExt

(***************************************************************************)
(* InvariantValidator (domain/state-invariants.ts), as the gate of every    *)
(* change of balances, of ownership, of roles and of an entity's status: a  *)
(* change is made only if its validator returns.  Any change may be asked   *)
(* for, with any amount, by anyone.                                         *)
(*                                                                         *)
(* The changes themselves are the callers' business and kept minimal.       *)
(* fees is what was collected; signer is history, who accepted last.  The   *)
(* four domains share no state, so a behaviour is about one of them.        *)
(***************************************************************************)

CONSTANTS
    Accounts,
    People,
    Tenant,       \* person |-> tenant
    FirstRole,    \* person |-> role
    Reserve,      \* minimumReserveStroops
    Opening       \* the balance of every account at first

VARIABLES balance, fees, owner, nominee, signer, role, lifecycle, domain

gateVars == <<domain, balance, fees, owner, nominee, signer, role, lifecycle>>

RoleHierarchy == [SUPER_ADMIN |-> 5, OWNER |-> 4, ADMIN |-> 3, COLLABORATOR |-> 2, VIEWER |-> 1]

Statuses == {"DRAFT", "PENDING", "PAID", "EXPIRED", "CANCELLED"}

NoOne == "no one"

GateInit ==
    /\ balance = [a \in Accounts |-> Opening]
    /\ fees = 0
    /\ owner \in {p \in People : FirstRole[p] = "OWNER"}
    /\ nominee = NoOne /\ signer = NoOne
    /\ role = FirstRole
    /\ domain \in {"BALANCE", "OWNERSHIP", "ENTITLEMENT", "LIFECYCLE"}
    /\ lifecycle = [status |-> "DRAFT", required |-> 0, settled |-> 0]

-----------------------------------------------------------------------------
\* validateBalanceTransition, up to its own check of conservation.
BalanceAccepts(from, to, amount, fee) ==
    /\ amount > 0 /\ fee >= 0
    /\ balance[from] >= amount + fee + Reserve
    /\ from # to

Transfer(from, to, amount, fee) ==
    /\ BalanceAccepts(from, to, amount, fee)
    /\ balance' = [balance EXCEPT ![from] = @ - (amount + fee), ![to] = @ + amount]
    /\ fees' = fees + fee
    /\ UNCHANGED <<domain, owner, nominee, signer, role, lifecycle>>

-----------------------------------------------------------------------------
\* validateOwnershipTransition, by its action.
Parties(target) == target # NoOne /\ owner # target

MayInitiate(actor, target) == Parties(target) /\ (actor = owner \/ role[actor] = "SUPER_ADMIN")

MayAccept(actor, target, pending, expired) == Parties(target) /\ actor = target /\ pending /\ ~expired

MayCancel(actor, target) == Parties(target) /\ (actor = owner \/ role[actor] = "SUPER_ADMIN")

MayReject(actor, target) == Parties(target) /\ actor = target

Initiate(actor, target) ==
    /\ MayInitiate(actor, target)
    /\ nominee' = target
    /\ UNCHANGED <<domain, balance, fees, owner, signer, role, lifecycle>>

Accept(actor, target, expired) ==
    /\ MayAccept(actor, target, nominee = target, expired)
    /\ owner' = target /\ nominee' = NoOne /\ signer' = actor
    /\ UNCHANGED <<domain, balance, fees, role, lifecycle>>

Withdraw(actor) ==
    /\ MayCancel(actor, nominee) \/ MayReject(actor, nominee)
    /\ nominee' = NoOne
    /\ UNCHANGED <<domain, balance, fees, owner, signer, role, lifecycle>>

-----------------------------------------------------------------------------
\* validateEntitlementTransition; its check of self-promotion is covered by the
\* ceiling before it.
EntitlementAccepts(actor, target, granted) ==
    /\ Tenant[actor] = Tenant[target]
    /\ RoleHierarchy[role[actor]] >= RoleHierarchy[granted]

Grant(actor, target, granted) ==
    /\ EntitlementAccepts(actor, target, granted)
    /\ role' = [role EXCEPT ![target] = granted]
    /\ UNCHANGED <<domain, balance, fees, owner, nominee, signer, lifecycle>>

-----------------------------------------------------------------------------
AllowedTransitions ==
    [DRAFT |-> {"DRAFT", "PENDING", "CANCELLED"}, PENDING |-> {"PENDING", "PAID", "EXPIRED", "CANCELLED"},
     PAID |-> {"PAID"}, EXPIRED |-> {"EXPIRED"}, CANCELLED |-> {"CANCELLED"}]

\* validateLifecycleTransition.
LifecycleAccepts(status, required, settled) ==
    /\ status \in AllowedTransitions[lifecycle.status]
    /\ status = "PAID" => settled >= required /\ required > 0

Become(status, required, settled) ==
    /\ LifecycleAccepts(status, required, settled)
    /\ lifecycle' = IF status = "PAID" THEN [status |-> status, required |-> required, settled |-> settled]
                    ELSE [lifecycle EXCEPT !.status = status]
    /\ UNCHANGED <<domain, balance, fees, owner, nominee, signer, role>>

GateNext ==
    \/ domain = "BALANCE" /\ \E a, b \in Accounts, amount \in -1..2, fee \in -1..1 : Transfer(a, b, amount, fee)
    \/ domain = "OWNERSHIP"
       /\ \E p, q \in People : Initiate(p, q) \/ Withdraw(p) \/ \E expired \in BOOLEAN : Accept(p, q, expired)
    \/ domain = "ENTITLEMENT" /\ \E p, q \in People, g \in DOMAIN RoleHierarchy : Grant(p, q, g)
    \/ domain = "LIFECYCLE" /\ \E s \in Statuses, r, t \in 0..2 : Become(s, r, t)

-----------------------------------------------------------------------------
GateTypeOK ==
    /\ owner \in People /\ nominee \in People \cup {NoOne}
    /\ \A p \in People : role[p] \in DOMAIN RoleHierarchy
    /\ lifecycle.status \in Statuses

\* No sequence of transfers makes or loses value or draws an account below its
\* reserve, whatever amounts and fees are asked for.
ValueConserved ==
    /\ MapThenSumSet(LAMBDA a : balance[a], Accounts) + fees = MapThenSumSet(LAMBDA a : Opening, Accounts)
    /\ \A a \in Accounts : balance[a] >= Reserve

\* No chain of grants lifts anyone above the highest rank their tenant had.
NoOneAboveTheCeiling ==
    \A p \in People : RoleHierarchy[role[p]]
        <= Max({RoleHierarchy[FirstRole[q]] : q \in {q \in People : Tenant[q] = Tenant[p]}})

\* Ownership changes hands only to the one who was nominated, and only when
\* that one accepts.
HandoffIsConsented ==
    owner' # owner => nominee = owner' /\ signer' = owner'

\* An entity that is PAID, EXPIRED or CANCELLED stays so, and PAID covers what
\* was due.
TerminalIsFunded ==
    /\ lifecycle.status \in {"PAID", "EXPIRED", "CANCELLED"} => lifecycle'.status = lifecycle.status
    /\ lifecycle'.status = "PAID" => lifecycle'.settled >= lifecycle'.required

-----------------------------------------------------------------------------
(***************************************************************************)
(* WorkflowSLAEngine (domain/workflow-sla.ts): the deadline of a workflow,  *)
(* the level it is escalated to by time and by hand, and the audit events   *)
(* it emits.  sink is history: the last event of a workflow since it was    *)
(* entered.                                                                 *)
(***************************************************************************)

CONSTANTS
    Flows,
    Policies,       \* state |-> [due, step, max], DEFAULT_SLA_POLICIES
    MaxTime

VARIABLES sla, time, sink

slaVars == <<sla, time, sink>>

NoState == [state |-> "none", dueAt |-> 0, status |-> "none", level |-> 0]

NoEvent == [type |-> "none", from |-> "none", to |-> "none", level |-> 0]

SlaInit ==
    /\ sla = [f \in Flows |-> NoState]
    /\ time = 0
    /\ sink = [f \in Flows |-> NoEvent]

Lower(a, b) == IF a < b THEN a ELSE b

\* enter: a workflow starts, or starts over, and no event tells of it.
Enter(f, state) ==
    /\ sla' = [sla EXCEPT ![f] = [state |-> state, dueAt |-> time + Policies[state].due, status |-> "ON_TIME", level |-> 0]]
    /\ sink' = [sink EXCEPT ![f] = NoEvent]
    /\ UNCHANGED time

Emit(f, type, to, level) ==
    sink' = [sink EXCEPT ![f] = [type |-> type, from |-> sla[f].status, to |-> to, level |-> level]]

\* evaluate: the level the time past the deadline calls for; a level given by
\* hand is kept, the status is not.
Evaluate(f) ==
    LET late == time - sla[f].dueAt
        policy == Policies[sla[f].state]
        level == Lower(late \div policy.step, policy.max)
        status == IF level > 0 THEN "ESCALATED" ELSE "OVERDUE"
        held == IF level > sla[f].level THEN level ELSE sla[f].level
    IN /\ sla[f].status \notin {"none", "RESOLVED"}
       /\ late >= 0
       /\ sla[f].status # status \/ level > sla[f].level
       /\ sla' = [sla EXCEPT ![f].status = status, ![f].level = held]
       /\ Emit(f, IF status = "ESCALATED" THEN "SLA_ESCALATED" ELSE "SLA_OVERDUE", status, held)
       /\ UNCHANGED time

\* escalate: one level up by hand, also before the deadline.
Escalate(f) ==
    LET level == Lower(sla[f].level + 1, Policies[sla[f].state].max) IN
    /\ sla[f].status \notin {"none", "RESOLVED"}
    /\ sla' = [sla EXCEPT ![f].status = "ESCALATED", ![f].level = level]
    /\ Emit(f, "SLA_ESCALATED", "ESCALATED", level)
    /\ UNCHANGED time

\* resolve does not ask whether it was resolved before.
Resolve(f) ==
    /\ sla[f].status # "none"
    /\ sla' = [sla EXCEPT ![f].status = "RESOLVED"]
    /\ Emit(f, "SLA_RESOLVED", "RESOLVED", sla[f].level)
    /\ UNCHANGED time

Tick ==
    /\ time < MaxTime
    /\ time' = time + 1
    /\ UNCHANGED <<sla, sink>>

SlaNext ==
    \/ \E f \in Flows : Evaluate(f) \/ Escalate(f) \/ Resolve(f) \/ \E s \in DOMAIN Policies : Enter(f, s)
    \/ Tick

-----------------------------------------------------------------------------
SlaTypeOK ==
    /\ \A f \in Flows : sla[f].status \in {"none", "ON_TIME", "OVERDUE", "ESCALATED", "RESOLVED"}
    /\ \A f \in Flows : sla[f].state # "none" => sla[f].level \in 0..Policies[sla[f].state].max

\* The audit trail can be trusted: the last event of a workflow says the status
\* and the level it has, whether time or a person raised it.
TrailTellsTheState ==
    \A f \in Flows : sink[f].type # "none"
        => sink[f].to = sla[f].status /\ sink[f].level = sla[f].level

\* Between two entries a level is never taken back, by time, by hand or by both.
LevelsOnlyRise ==
    \A f \in Flows : sla'[f].level >= sla[f].level \/ (sink'[f] = NoEvent /\ sla'[f].status = "ON_TIME")

\* Resolved is final until the workflow is entered again.
ResolvedStays ==
    \A f \in Flows : sla[f].status = "RESOLVED" /\ sla'[f] # sla[f] => sla'[f].status = "ON_TIME"
=============================================================================
