------------------------------ MODULE Previews ------------------------------
(***************************************************************************)
(* What a change would do: the previews of a policy, and the report on     *)
(* permissions.  Two machines that share no state.                         *)
(***************************************************************************)
EXTENDS Integers, Sequences, FiniteSets, SequencesExt

(***************************************************************************)
(* The business policy (domain/policy.ts) and the two previews of a change  *)
(* to it: the paged dry run (domain/policy-dry-run.ts) and the maintainer's *)
(* simulation (domain/policy-simulation.ts), over the same stored invoices. *)
(*                                                                         *)
(* An amount, a window in days and a cap are small integers.  A proposal    *)
(* leaves a field out with Unset.  allowedAssets of {} means any asset.     *)
(***************************************************************************)

CONSTANTS
    Ids,          \* invoices, the larger the newer
    Shapes,       \* what an invoice may be
    Proposals,    \* what proposedPolicy may be
    CurrentPolicies,
    DaysCap       \* the most days the simulation accepts; the dry run has no cap

VARIABLES stored, workflow, current, proposal, pages, dry, sim

policyVars == <<stored, workflow, current, proposal, pages, dry, sim>>

Unset == -1

AnyAsset == {"unset"}

NoSim == [state |-> "none", affected |-> {}, pending |-> 0, sellers |-> {}, risk |-> "NONE", workflows |-> {},
          warnings |-> {}]

NoDry == [state |-> "none", affected |-> {}, pending |-> 0, sellers |-> {}, cursor |-> Unset]

PolicyInit ==
    /\ stored \in [Ids -> Shapes]
    /\ workflow \in [of : Ids, attempts : {1, 3}, active : BOOLEAN]
    /\ current \in CurrentPolicies
    /\ proposal \in Proposals
    /\ pages = <<>> /\ dry = NoDry /\ sim = NoSim

-----------------------------------------------------------------------------
\* evaluateInvoiceRequest: the first rule that denies, expiry only if it is given.
Decision(inv, days, policy) ==
    IF inv.amount < policy.minAmount THEN "AMOUNT_TOO_LOW"
    ELSE IF inv.amount > policy.maxAmount THEN "AMOUNT_TOO_HIGH"
    ELSE IF policy.assets # {} /\ inv.asset \notin policy.assets THEN "ASSET_NOT_ALLOWED"
    ELSE IF days # Unset /\ (days < policy.minDays \/ days > policy.maxDays) THEN "EXPIRY_OUT_OF_RANGE"
    ELSE "ALLOWED"

Given(new, old) == IF new = Unset THEN old ELSE new

BuildProposedPolicy ==
    [minAmount |-> Given(proposal.minAmount, current.minAmount), maxAmount |-> Given(proposal.maxAmount, current.maxAmount),
     minDays |-> Given(proposal.minDays, current.minDays), maxDays |-> Given(proposal.maxDays, current.maxDays),
     default |-> Given(proposal.default, current.default),
     assets |-> IF proposal.assets = AnyAsset THEN current.assets ELSE proposal.assets]

Days == {proposal.minDays, proposal.maxDays, proposal.default} \ {Unset}

Amounts == {proposal.minAmount, proposal.maxAmount} \ {Unset}

Ordered(policy) ==
    policy.minAmount <= policy.maxAmount /\ policy.minDays <= policy.default /\ policy.default <= policy.maxDays

SharedFields == Days # {} \/ Amounts # {} \/ proposal.assets # AnyAsset

\* validateProposal of the dry run: no other field, at least one, a sane range.
DryRunAccepts ==
    /\ proposal.retries = Unset /\ proposal.perSeller = Unset
    /\ \A a \in Amounts : a > 0
    /\ \A d \in Days : d >= 1
    /\ SharedFields
    /\ Ordered(BuildProposedPolicy)

\* validateSimulationPolicyInput.
SimulationAccepts ==
    /\ \A a \in Amounts : a > 0
    /\ \A d \in Days : d >= 1 /\ d <= DaysCap
    /\ proposal.retries \in {Unset} \cup 1..50 /\ (proposal.perSeller = Unset \/ proposal.perSeller >= 1)
    /\ SharedFields \/ proposal.retries # Unset \/ proposal.perSeller # Unset
    /\ Ordered(BuildProposedPolicy)

-----------------------------------------------------------------------------
\* evaluatePolicyDryRun: what the current policy allows and the new one denies.
DryRunAffected ==
    {i \in Ids : /\ Decision(stored[i], stored[i].days, current) = "ALLOWED"
                 /\ Decision(stored[i], stored[i].days, BuildProposedPolicy) # "ALLOWED"}

PendingOf(S) == {i \in S : stored[i].status = "PENDING"}

SellersOf(S) == {stored[i].seller : i \in S}

\* Mutant: the page keeps no slot to tell that there is more
BadInsertBounded(page, i, bound) ==
    LET lo == Cardinality({k \in DOMAIN page : page[k] >= i})
        grown == InsertAt(page, lo + 1, i)
    IN IF lo >= bound - 1 THEN page ELSE SubSeq(grown, 1, IF Len(grown) > bound - 1 THEN bound - 1 ELSE Len(grown))

\* insertBounded: a page sorted newest first with one slot more than its limit.
InsertBounded(page, i, bound) ==
    LET lo == Cardinality({k \in DOMAIN page : page[k] >= i})
        grown == InsertAt(page, lo + 1, i)
    IN IF lo >= bound THEN page ELSE SubSeq(grown, 1, IF Len(grown) > bound THEN bound ELSE Len(grown))

\* One request of the dry run with a preview of one record.  The cursor is bound
\* to the proposal; after it only older invoices are listed.
DryRunPage ==
    LET limit == 1
        old == {i \in DryRunAffected : dry.cursor = Unset \/ i < dry.cursor}
        page == FoldSet(LAMBDA i, p : InsertBounded(p, i, limit + 1), <<>>, old)
        records == SubSeq(page, 1, IF Len(page) > limit THEN limit ELSE Len(page))
    IN /\ DryRunAccepts /\ (dry.state = "none" \/ dry.state = "more")
       /\ pages' = pages \o records
       /\ dry' = [state |-> IF Len(page) > limit THEN "more" ELSE "done",
                  affected |-> DryRunAffected, pending |-> Cardinality(PendingOf(DryRunAffected)),
                  sellers |-> SellersOf(PendingOf(DryRunAffected)),
                  cursor |-> IF Len(page) > limit THEN records[limit] ELSE Unset]
       /\ UNCHANGED <<stored, workflow, current, proposal, sim>>

RefuseDryRun ==
    /\ ~DryRunAccepts /\ dry.state = "none"
    /\ dry' = [NoDry EXCEPT !.state = "refused"]
    /\ UNCHANGED <<stored, workflow, current, proposal, pages, sim>>

-----------------------------------------------------------------------------
\* simulatePolicyChange looks at the window only if the rule for it changes.
SimulatedDays(i) ==
    IF BuildProposedPolicy.minDays # current.minDays \/ BuildProposedPolicy.maxDays # current.maxDays
    THEN stored[i].days ELSE Unset

SimulatedAffected ==
    {i \in Ids : /\ Decision(stored[i], SimulatedDays(i), current) = "ALLOWED"
                 /\ Decision(stored[i], SimulatedDays(i), BuildProposedPolicy) # "ALLOWED"}

NewlyDisallowed ==
    LET new == BuildProposedPolicy.assets IN
    IF new = {} THEN {} ELSE IF current.assets = {} THEN {"*"} ELSE current.assets \ new

RiskLevel(affected, pending, sellers) ==
    IF pending = 0 /\ affected = {} THEN "NONE"
    ELSE IF pending <= 2 /\ Cardinality(sellers) <= 1 /\ NewlyDisallowed = {} THEN "LOW"
    ELSE IF pending <= 10 /\ NewlyDisallowed = {} THEN "MEDIUM"
    ELSE IF pending <= 50 \/ NewlyDisallowed # {} THEN "HIGH"
    ELSE "CRITICAL"

RollbackConstraints(pending) ==
    (IF pending > 0 THEN {"PENDING_INVOICE_INVARIANCE"} ELSE {})
    \cup (IF NewlyDisallowed # {} THEN {"ASSET_ALLOWLIST_RESTRICTION"} ELSE {})
    \cup (IF BuildProposedPolicy.maxAmount < current.maxAmount THEN {"MAX_AMOUNT_LOWERED"} ELSE {})

\* Active jobs over the new retry cap, or of an invoice that is affected.
AffectedWorkflows(affected) ==
    IF ~workflow.active THEN {}
    ELSE IF proposal.retries # Unset /\ workflow.attempts > proposal.retries THEN {"WORKFLOW_RETRY_CAP_EXCEEDED"}
    ELSE IF workflow.of \in affected THEN {"INVOICE_POLICY_DENIED"} ELSE {}

\* runMaintainerPolicySimulation.
Simulate ==
    LET affected == SimulatedAffected
        pending == Cardinality(PendingOf(affected))
        sellers == SellersOf(PendingOf(affected))
        jobs == AffectedWorkflows(affected)
        risk == RiskLevel(affected, pending, sellers)
    IN /\ sim.state = "none" /\ dry.state \in {"done", "refused"}
       /\ sim' = IF ~SimulationAccepts THEN [NoSim EXCEPT !.state = "refused"]
                 ELSE [state |-> "done", affected |-> affected, pending |-> pending, sellers |-> sellers,
                       risk |-> IF risk = "NONE" /\ jobs # {} THEN "LOW" ELSE risk, workflows |-> jobs,
                       warnings |-> RollbackConstraints(pending)
                                    \cup (IF jobs # {} THEN {"ACTIVE_WORKFLOWS_IMPACTED"} ELSE {})]
       /\ UNCHANGED <<stored, workflow, current, proposal, pages, dry>>

PolicyNext == DryRunPage \/ RefuseDryRun \/ Simulate

-----------------------------------------------------------------------------
PolicyTypeOK ==
    /\ dry.state \in {"none", "more", "done", "refused"} /\ sim.state \in {"none", "done", "refused"}
    /\ ToSet(pages) \subseteq Ids

\* Following the cursors to the end lists every affected invoice once, newest first.
PreviewListsAllAffected ==
    dry.state = "done" => pages = SetToSortSeq(dry.affected, >)

\* "a preview never disagrees with enforcement": what the dry run reports is what
\* the new policy refuses of what today's accepts, and both previews report the
\* same invoices, unless a stored window is outside today's rule for windows,
\* which the simulation does not look at when the rule stays.
PreviewsAgree ==
    dry.state = "done" /\ sim.state = "done" =>
       \/ dry.affected = sim.affected /\ dry.pending = sim.pending /\ dry.sellers = sim.sellers
       \/ \E i \in Ids : stored[i].days \notin current.minDays..current.maxDays

\* A proposal both tools know is judged alike, up to the simulation's cap on days.
ValidatorsAgree ==
    dry.state # "none" /\ sim.state # "none" /\ proposal.retries = Unset /\ proposal.perSeller = Unset =>
       (dry.state = "refused" <=> sim.state = "refused") \/ \E d \in Days : d > DaysCap

-----------------------------------------------------------------------------
(***************************************************************************)
(* PermissionDiffService (services/permission-diff.service.ts) over the     *)
(* role tables of domain/permission-diff.ts: the report on a proposed       *)
(* change of a role's permissions, of a user's role or of the policy.       *)
(***************************************************************************)

CONSTANTS
    Granted, Taken,    \* permissions a proposal may add to a role, or take
    DiffAmounts, Assets    \* of the policies that are compared

VARIABLES ask, report

diffVars == <<ask, report>>

\* DEFAULT_ROLE_PERMISSIONS
Viewer == {"invoice:read"}

Collaborator == Viewer \cup {"invoice:create", "invoice:update", "export:create"}

Admin ==
    Collaborator \cup {"invoice:cancel", "invoice:verify", "collaboration:invite", "collaboration:revoke",
                       "policy:read", "policy:simulate", "ops:health", "job:view", "job:requeue", "audit:read"}

Owner ==
    Admin \cup {"ownership:initiate_transfer", "ownership:accept_transfer", "ownership:cancel_transfer",
                "policy:update", "job:cancel"}

RolePermissions == [OWNER |-> Owner, ADMIN |-> Admin, COLLABORATOR |-> Collaborator, VIEWER |-> Viewer]

Roles == DOMAIN RolePermissions

HighPrivilege ==
    {"ownership:initiate_transfer", "ownership:accept_transfer", "ownership:cancel_transfer", "policy:update",
     "invoice:cancel", "job:cancel", "job:requeue"}

Rank == [OWNER |-> 4, ADMIN |-> 3, COLLABORATOR |-> 2, VIEWER |-> 1]

Policies == {[min |-> a, max |-> b, assets |-> s] : a \in DiffAmounts, b \in DiffAmounts, s \in SUBSET Assets \ {{}}}

NoAsk == [about |-> "none", actor |-> "ADMIN", role |-> "VIEWER", to |-> "VIEWER", proposed |-> {},
          current |-> CHOOSE p \in Policies : TRUE, next |-> CHOOSE p \in Policies : TRUE]

NoReport == [state |-> "none", added |-> {}, revoked |-> {}, escalation |-> FALSE, breaking |-> FALSE,
             risk |-> "LOW", quorum |-> FALSE, restore |-> {}]

DiffInit ==
    /\ report = NoReport
    /\ \/ \E a, r \in Roles, g \in SUBSET Granted, k \in SUBSET Taken :
             ask = [NoAsk EXCEPT !.about = "role", !.actor = a, !.role = r, !.proposed = (RolePermissions[r] \ k) \cup g]
       \/ \E a, r, s \in Roles : ask = [NoAsk EXCEPT !.about = "user", !.actor = a, !.role = r, !.to = s]
       \/ \E a \in Roles, p, q \in Policies :
             ask = [NoAsk EXCEPT !.about = "policy", !.actor = a, !.current = p, !.next = q]

\* assertAuthorized
Authorized(actor) == actor \in {"OWNER", "ADMIN"}

Refuse ==
    /\ report = NoReport
    /\ ~Authorized(ask.actor)
    /\ report' = [NoReport EXCEPT !.state = "unauthorized"]
    /\ UNCHANGED ask

\* generateRoleDiff
RoleRisk(escalation, breaking, added, revoked) ==
    IF escalation THEN "CRITICAL"
    ELSE IF breaking \/ Cardinality(added) > 3 \/ Cardinality(revoked) > 2 THEN "HIGH"
    ELSE IF added # {} \/ revoked # {} THEN "MEDIUM" ELSE "LOW"

GenerateRoleDiff ==
    LET today == RolePermissions[ask.role]
        added == ask.proposed \ today
        revoked == today \ ask.proposed
        escalation == ask.role # "OWNER" /\ added \cap HighPrivilege # {}
        breaking == revoked \cap {"invoice:read", "invoice:create", "invoice:verify"} # {}
        risk == RoleRisk(escalation, breaking, added, revoked)
    IN /\ report = NoReport /\ ask.about = "role" /\ Authorized(ask.actor)
       /\ report' = [state |-> "done", added |-> added, revoked |-> revoked, escalation |-> escalation,
                     breaking |-> breaking, risk |-> risk, quorum |-> risk \in {"HIGH", "CRITICAL"},
                     restore |-> today]
       /\ UNCHANGED ask

\* generateUserAssignmentDiff
UserRisk(to, escalation, revoked) ==
    IF to = "OWNER" THEN "CRITICAL" ELSE IF escalation THEN "HIGH" ELSE IF revoked # {} THEN "MEDIUM" ELSE "LOW"

GenerateUserDiff ==
    LET today == RolePermissions[ask.role]
        proposed == RolePermissions[ask.to]
        added == proposed \ today
        escalation == Rank[ask.to] > Rank[ask.role] /\ added \cap HighPrivilege # {}
        risk == UserRisk(ask.to, escalation, today \ proposed)
    IN /\ report = NoReport /\ ask.about = "user" /\ Authorized(ask.actor)
       /\ report' = IF ask.actor # "OWNER" /\ Rank[ask.to] >= Rank[ask.actor]
                    THEN [NoReport EXCEPT !.state = "escalation forbidden"]
                    ELSE [state |-> "done", added |-> added, revoked |-> today \ proposed,
                          escalation |-> escalation,
                          breaking |-> (today \ proposed) \cap {"invoice:read", "invoice:create"} # {},
                          risk |-> risk, quorum |-> risk \in {"HIGH", "CRITICAL"}, restore |-> today]
       /\ UNCHANGED ask

\* generatePolicyDiff: the amounts and the assets are compared, nothing else.
PolicyParams(cur, prop) ==
    (IF cur.min = prop.min THEN {}
     ELSE IF prop.min > cur.min THEN {<<"minAmount", "RESTRICTED", "MEDIUM">>} ELSE {<<"minAmount", "EXPANDED", "LOW">>})
    \cup (IF cur.max = prop.max THEN {}
          ELSE IF prop.max > cur.max THEN {<<"maxAmount", "EXPANDED", "HIGH">>} ELSE {<<"maxAmount", "RESTRICTED", "LOW">>})
    \cup (IF cur.assets = prop.assets THEN {}
          ELSE IF cur.assets \ prop.assets # {} THEN {<<"allowedAssets", "RESTRICTED", "HIGH">>}
          ELSE {<<"allowedAssets", "EXPANDED", "MEDIUM">>})

PolicyRisk(params) ==
    IF \E p \in params : p[3] = "HIGH" THEN "HIGH" ELSE IF \E p \in params : p[3] = "MEDIUM" THEN "MEDIUM" ELSE "LOW"

GeneratePolicyDiff ==
    LET params == PolicyParams(ask.current, ask.next) IN
    /\ report = NoReport /\ ask.about = "policy" /\ Authorized(ask.actor)
    /\ report' = [NoReport EXCEPT !.state = "done", !.risk = PolicyRisk(params), !.quorum = PolicyRisk(params) = "HIGH",
                                  !.breaking = \E p \in params : p[2] = "RESTRICTED"]
    /\ UNCHANGED ask

DiffNext == Refuse \/ GenerateRoleDiff \/ GenerateUserDiff \/ GeneratePolicyDiff

-----------------------------------------------------------------------------
DiffTypeOK ==
    /\ report.state \in {"none", "unauthorized", "escalation forbidden", "done"}
    /\ report.risk \in {"LOW", "MEDIUM", "HIGH", "CRITICAL"}

Done(about) == report.state = "done" /\ ask.about = about

\* Nobody below OWNER comes to hold a high-privilege permission they did not
\* have without the report asking for a quorum, by role or by assignment; and the
\* reversal plan undoes exactly what was proposed.
HighGrantsNeedQuorum ==
    /\ Done("role") /\ ask.role # "OWNER" /\ (ask.proposed \ RolePermissions[ask.role]) \cap HighPrivilege # {}
         => report.quorum
    /\ Done("user") /\ (RolePermissions[ask.to] \ RolePermissions[ask.role]) \cap HighPrivilege # {} => report.quorum
    /\ Done("role") => (ask.proposed \ report.added) \cup report.revoked = report.restore

\* An assignment never gives a user more than the one who assigns it holds,
\* unless that is the owner.
NoOneGrantsMoreThanTheyHold ==
    Done("user") /\ ask.actor # "OWNER" => RolePermissions[ask.to] \subseteq RolePermissions[ask.actor] /\ ask.to # ask.actor

Accepts(policy, amount, asset) == amount >= policy.min /\ amount <= policy.max /\ asset \in policy.assets

\* A policy change that is not called breaking refuses no invoice that today's
\* policy accepts.
UnbreakingKeepsInvoices ==
    Done("policy") /\ ~report.breaking
        => \A a \in DiffAmounts, s \in Assets : Accepts(ask.current, a, s) => Accepts(ask.next, a, s)
=============================================================================
