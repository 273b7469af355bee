--------------------------- MODULE Collaboration ----------------------------
(***************************************************************************)
(* Sharing a resource: handing it on, and inviting others to it.  Two      *)
(* machines that share no state.                                           *)
(***************************************************************************)
EXTENDS Integers, Sequences, FiniteSets

(***************************************************************************)
(* services/ownership-transfer.service.ts for one resource (its maps are    *)
(* keyed by resource and never mix two).  A transfer expires lazily: only a *)
(* call that looks at it notices.  seized is history: a transfer was        *)
(* pending when registerResourceOwner replaced the owner.                   *)
(***************************************************************************)

CONSTANTS
    Users,
    Transfers,   \* 1..n, the ids in the order they are handed out
    Ttls,        \* lifetimes a caller may ask for
    MaxTime

VARIABLES time, owner, transfer, active, seized

transferVars == <<time, owner, transfer, active, seized>>

NoOne == "no one"

NoTransfer == [status |-> "none", from |-> NoOne, to |-> NoOne, exp |-> 0]

TransferInit ==
    /\ time = 0
    /\ owner = NoOne
    /\ transfer = [t \in Transfers |-> NoTransfer]
    /\ active = 0
    /\ seized = {}

Pending(t) == transfer[t].status = "PENDING_ACCEPTANCE"

\* Date.now() > expiresAt: at its last instant a transfer is still valid.
Expired(t) == time > transfer[t].exp

TimePasses ==
    /\ time < MaxTime /\ time' = time + 1
    /\ UNCHANGED <<owner, transfer, active, seized>>

RegisterResourceOwner(u) ==
    /\ owner' = u
    /\ seized' = seized \cup {t \in Transfers : Pending(t) /\ owner # u}
    /\ UNCHANGED <<time, transfer, active>>

\* A pending transfer that ran out makes room; one that did not stands in the way.
InitiateTransfer(u, v, ttl) ==
    LET t == Cardinality({x \in Transfers : transfer[x].status # "none"}) + 1
        blocks == active # 0 /\ Pending(active)
        cleared == IF blocks THEN [transfer EXCEPT ![active].status = "EXPIRED"] ELSE transfer
    IN /\ t \in Transfers
       /\ owner \in {NoOne, u}
       /\ u # v
       /\ blocks => Expired(active)
       /\ transfer' = [cleared EXCEPT ![t] =
              [status |-> "PENDING_ACCEPTANCE", from |-> u, to |-> v, exp |-> time + ttl]]
       /\ active' = t
       /\ owner' = u
       /\ UNCHANGED <<time, seized>>

Close(t, status) ==
    /\ transfer' = [transfer EXCEPT ![t].status = status]
    /\ active' = 0
    /\ UNCHANGED <<time, seized>>

\* Mutant: an expired transfer can still be accepted
BadAcceptTransfer(t, u) ==
    /\ Pending(t) /\ transfer[t].to = u
    /\ Close(t, "ACCEPTED") /\ owner' = u

\* By id or by token: both find the same record.
AcceptTransfer(t, u) ==
    /\ Pending(t) /\ transfer[t].to = u
    /\ IF Expired(t)
       THEN Close(t, "EXPIRED") /\ UNCHANGED owner
       ELSE Close(t, "ACCEPTED") /\ owner' = u

\* Cancelling and declining do not look at the clock.
CancelTransfer(t, u) ==
    /\ Pending(t) /\ transfer[t].from = u
    /\ Close(t, "CANCELLED") /\ UNCHANGED owner

RejectTransfer(t, u) ==
    /\ Pending(t) /\ transfer[t].to = u
    /\ Close(t, "REJECTED") /\ UNCHANGED owner

\* getTransfer and listTransfers expire what they show.
LookUp(t) ==
    /\ Pending(t) /\ Expired(t)
    /\ Close(t, "EXPIRED") /\ UNCHANGED owner

TransferNext ==
    \/ TimePasses
    \/ \E u \in Users : RegisterResourceOwner(u)
    \/ \E u, v \in Users, ttl \in Ttls : InitiateTransfer(u, v, ttl)
    \/ \E t \in Transfers, u \in Users :
          AcceptTransfer(t, u) \/ CancelTransfer(t, u) \/ RejectTransfer(t, u)
    \/ \E t \in Transfers : LookUp(t)

-----------------------------------------------------------------------------
TransferTypeOK ==
    /\ owner \in Users \cup {NoOne}
    /\ active \in Transfers \cup {0}
    /\ \A t \in Transfers : transfer[t].status \in
          {"none", "PENDING_ACCEPTANCE", "ACCEPTED", "EXPIRED", "CANCELLED", "REJECTED"}
    /\ seized \subseteq Transfers

\* activePendingByResource names the one pending transfer, so a resource never
\* has two nominees who could both accept it.
OnePendingTransfer ==
    \A t \in Transfers : Pending(t) <=> active = t

\* A transfer leaves its pending state once, and an accepted one hands the
\* resource on from the owner who offered it, unless the owner was replaced by
\* registerResourceOwner while the transfer was pending.
OwnerHandsOn ==
    \A t \in Transfers :
      /\ transfer[t].status \notin {"none", "PENDING_ACCEPTANCE"}
             => transfer'[t].status = transfer[t].status
      /\ Pending(t) /\ transfer'[t].status = "ACCEPTED"
             => /\ owner' = transfer[t].to
                /\ time <= transfer[t].exp
                /\ owner = transfer[t].from \/ t \in seized

\* Transfers are numbered from 1.
TransferConstants ==
    /\ IsFiniteSet(Transfers) /\ Transfers = 1..Cardinality(Transfers)
    /\ Ttls \subseteq Nat /\ NoOne \notin Users

\* The inductive invariant behind both: ids are handed out in order, so a new transfer
\* never reuses one, and a pending transfer is its owner's unless it was seized.
TransferInv ==
    /\ time \in Nat /\ owner \in Users \cup {NoOne} /\ active \in Transfers \cup {0}
    /\ seized \subseteq Transfers
    /\ transfer \in [Transfers -> [status : {"none", "PENDING_ACCEPTANCE", "ACCEPTED", "EXPIRED",
                                             "CANCELLED", "REJECTED"},
                                   from : Users \cup {NoOne}, to : Users \cup {NoOne}, exp : Nat]]
    /\ \A t \in Transfers : transfer[t].status # "none" =>
          \A x \in 1..t : transfer[x].status # "none"
    /\ OnePendingTransfer
    /\ \A t \in Transfers : Pending(t) => owner = transfer[t].from \/ t \in seized

-----------------------------------------------------------------------------
(***************************************************************************)
(* services/invitation.service.ts: invitations with a rate limit per        *)
(* inviter and per recipient.  inviterTimes and targetTimes are the two     *)
(* histories, pruned whenever they are counted; invites keeps all that were *)
(* ever created, without the role and the token, which nothing reads again. *)
(***************************************************************************)

CONSTANTS
    Inviters, Emails,
    RoleOf,        \* the role each inviter acts in
    MaxPerWindow, MaxPerEmail, InviteWindow,   \* ThrottleConfig
    Lifetime,      \* expiresInMs
    MaxInvites, MaxDay

VARIABLES day, invites, inviterTimes, targetTimes

inviteVars == <<day, invites, inviterTimes, targetTimes>>

ROLE_HIERARCHY == [OWNER |-> 4, ADMIN |-> 3, COLLABORATOR |-> 2, VIEWER |-> 1]

Roles == DOMAIN ROLE_HIERARCHY

InviteInit ==
    /\ day = 0
    /\ invites = <<>>
    /\ inviterTimes = [i \in Inviters |-> <<>>]
    /\ targetTimes = [e \in Emails |-> <<>>]

DayPasses ==
    /\ day < MaxDay /\ day' = day + 1
    /\ UNCHANGED <<invites, inviterTimes, targetTimes>>

Recent(times) == SelectSeq(times, LAMBDA t : day - t < InviteWindow)

\* The role is checked before the limits; both limits before either history
\* is written, so a refused invitation does not count.
CreateInvitation(i, e, role) ==
    /\ Len(invites) < MaxInvites
    /\ ROLE_HIERARCHY[role] <= ROLE_HIERARCHY[RoleOf[i]]
    /\ Len(Recent(inviterTimes[i])) < MaxPerWindow
    /\ Len(Recent(targetTimes[e])) < MaxPerEmail
    /\ inviterTimes' = [inviterTimes EXCEPT ![i] = Append(Recent(@), day)]
    /\ targetTimes' = [targetTimes EXCEPT ![e] = Append(Recent(@), day)]
    /\ invites' = Append(invites, [by |-> i, email |-> e, status |-> "PENDING",
                                   at |-> day, exp |-> day + Lifetime])
    /\ UNCHANGED day

\* An admin, an owner or the inviter, whatever the invitation's status.
RevokeInvitation(n, i) ==
    /\ invites[n].by = i \/ ROLE_HIERARCHY[RoleOf[i]] >= ROLE_HIERARCHY.ADMIN
    /\ invites' = [invites EXCEPT ![n].status = "REVOKED"]
    /\ UNCHANGED <<day, inviterTimes, targetTimes>>

AcceptInvitation(n) ==
    /\ invites[n].status \notin {"REVOKED", "ACCEPTED"}
    /\ invites' = [invites EXCEPT ![n].status =
                      IF day > invites[n].exp THEN "EXPIRED" ELSE "ACCEPTED"]
    /\ UNCHANGED <<day, inviterTimes, targetTimes>>

InviteNext ==
    \/ DayPasses
    \/ \E i \in Inviters, e \in Emails, role \in Roles : CreateInvitation(i, e, role)
    \/ \E n \in 1..Len(invites) : AcceptInvitation(n) \/ \E i \in Inviters : RevokeInvitation(n, i)

-----------------------------------------------------------------------------
InviteTypeOK ==
    \A n \in 1..Len(invites) :
       invites[n].status \in {"PENDING", "ACCEPTED", "EXPIRED", "REVOKED"}

\* In no span of InviteWindow does an inviter send, or a recipient get, more
\* invitations than checkRateLimit allows, although the histories it counts
\* are pruned as it goes.
WithinRateLimit ==
    \A d \in 0..MaxDay :
       LET span == {n \in 1..Len(invites) : invites[n].at \in d..(d + InviteWindow - 1)} IN
       /\ \A i \in Inviters : Cardinality({n \in span : invites[n].by = i}) <= MaxPerWindow
       /\ \A e \in Emails : Cardinality({n \in span : invites[n].email = e}) <= MaxPerEmail

\* Nobody joins on an invitation that was withdrawn or has run out, and one
\* found expired stays so unless it is revoked.
NoLateJoin ==
    \A n \in 1..Len(invites) :
      /\ invites'[n].status = "ACCEPTED" /\ invites[n].status # "ACCEPTED"
            => invites[n].status = "PENDING" /\ day <= invites[n].exp
      /\ invites[n].status \in {"EXPIRED", "REVOKED"}
            => invites'[n].status \in {invites[n].status, "REVOKED"}

\* What a deployment configures.
InviteConstants == Lifetime \in Nat

\* The inductive invariant behind NoLateJoin: an invitation found expired has expired.
InviteInv ==
    /\ day \in Nat
    /\ invites \in Seq([by : Inviters, email : Emails, at : Nat, exp : Nat,
                        status : {"PENDING", "ACCEPTED", "EXPIRED", "REVOKED"}])
    /\ \A n \in 1..Len(invites) : invites[n].status = "EXPIRED" => day > invites[n].exp
=============================================================================
